----------------------------- MODULE RtspProofs -----------------------------
(***************************************************************************)
(* What is proved of RTSP, in rtsp_client of this program and in live555's *)
(* RTSPClient below it.                                                    *)
(*                                                                         *)
(* For any number of clients, connections and subsessions, when open() is  *)
(* called at most once on each client: answers, alarms and sinks find      *)
(* their client in the state they are for, and no connection is leaked.  A *)
(* second open() breaks this.                                              *)
(*                                                                         *)
(* For any number of requests and any size of the response buffer: no      *)
(* handler is called twice, whatever the server does; no request is        *)
(* forgotten, and handlers get the answers they should.  A server breaks   *)
(* the latter whose answer with "Connection: Close" comes in two, or whose *)
(* answer behind another one is too large (Orderly excludes both).         *)
(***************************************************************************)
EXTENDS RtspClient, RtspRequests, SequenceFacts, SequenceTheorems, TLAPS

\* A client's connection is its own and exists; there is no other.
ClientInv ==
    /\ \A c \in Clients :
          /\ c \in creating =>
                c \in live /\ opens[c] = 1 /\ flag[c] = 0 /\ conn[c] = NoConn
          /\ c \in live /\ opens[c] = 0 => flag[c] = 0 /\ conn[c] = NoConn
          /\ c \in live /\ flag[c] = 1 => conn[c] # NoConn /\ opens[c] = 1
          /\ c \in live /\ conn[c] # NoConn => conn[c] \in open
    /\ \A c, d \in live : conn[c] = conn[d] /\ conn[c] # NoConn => c = d
    /\ \A k \in open : \E c \in live : conn[c] = k

\* _clients maps a connection to the client that uses it.
MapInv ==
    \A k \in Conns : clientOf[k] # NoClient =>
        clientOf[k] \in live /\ conn[clientOf[k]] = k

\* A request fits the state of its client, and is its only one.
RequestInv ==
    /\ \A r \in requests : LET c == clientOf[r.conn] IN
          /\ c # NoClient
          /\ r.kind = "describe" => c \notin session
          /\ r.kind = "setup" => c \in session /\ cur[c] = r.sub
                                 /\ r.sub \notin sinks[c] /\ r.sub \in Subs
          /\ r.kind = "play" => c \in session /\ cur[c] = NumSubs + 1
    /\ \A q, r \in requests : q.conn = r.conn => q = r

\* What calls back a client belongs to a session of a client that is alive.
UpcallInv ==
    /\ alarms = token
    /\ \A c \in Clients :
          /\ c \in token => c \in live /\ keep[c] /\ conn[c] # NoConn
          /\ c \in session => c \in live /\ conn[c] # NoConn
          /\ sinks[c] \cup byes[c] # {} => c \in session
          /\ c \in session => \A j \in sinks[c] : j <= cur[c]

\* A closure is for a client that is alive; that of open() runs before the
\* client has a session, that of close() is the client's last.
QueueInv ==
    /\ \A i \in 1 .. Len(queue) : LET c == queue[i][2] IN
          /\ c \in live /\ c \notin creating /\ opens[c] = 1 /\ conn[c] # NoConn
          /\ queue[i][1] = "close" => flag[c] = 0
          /\ queue[i][1] = "open" => c \notin session /\ clientOf[conn[c]] = NoClient
    /\ \A i, j \in 1 .. Len(queue) :
          i < j /\ queue[i][2] = queue[j][2] =>
              queue[i][1] = "open" /\ queue[j][1] = "close"

RInv == TypeOK /\ ClientInv /\ MapInv /\ RequestInv /\ UpcallInv /\ QueueInv

-----------------------------------------------------------------------------
\* What the queue holds after a closure was appended, and after one was taken.
LEMMA AppendClosure ==
    ASSUME NEW q \in Seq(Closures), NEW e \in Closures
    PROVE  /\ Append(q, e) \in Seq(Closures)
           /\ Len(Append(q, e)) = Len(q) + 1
           /\ Append(q, e)[Len(q) + 1] = e
           /\ \A i \in 1 .. Len(q) : Append(q, e)[i] = q[i]
BY AppendProperties

LEMMA TakeClosure ==
    ASSUME NEW q \in Seq(Closures), q # <<>>
    PROVE  /\ Tail(q) \in Seq(Closures)
           /\ Len(q) \in Nat \ {0}
           /\ Len(Tail(q)) = Len(q) - 1
           /\ Head(q) = q[1]
           /\ \A i \in 1 .. Len(Tail(q)) : Tail(q)[i] = q[i + 1]
<1>1. Len(q) \in Nat \ {0}
  BY EmptySeq
<1> QED BY <1>1, HeadTailProperties

LEMMA ClosureParts ==
    ASSUME TypeOK, NEW i \in 1 .. Len(queue)
    PROVE  queue[i][1] \in {"open", "close"} /\ queue[i][2] \in Clients
<1>1. queue[i] \in Closures
  BY ElementOfSeq DEF TypeOK
<1> QED BY <1>1 DEF Closures

LEMMA InitInv == Init => RInv
<1> SUFFICES ASSUME Init PROVE RInv
  OBVIOUS
<1>1. queue \in Seq(Closures) /\ Len(queue) = 0
  BY EmptySeq DEF Init
<1>2. TypeOK
  <2>1. 0 \in 0 .. MaxOpens /\ 0 \in 0 .. 1 /\ 0 \in 0 .. NumSubs + 1
    BY MaxOpensAssumption, NumSubsAssumption
  <2> QED BY <1>1, <2>1 DEF Init, TypeOK
<1>3. ClientInv /\ MapInv /\ RequestInv /\ UpcallInv
  BY DEF Init, ClientInv, MapInv, RequestInv, UpcallInv
<1>4. QueueInv
  BY <1>1 DEF QueueInv
<1> QED BY <1>2, <1>3, <1>4 DEF RInv

-----------------------------------------------------------------------------
(* The calling threads. *)

LEMMA NewInv == ASSUME RInv, NEW c \in Clients, New(c) PROVE RInv'
<1> USE DEF RInv, New, loopVars, threadVars
<1>1. TypeOK'
  BY MaxOpensAssumption, NumSubsAssumption DEF TypeOK
<1>2. ClientInv'
  BY DEF ClientInv, TypeOK
<1>3. MapInv'
  BY DEF MapInv, TypeOK
<1>4. RequestInv'
  BY DEF RequestInv, MapInv, TypeOK, Requests
<1>5. UpcallInv'
  BY DEF UpcallInv, TypeOK
<1>6. QueueInv'
  BY ClosureParts DEF QueueInv, TypeOK
<1> QED BY <1>1, <1>2, <1>3, <1>4, <1>5, <1>6

LEMMA BeginOpenInv ==
    ASSUME RInv, MaxOpens = 1, NEW c \in Clients, BeginOpen(c) PROVE RInv'
<1> USE DEF RInv, BeginOpen, MayCall, loopVars, sessionVars
<1>0. opens[c] = 0 /\ conn[c] = NoConn
  BY DEF ClientInv, TypeOK
<1>1. TypeOK'
  BY <1>0 DEF TypeOK
<1>2. ClientInv'
  BY <1>0 DEF ClientInv, TypeOK
<1>3. MapInv' /\ RequestInv'
  BY DEF MapInv, RequestInv
<1>5. UpcallInv'
  BY <1>0 DEF UpcallInv, TypeOK
<1>6. QueueInv'
  BY <1>0, ClosureParts DEF QueueInv, TypeOK
<1> QED BY <1>1, <1>2, <1>3, <1>5, <1>6

LEMMA FinishOpenInv ==
    ASSUME RInv, NEW c \in Clients, FinishOpen(c) PROVE RInv'
<1> USE DEF RInv, FinishOpen, sessionVars
<1>0. /\ c \in live /\ opens[c] = 1 /\ flag[c] = 0 /\ conn[c] = NoConn
      /\ queue' = Append(queue, <<"open", c>>) /\ <<"open", c>> \in Closures
  BY DEF ClientInv, Closures
<1>1. TypeOK'
  BY <1>0, AppendClosure DEF TypeOK
<1>2. PICK k \in Conns \ open : conn' = [conn EXCEPT ![c] = k] /\ open' = open \cup {k}
  OBVIOUS
<1>3. k # NoConn /\ conn'[c] = k /\ clientOf[k] = NoClient
  BY <1>2, NullAssumption DEF ClientInv, MapInv, TypeOK
<1>4. ClientInv'
  <2>1. \A d \in Clients : d # c => conn'[d] = conn[d] /\ flag'[d] = flag[d]
    BY <1>2 DEF TypeOK
  <2>2. conn'[c] = k /\ flag'[c] = 1 /\ k \in open' /\ k \notin open /\ live' = live
    BY <1>0, <1>2, <1>3 DEF TypeOK
  <2>3. \A d \in live : d \in Clients /\ (conn[d] # NoConn => conn[d] \in open)
    BY DEF ClientInv, TypeOK
  <2>4. ASSUME NEW d \in Clients
        PROVE  /\ d \in creating' =>
                      d \in live' /\ opens'[d] = 1 /\ flag'[d] = 0 /\ conn'[d] = NoConn
               /\ d \in live' /\ opens'[d] = 0 => flag'[d] = 0 /\ conn'[d] = NoConn
               /\ d \in live' /\ flag'[d] = 1 => conn'[d] # NoConn /\ opens'[d] = 1
               /\ d \in live' /\ conn'[d] # NoConn => conn'[d] \in open'
    <3>1. CASE d = c
      BY <1>0, <1>3, <2>2, <3>1
    <3>2. CASE d # c
      BY <1>2, <2>1, <3>2 DEF ClientInv
    <3> QED BY <3>1, <3>2
  <2>5. \A d, e \in live' : conn'[d] = conn'[e] /\ conn'[d] # NoConn => d = e
    BY <2>1, <2>2, <2>3 DEF ClientInv
  <2>6. \A i \in open' : \E d \in live' : conn'[d] = i
    <3> SUFFICES ASSUME NEW i \in open' PROVE \E d \in live' : conn'[d] = i
      OBVIOUS
    <3>1. CASE i = k
      BY <1>0, <2>2, <3>1
    <3>2. CASE i # k
      <4>1. PICK d \in live : conn[d] = i
        BY <1>2, <3>2 DEF ClientInv
      <4>2. d # c
        BY <1>0, <1>2, <3>2, <4>1, NullAssumption DEF TypeOK
      <4> QED BY <2>1, <2>2, <2>3, <4>1, <4>2
    <3> QED BY <3>1, <3>2
  <2> QED BY <2>4, <2>5, <2>6 DEF ClientInv
<1>5. MapInv'
  BY <1>0, <1>2, <1>3, NullAssumption DEF MapInv, TypeOK
<1>6. RequestInv'
  BY DEF RequestInv
<1>7. UpcallInv'
  BY <1>0, <1>2, <1>3 DEF UpcallInv, TypeOK
<1>8. QueueInv'
  <2>1. \A i \in 1 .. Len(queue) : queue[i][2] # c /\ queue[i][2] \in Clients
    BY ClosureParts DEF QueueInv
  <2>2. /\ Len(queue') = Len(queue) + 1 /\ Len(queue) \in Nat
        /\ queue'[Len(queue) + 1] = <<"open", c>>
        /\ \A i \in 1 .. Len(queue) : queue'[i] = queue[i]
    BY <1>0, AppendClosure DEF TypeOK
  <2>3. c \notin session /\ c \notin creating'
    BY <1>0 DEF UpcallInv
  <2>4. \A d \in Clients : d # c => conn'[d] = conn[d] /\ flag'[d] = flag[d]
    BY <1>2 DEF TypeOK
  <2>5. ASSUME NEW i \in 1 .. Len(queue')
        PROVE  LET d == queue'[i][2] IN
                 /\ d \in live' /\ d \notin creating' /\ opens'[d] = 1 /\ conn'[d] # NoConn
                 /\ queue'[i][1] = "close" => flag'[d] = 0
                 /\ queue'[i][1] = "open" => d \notin session' /\ clientOf'[conn'[d]] = NoClient
    <3>1. CASE i = Len(queue) + 1
      BY <1>0, <1>3, <2>2, <2>3, <3>1
    <3>2. CASE i # Len(queue) + 1
      <4>1. i \in 1 .. Len(queue)
        BY <2>2, <3>2
      <4> QED BY <2>1, <2>2, <2>4, <4>1 DEF QueueInv
    <3> QED BY <3>1, <3>2
  <2>6. ASSUME NEW i \in 1 .. Len(queue'), NEW j \in 1 .. Len(queue'),
               i < j, queue'[i][2] = queue'[j][2]
        PROVE  queue'[i][1] = "open" /\ queue'[j][1] = "close"
    <3>1. i \in 1 .. Len(queue)
      BY <2>2, <2>6
    <3>2. j \in 1 .. Len(queue)
      BY <2>1, <2>2, <2>6, <3>1
    <3> QED BY <2>2, <2>6, <3>1, <3>2 DEF QueueInv
  <2> QED BY <2>5, <2>6 DEF QueueInv
<1> QED BY <1>1, <1>4, <1>5, <1>6, <1>7, <1>8

LEMMA CloseInv == ASSUME RInv, NEW c \in Clients, Close(c) PROVE RInv'
<1> USE DEF RInv, Close, MayCall, sessionVars, threadVars
<1>0. /\ c \in live /\ c \notin creating /\ opens[c] = 1 /\ conn[c] # NoConn
      /\ queue' = Append(queue, <<"close", c>>) /\ <<"close", c>> \in Closures
  BY DEF ClientInv, Closures
<1>1. TypeOK'
  BY <1>0, AppendClosure DEF TypeOK
<1>2. ClientInv'
  BY <1>0 DEF ClientInv, TypeOK
<1>3. MapInv' /\ RequestInv' /\ UpcallInv'
  BY DEF MapInv, RequestInv, UpcallInv
<1>4. QueueInv'
  <2>1. /\ Len(queue') = Len(queue) + 1 /\ Len(queue) \in Nat
        /\ queue'[Len(queue) + 1] = <<"close", c>>
        /\ \A i \in 1 .. Len(queue) : queue'[i] = queue[i]
    BY <1>0, AppendClosure DEF TypeOK
  <2>2. \A i \in 1 .. Len(queue) :
           queue[i][2] \in Clients /\ queue[i][1] \in {"open", "close"}
    BY ClosureParts
  <2>3. flag'[c] = 0 /\ \A d \in Clients : d # c => flag'[d] = flag[d]
    BY DEF TypeOK
  <2>4. \A i \in 1 .. Len(queue) : queue[i][2] = c => queue[i][1] = "open"
    BY <2>2 DEF QueueInv
  <2>5. ASSUME NEW i \in 1 .. Len(queue')
        PROVE  LET d == queue'[i][2] IN
                 /\ d \in live' /\ d \notin creating' /\ opens'[d] = 1 /\ conn'[d] # NoConn
                 /\ queue'[i][1] = "close" => flag'[d] = 0
                 /\ queue'[i][1] = "open" => d \notin session' /\ clientOf'[conn'[d]] = NoClient
    <3>1. CASE i = Len(queue) + 1
      BY <1>0, <2>1, <2>3, <3>1
    <3>2. CASE i # Len(queue) + 1
      <4>1. i \in 1 .. Len(queue)
        BY <2>1, <3>2
      <4> QED BY <2>1, <2>2, <2>3, <4>1 DEF QueueInv
    <3> QED BY <3>1, <3>2
  <2>6. ASSUME NEW i \in 1 .. Len(queue'), NEW j \in 1 .. Len(queue'),
               i < j, queue'[i][2] = queue'[j][2]
        PROVE  queue'[i][1] = "open" /\ queue'[j][1] = "close"
    <3>1. i \in 1 .. Len(queue)
      BY <2>1, <2>6
    <3>2. CASE j = Len(queue) + 1
      BY <2>1, <2>4, <2>6, <3>1, <3>2
    <3>3. CASE j # Len(queue) + 1
      <4>1. j \in 1 .. Len(queue)
        BY <2>1, <3>3
      <4> QED BY <2>1, <2>6, <3>1, <4>1 DEF QueueInv
    <3> QED BY <3>2, <3>3
  <2> QED BY <2>5, <2>6 DEF QueueInv
<1> QED BY <1>1, <1>2, <1>3, <1>4

-----------------------------------------------------------------------------
(* The closures, taken from the head of the queue. *)

\* What is left in the queue when its head, a closure for c, was taken.
LEMMA RestOfQueue ==
    ASSUME RInv, NEW c \in Clients, NEW what, queue # <<>>,
           Head(queue) = <<what, c>>, queue' = Tail(queue)
    PROVE  /\ queue' \in Seq(Closures)
           /\ Len(queue) \in Nat \ {0} /\ Len(queue') = Len(queue) - 1
           /\ queue[1][1] = what /\ queue[1][2] = c
           /\ \A i \in 1 .. Len(queue') :
                 /\ i + 1 \in 1 .. Len(queue)
                 /\ queue'[i] = queue[i + 1]
                 /\ queue'[i][2] \in Clients
                 /\ queue'[i][2] = c => what = "open" /\ queue'[i][1] = "close"
<1> USE DEF RInv
<1>1. /\ queue' \in Seq(Closures)
      /\ Len(queue) \in Nat \ {0} /\ Len(queue') = Len(queue) - 1
      /\ Head(queue) = queue[1]
      /\ \A i \in 1 .. Len(queue') : queue'[i] = queue[i + 1]
  BY TakeClosure DEF TypeOK
<1>2. queue[1][1] = what /\ queue[1][2] = c
  BY <1>1
<1>3. ASSUME NEW i \in 1 .. Len(queue')
      PROVE  /\ i + 1 \in 1 .. Len(queue)
             /\ queue'[i][2] \in Clients
             /\ queue'[i][2] = c => what = "open" /\ queue'[i][1] = "close"
  <2>1. i + 1 \in 1 .. Len(queue) /\ 1 \in 1 .. Len(queue) /\ 1 < i + 1
    BY <1>1
  <2>2. queue[i + 1][2] \in Clients
    BY <2>1, ClosureParts
  <2>3. queue[i + 1][2] = c => what = "open" /\ queue[i + 1][1] = "close"
    BY <1>2, <2>1 DEF QueueInv
  <2> QED BY <1>1, <2>1, <2>2, <2>3
<1> QED BY <1>1, <1>2, <1>3

LEMMA RunOpenInv == ASSUME RInv, NEW c \in Clients, RunOpen(c) PROVE RInv'
<1>10. queue # <<>> /\ Head(queue) = <<"open", c>> /\ queue' = Tail(queue)
  BY DEF RunOpen
<1>11. /\ queue' \in Seq(Closures)
       /\ Len(queue) \in Nat \ {0} /\ Len(queue') = Len(queue) - 1
       /\ queue[1][1] = "open" /\ queue[1][2] = c
       /\ \A i \in 1 .. Len(queue') :
             /\ i + 1 \in 1 .. Len(queue)
             /\ queue'[i] = queue[i + 1]
             /\ queue'[i][2] \in Clients
             /\ queue'[i][2] = c => "open" = "open" /\ queue'[i][1] = "close"
  BY <1>10, RestOfQueue
<1>0. /\ queue' \in Seq(Closures)
      /\ Len(queue) \in Nat \ {0} /\ Len(queue') = Len(queue) - 1
      /\ queue[1][1] = "open" /\ queue[1][2] = c
      /\ \A i \in 1 .. Len(queue') :
            /\ i + 1 \in 1 .. Len(queue)
            /\ queue'[i] = queue[i + 1]
            /\ queue'[i][2] \in Clients
            /\ queue'[i][2] = c => queue'[i][1] = "close"
  BY <1>11
<1> USE DEF RInv, RunOpen, memberVars, apiVars, sessionVars, threadVars
<1> DEFINE k == conn[c]
           d == [conn |-> k, kind |-> "describe", sub |-> NoSub]
<1>1. /\ c \in live /\ c \notin creating /\ k # NoConn /\ c \notin session
      /\ clientOf[k] = NoClient
  BY <1>0 DEF QueueInv
<1>2. k \in Conns /\ k \in open /\ clientOf' = [clientOf EXCEPT ![k] = c]
      /\ c # NoClient
  BY <1>1, NullAssumption DEF ClientInv, TypeOK
<1>3. requests' = requests \cup {d} \/ requests' = requests
  BY DEF Send
<1>4. TypeOK'
  <2>1. d \in Requests
    BY <1>2 DEF Requests, NoSub
  <2> QED BY <1>0, <1>2, <1>3, <2>1 DEF TypeOK
<1>5. ClientInv'
  BY DEF ClientInv
<1>6. MapInv'
  BY <1>1, <1>2 DEF MapInv, TypeOK
<1>7. RequestInv'
  <2>1. \A r \in requests : r.conn \in Conns /\ r.conn # k
    BY <1>1 DEF RequestInv, TypeOK, Requests
  <2>2. \A r \in requests : clientOf'[r.conn] = clientOf[r.conn]
    BY <1>2, <2>1 DEF TypeOK
  <2>3. clientOf'[k] = c /\ d.conn = k /\ d.kind = "describe"
    BY <1>2 DEF TypeOK
  <2>4. ASSUME NEW r \in requests'
        PROVE  LET e == clientOf'[r.conn] IN
                 /\ e # NoClient
                 /\ r.kind = "describe" => e \notin session'
                 /\ r.kind = "setup" => e \in session' /\ cur'[e] = r.sub
                                        /\ r.sub \notin sinks'[e] /\ r.sub \in Subs
                 /\ r.kind = "play" => e \in session' /\ cur'[e] = NumSubs + 1
    <3>1. CASE r = d
      BY <1>1, <1>2, <2>3, <3>1
    <3>2. CASE r \in requests
      BY <2>2, <3>2 DEF RequestInv
    <3> QED BY <1>3, <3>1, <3>2
  <2>5. \A q, r \in requests' : q.conn = r.conn => q = r
    BY <1>3, <2>1, <2>3 DEF RequestInv
  <2> QED BY <2>4, <2>5 DEF RequestInv
<1>8. UpcallInv'
  BY DEF UpcallInv
<1>9. QueueInv'
  <2>1. ASSUME NEW i \in 1 .. Len(queue')
        PROVE  LET e == queue'[i][2] IN
                 /\ e \in live' /\ e \notin creating' /\ opens'[e] = 1 /\ conn'[e] # NoConn
                 /\ queue'[i][1] = "close" => flag'[e] = 0
                 /\ queue'[i][1] = "open" => e \notin session' /\ clientOf'[conn'[e]] = NoClient
    <3>1. /\ i + 1 \in 1 .. Len(queue) /\ queue'[i] = queue[i + 1]
          /\ queue'[i][2] \in Clients
          /\ queue'[i][2] = c => queue'[i][1] = "close"
      BY <1>0
    <3>2. /\ queue'[i][2] \in live /\ queue'[i][2] \notin creating
          /\ opens[queue'[i][2]] = 1 /\ conn[queue'[i][2]] # NoConn
          /\ queue'[i][1] = "close" => flag[queue'[i][2]] = 0
          /\ queue'[i][1] = "open" => queue'[i][2] \notin session
                                      /\ clientOf[conn[queue'[i][2]]] = NoClient
      BY <3>1 DEF QueueInv
    <3>3. ASSUME queue'[i][1] = "open" PROVE conn[queue'[i][2]] # k
      BY <1>1, <3>1, <3>2, <3>3 DEF ClientInv
    <3>4. queue'[i][1] = "open" => clientOf'[conn[queue'[i][2]]] = NoClient
      <4>1. conn[queue'[i][2]] \in Conns
        BY <3>1, <3>2 DEF TypeOK
      <4> QED BY <1>2, <3>2, <3>3, <4>1 DEF TypeOK
    <3> QED BY <3>2, <3>4
  <2>2. ASSUME NEW i \in 1 .. Len(queue'), NEW j \in 1 .. Len(queue'),
               i < j, queue'[i][2] = queue'[j][2]
        PROVE  queue'[i][1] = "open" /\ queue'[j][1] = "close"
    <3>1. i + 1 \in 1 .. Len(queue) /\ j + 1 \in 1 .. Len(queue) /\ i + 1 < j + 1
      BY <1>0, <2>2
    <3> QED BY <1>0, <2>2, <3>1 DEF QueueInv
  <2> QED BY <2>1, <2>2 DEF QueueInv
<1> QED BY <1>4, <1>5, <1>6, <1>7, <1>8, <1>9

LEMMA RunCloseInv == ASSUME RInv, NEW c \in Clients, RunClose(c) PROVE RInv'
<1>10. queue # <<>> /\ Head(queue) = <<"close", c>> /\ queue' = Tail(queue)
  BY DEF RunClose
<1>11. /\ queue' \in Seq(Closures)
       /\ Len(queue) \in Nat \ {0} /\ Len(queue') = Len(queue) - 1
       /\ queue[1][1] = "close" /\ queue[1][2] = c
       /\ \A i \in 1 .. Len(queue') :
             /\ i + 1 \in 1 .. Len(queue)
             /\ queue'[i] = queue[i + 1]
             /\ queue'[i][2] \in Clients
             /\ queue'[i][2] = c => "close" = "open" /\ queue'[i][1] = "close"
  BY <1>10, RestOfQueue
<1>0. /\ queue' \in Seq(Closures)
      /\ Len(queue) \in Nat \ {0} /\ Len(queue') = Len(queue) - 1
      /\ queue[1][1] = "close" /\ queue[1][2] = c
      /\ \A i \in 1 .. Len(queue') :
            /\ i + 1 \in 1 .. Len(queue)
            /\ queue'[i] = queue[i + 1]
            /\ queue'[i][2] \in Clients
            /\ queue'[i][2] # c
  BY <1>11
<1> USE DEF RInv, RunClose, TakeDown
<1> DEFINE k == conn[c]
<1>1. c \in live /\ c \notin creating /\ k # NoConn /\ k \in Conns
  BY <1>0 DEF QueueInv, TypeOK
<1>2. \A d \in live' : d \in live /\ d \in Clients /\ d # c /\ conn[d] # k
  BY <1>1 DEF ClientInv, TypeOK
<1>3. clientOf' = [clientOf EXCEPT ![k] = NoClient]
  OBVIOUS
<1>4. TypeOK'
  BY <1>0, <1>1 DEF TypeOK, TouchMedia
<1>5. ClientInv'
  <2>1. \A j \in open' : \E d \in live' : conn'[d] = j
    <3> SUFFICES ASSUME NEW j \in open' PROVE \E d \in live' : conn'[d] = j
      OBVIOUS
    <3>1. PICK d \in live : conn[d] = j
      BY DEF ClientInv
    <3> QED BY <3>1
  <2>2. \A d \in Clients :
          /\ d \in creating' =>
                d \in live' /\ opens'[d] = 1 /\ flag'[d] = 0 /\ conn'[d] = NoConn
          /\ d \in live' /\ opens'[d] = 0 => flag'[d] = 0 /\ conn'[d] = NoConn
          /\ d \in live' /\ flag'[d] = 1 => conn'[d] # NoConn /\ opens'[d] = 1
          /\ d \in live' /\ conn'[d] # NoConn => conn'[d] \in open'
    BY <1>1, <1>2 DEF ClientInv
  <2>3. \A d, e \in live' : conn'[d] = conn'[e] /\ conn'[d] # NoConn => d = e
    BY <1>2 DEF ClientInv
  <2> QED BY <2>1, <2>2, <2>3 DEF ClientInv
<1>6. MapInv'
  <2> SUFFICES ASSUME NEW j \in Conns, clientOf'[j] # NoClient
               PROVE  clientOf'[j] \in live' /\ conn'[clientOf'[j]] = j
    BY DEF MapInv
  <2>1. j # k /\ clientOf'[j] = clientOf[j]
    BY <1>1, <1>3 DEF TypeOK
  <2> QED BY <2>1 DEF MapInv
<1>7. RequestInv'
  <2> SUFFICES ASSUME NEW r \in requests'
               PROVE  LET e == clientOf'[r.conn] IN
                        /\ e # NoClient
                        /\ r.kind = "describe" => e \notin session'
                        /\ r.kind = "setup" => e \in session' /\ cur'[e] = r.sub
                                               /\ r.sub \notin sinks'[e] /\ r.sub \in Subs
                        /\ r.kind = "play" => e \in session' /\ cur'[e] = NumSubs + 1
    BY DEF RequestInv
  <2>1. r \in requests /\ r.conn # k /\ r.conn \in Conns
    BY DEF TypeOK, Requests
  <2>2. clientOf'[r.conn] = clientOf[r.conn] /\ clientOf[r.conn] # NoClient
    BY <1>3, <2>1 DEF TypeOK, RequestInv
  <2>3. clientOf[r.conn] # c /\ clientOf[r.conn] \in Clients
    BY <2>1, <2>2 DEF MapInv, TypeOK
  <2>4. sinks'[clientOf[r.conn]] = sinks[clientOf[r.conn]]
    BY <2>3 DEF TypeOK
  <2> QED BY <2>1, <2>2, <2>3, <2>4 DEF RequestInv
<1>8. UpcallInv'
  BY DEF UpcallInv, TypeOK
<1>9. QueueInv'
  <2>1. ASSUME NEW i \in 1 .. Len(queue')
        PROVE  LET e == queue'[i][2] IN
                 /\ e \in live' /\ e \notin creating' /\ opens'[e] = 1 /\ conn'[e] # NoConn
                 /\ queue'[i][1] = "close" => flag'[e] = 0
                 /\ queue'[i][1] = "open" => e \notin session' /\ clientOf'[conn'[e]] = NoClient
    <3>1. /\ i + 1 \in 1 .. Len(queue) /\ queue'[i] = queue[i + 1]
          /\ queue'[i][2] \in Clients /\ queue'[i][2] # c
      BY <1>0
    <3>2. /\ queue'[i][2] \in live /\ queue'[i][2] \notin creating
          /\ opens[queue'[i][2]] = 1 /\ conn[queue'[i][2]] # NoConn
          /\ queue'[i][1] = "close" => flag[queue'[i][2]] = 0
          /\ queue'[i][1] = "open" => queue'[i][2] \notin session
                                      /\ clientOf[conn[queue'[i][2]]] = NoClient
      BY <3>1 DEF QueueInv
    <3>3. conn[queue'[i][2]] \in Conns
      BY <3>1, <3>2 DEF TypeOK
    <3>4. queue'[i][1] = "open" => clientOf'[conn[queue'[i][2]]] = NoClient
      BY <1>3, <3>2, <3>3 DEF TypeOK
    <3> QED BY <3>1, <3>2, <3>4
  <2>2. ASSUME NEW i \in 1 .. Len(queue'), NEW j \in 1 .. Len(queue'),
               i < j, queue'[i][2] = queue'[j][2]
        PROVE  queue'[i][1] = "open" /\ queue'[j][1] = "close"
    <3>1. i + 1 \in 1 .. Len(queue) /\ j + 1 \in 1 .. Len(queue) /\ i + 1 < j + 1
      BY <1>0, <2>2
    <3> QED BY <1>0, <2>2, <3>1 DEF QueueInv
  <2> QED BY <2>1, <2>2 DEF QueueInv
<1> QED BY <1>4, <1>5, <1>6, <1>7, <1>8, <1>9

-----------------------------------------------------------------------------
(* Answers, alarms, sources that end.  They change neither who has which    *)
(* connection nor the queue.                                                *)

\* The client of an answer has the connection and no closure of open() queued.
LEMMA AnswerFacts ==
    ASSUME RInv, NEW r \in requests, NEW c \in Clients, c = clientOf[r.conn]
    PROVE  /\ c \in live /\ c # NoClient /\ conn[c] = r.conn /\ r.conn \in Conns
           /\ conn[c] # NoConn
           /\ \A q \in requests \ {r} : q.conn # conn[c]
           /\ \A q \in requests \ {r} : clientOf[q.conn] # c
           /\ \A i \in 1 .. Len(queue) : queue[i][2] = c => queue[i][1] = "close"
<1> USE DEF RInv
<1>1. c \in live /\ c # NoClient /\ conn[c] = r.conn /\ r.conn \in Conns
  BY NullAssumption DEF MapInv, TypeOK, Requests
<1>2. conn[c] # NoConn
  BY <1>1, NullAssumption
<1>3. \A q \in requests \ {r} : q.conn # conn[c]
  BY <1>1 DEF RequestInv
<1>4. \A q \in requests \ {r} : clientOf[q.conn] # c
  BY <1>1, <1>3 DEF MapInv, TypeOK, Requests
<1>5. \A i \in 1 .. Len(queue) : queue[i][2] = c => queue[i][1] = "close"
  BY <1>1, ClosureParts DEF QueueInv
<1> QED BY <1>1, <1>2, <1>3, <1>4, <1>5

\* What stays when an answer or an upcall changes a session only.
LEMMA SessionStep ==
    ASSUME RInv, UNCHANGED <<apiVars, queue, clientOf, open, creating>>,
           \A d \in session' \ session :
               \A i \in 1 .. Len(queue) : queue[i][2] = d => queue[i][1] = "close"
    PROVE  ClientInv' /\ MapInv' /\ QueueInv'
<1> USE DEF RInv, apiVars
<1>1. ClientInv' /\ MapInv'
  BY DEF ClientInv, MapInv
<1>2. QueueInv'
  <2>1. ASSUME NEW i \in 1 .. Len(queue)
        PROVE  queue[i][1] = "open" => queue[i][2] \notin session'
    BY DEF QueueInv
  <2> QED BY <2>1 DEF QueueInv
<1> QED BY <1>1, <1>2

LEMMA AnswerErrorInv == ASSUME RInv, NEW r \in requests, AnswerError(r) PROVE RInv'
<1> USE DEF AnswerError, memberVars, apiVars, sessionVars, threadVars
<1>1. ClientInv' /\ MapInv' /\ QueueInv'
  BY SessionStep
<1>2. TypeOK' /\ RequestInv' /\ UpcallInv'
  BY DEF RInv, TypeOK, RequestInv, UpcallInv
<1> QED BY <1>1, <1>2 DEF RInv

\* Going on to the next subsession keeps the requests fitting.
LEMMA SetupNextInv ==
    ASSUME RInv, NEW r \in requests, NEW c \in Clients, c = clientOf[r.conn],
           NEW from \in 0 .. NumSubs + 1, SetupNext(c, from, requests \ {r}),
           conn' = conn, clientOf' = clientOf,
           session' = session \cup {c},
           \A d \in Clients : d # c => sinks'[d] = sinks[d],
           \A j \in sinks'[c] : j <= from
    PROVE  /\ cur' \in [Clients -> 0 .. NumSubs + 1]
           /\ cur'[c] >= from \/ cur'[c] = NumSubs + 1
           /\ \A d \in Clients : d # c => cur'[d] = cur[d]
           /\ requests' \in SUBSET Requests
           /\ RequestInv'
<1> USE DEF RInv
<1> DEFINE NewRequest(kind, j) == [conn |-> conn[c], kind |-> kind, sub |-> j]
<1>0. /\ c \in live /\ c # NoClient /\ conn[c] = r.conn /\ r.conn \in Conns
      /\ \A q \in requests \ {r} : q.conn # conn[c]
      /\ \A q \in requests \ {r} : clientOf[q.conn] # c
  BY AnswerFacts
<1>1. PICK new \in Requests :
        /\ new.conn = conn[c]
        /\ \/ /\ new.kind = "setup" /\ new.sub \in Subs /\ new.sub > from
              /\ cur' = [cur EXCEPT ![c] = new.sub]
           \/ new.kind = "play" /\ cur' = [cur EXCEPT ![c] = NumSubs + 1]
        /\ requests' = (requests \ {r}) \cup {new} \/ requests' = requests \ {r}
  <2>1. CASE \E j \in Subs : /\ j > from
                             /\ cur' = [cur EXCEPT ![c] = j]
                             /\ Send(requests \ {r}, NewRequest("setup", j))
    <3>1. PICK j \in Subs : /\ j > from
                            /\ cur' = [cur EXCEPT ![c] = j]
                            /\ Send(requests \ {r}, NewRequest("setup", j))
      BY <2>1
    <3>2. NewRequest("setup", j) \in Requests
      BY <1>0 DEF Requests
    <3> QED BY <3>1, <3>2 DEF Send
  <2>2. CASE /\ cur' = [cur EXCEPT ![c] = NumSubs + 1]
             /\ Send(requests \ {r}, NewRequest("play", NoSub))
    <3>1. NewRequest("play", NoSub) \in Requests
      BY <1>0 DEF Requests
    <3> QED BY <2>2, <3>1 DEF Send
  <2> QED BY <2>1, <2>2 DEF SetupNext
<1>2. /\ cur' \in [Clients -> 0 .. NumSubs + 1]
      /\ \A d \in Clients : d # c => cur'[d] = cur[d]
      /\ new.kind = "setup" => cur'[c] = new.sub
      /\ new.kind = "play" => cur'[c] = NumSubs + 1
      /\ cur'[c] >= from \/ cur'[c] = NumSubs + 1
  <2>1. new.kind = "setup" => new.sub \in 0 .. NumSubs + 1 /\ new.sub >= from
    BY <1>1, NumSubsAssumption DEF Subs
  <2>2. NumSubs + 1 \in 0 .. NumSubs + 1
    BY NumSubsAssumption
  <2> QED BY <1>1, <2>1, <2>2 DEF TypeOK
<1>3. requests' \in SUBSET Requests
  BY <1>1 DEF TypeOK
<1>4. ASSUME NEW q \in requests'
      PROVE  LET e == clientOf'[q.conn] IN
               /\ e # NoClient
               /\ q.kind = "describe" => e \notin session'
               /\ q.kind = "setup" => e \in session' /\ cur'[e] = q.sub
                                      /\ q.sub \notin sinks'[e] /\ q.sub \in Subs
               /\ q.kind = "play" => e \in session' /\ cur'[e] = NumSubs + 1
  <2>1. CASE q = new
    <3>1. clientOf'[q.conn] = c
      BY <1>0, <1>1, <2>1
    <3>2. q.kind = "setup" => q.sub \notin sinks'[c]
      BY <1>1, <2>1 DEF Subs
    <3> QED BY <1>0, <1>1, <1>2, <2>1, <3>1, <3>2
  <2>2. CASE q \in requests \ {r}
    <3>1. clientOf[q.conn] # c /\ clientOf[q.conn] # NoClient
          /\ clientOf[q.conn] \in Clients
      BY <1>0, <2>2 DEF RequestInv, TypeOK, Requests
    <3> QED BY <1>2, <2>2, <3>1 DEF RequestInv
  <2> QED BY <1>1, <2>1, <2>2
<1>5. \A p, q \in requests' : p.conn = q.conn => p = q
  BY <1>0, <1>1 DEF RequestInv
<1> QED BY <1>2, <1>3, <1>4, <1>5 DEF RequestInv

LEMMA AnswerDescribeInv ==
    ASSUME RInv, NEW r \in requests, NEW c \in Clients, AnswerDescribe(r, c)
    PROVE  RInv'
<1> USE DEF RInv, AnswerDescribe, Answered, apiVars
<1>0. /\ c \in live /\ conn[c] # NoConn
      /\ \A i \in 1 .. Len(queue) : queue[i][2] = c => queue[i][1] = "close"
  BY AnswerFacts
<1>1. ClientInv' /\ MapInv' /\ QueueInv'
  BY <1>0, SessionStep
<1>2. c \notin session /\ sinks[c] = {}
  BY DEF RequestInv, UpcallInv, TypeOK
<1>3. 0 \in 0 .. NumSubs + 1
  BY NumSubsAssumption
<1>4. /\ cur' \in [Clients -> 0 .. NumSubs + 1]
      /\ \A d \in Clients : d # c => cur'[d] = cur[d]
      /\ requests' \in SUBSET Requests
      /\ RequestInv'
  BY <1>2, <1>3, SetupNextInv
<1>5. TypeOK'
  BY <1>4 DEF TypeOK, TouchMedia
<1>6. UpcallInv'
  BY <1>0, <1>2, <1>4 DEF UpcallInv
<1> QED BY <1>1, <1>4, <1>5, <1>6

LEMMA AnswerDescribeBadInv ==
    ASSUME RInv, NEW r \in requests, NEW c \in Clients, AnswerDescribeBad(r, c)
    PROVE  RInv'
<1> USE DEF RInv, AnswerDescribeBad, Answered, apiVars
<1>1. c \notin session
  BY DEF RequestInv
<1>2. session' = session
  BY <1>1
<1>3. ClientInv' /\ MapInv' /\ QueueInv'
  BY <1>2, SessionStep
<1>4. TypeOK' /\ RequestInv' /\ UpcallInv'
  BY <1>2 DEF TypeOK, RequestInv, UpcallInv, TouchMedia
<1> QED BY <1>3, <1>4

LEMMA AnswerSetupInv ==
    ASSUME RInv, NEW r \in requests, NEW c \in Clients, AnswerSetup(r, c)
    PROVE  RInv'
<1> USE DEF RInv, AnswerSetup, Answered, apiVars
<1>0. c \in live /\ conn[c] # NoConn
  BY AnswerFacts
<1>1. ClientInv' /\ MapInv' /\ QueueInv'
  BY SessionStep
<1>2. c \in session /\ cur[c] \in Subs /\ cur[c] \in 0 .. NumSubs + 1
  BY DEF RequestInv, TypeOK
<1>3. /\ \A d \in Clients : d # c => sinks'[d] = sinks[d] /\ byes'[d] = byes[d]
      /\ sinks'[c] = sinks[c] \cup {cur[c]}
      /\ \A j \in sinks'[c] : j <= cur[c]
  BY <1>2 DEF TypeOK, UpcallInv, Subs
<1>4. /\ cur' \in [Clients -> 0 .. NumSubs + 1]
      /\ cur'[c] >= cur[c] \/ cur'[c] = NumSubs + 1
      /\ \A d \in Clients : d # c => cur'[d] = cur[d]
      /\ requests' \in SUBSET Requests
      /\ RequestInv'
  <2>1. session' = session \cup {c}
    BY <1>2
  <2> QED BY <1>2, <1>3, <2>1, SetupNextInv
<1>5. TypeOK'
  BY <1>2, <1>4 DEF TypeOK, TouchMedia
<1>6. UpcallInv'
  <2>1. \A j \in sinks'[c] : j <= cur'[c]
    BY <1>2, <1>3, <1>4, <1>5 DEF TypeOK, Subs
  <2> QED BY <1>2, <1>3, <1>4, <2>1 DEF UpcallInv
<1> QED BY <1>1, <1>4, <1>5, <1>6

\* handle_timer renews the alarm of a client that keeps its session alive.
LEMMA KeepSessionInv ==
    ASSUME RInv, NEW c \in live, c \in Clients, conn[c] # NoConn, KeepSession(c),
           UNCHANGED <<apiVars, session, cur, sinks, byes>>
    PROVE  UpcallInv' /\ alarms' \in SUBSET Clients /\ token' \in SUBSET Clients
BY DEF RInv, KeepSession, UpcallInv, TypeOK, apiVars

LEMMA AnswerPlayInv ==
    ASSUME RInv, NEW r \in requests, NEW c \in Clients, AnswerPlay(r, c)
    PROVE  RInv'
<1> USE DEF AnswerPlay, Answered, threadVars
<1>1. ClientInv' /\ MapInv' /\ QueueInv'
  BY SessionStep
<1>2. UpcallInv' /\ alarms' \in SUBSET Clients /\ token' \in SUBSET Clients
  BY AnswerFacts, KeepSessionInv
<1>3. TypeOK' /\ RequestInv'
  BY <1>2 DEF RInv, TypeOK, RequestInv, apiVars
<1> QED BY <1>1, <1>2, <1>3 DEF RInv

LEMMA AlarmInv == ASSUME RInv, NEW c \in Clients, Alarm(c) PROVE RInv'
<1> USE DEF Alarm, threadVars
<1>1. ClientInv' /\ MapInv' /\ QueueInv'
  BY SessionStep
<1>2. UpcallInv' /\ alarms' \in SUBSET Clients /\ token' \in SUBSET Clients
  <2>1. c \in live /\ conn[c] # NoConn
    BY DEF RInv, UpcallInv
  <2> QED BY <2>1, KeepSessionInv
<1>3. TypeOK' /\ RequestInv'
  BY <1>2 DEF RInv, TypeOK, RequestInv, apiVars
<1> QED BY <1>1, <1>2, <1>3 DEF RInv

LEMMA SourceTypes ==
    ASSUME TypeOK, NEW c \in Clients, NEW j \in Subs, SourceEnds(c, j) \/ Bye(c, j)
    PROVE  /\ sinks' \in [Clients -> SUBSET Subs] /\ byes' \in [Clients -> SUBSET Subs]
           /\ raced' \in BOOLEAN
           /\ \A d \in Clients : sinks'[d] \subseteq sinks[d] /\ byes'[d] \subseteq byes[d]
<1>1. /\ sinks \in [Clients -> SUBSET Subs] /\ byes \in [Clients -> SUBSET Subs]
      /\ raced \in BOOLEAN
  BY DEF TypeOK
<1>2. /\ sinks' = [sinks EXCEPT ![c] = @ \ {j}]
      /\ byes' \in {byes, [byes EXCEPT ![c] = @ \ {j}]}
      /\ TouchMedia
  BY DEF SourceEnds, Bye
<1>3. sinks' \in [Clients -> SUBSET Subs] /\ byes' \in [Clients -> SUBSET Subs]
  BY <1>1, <1>2
<1>4. raced' \in BOOLEAN
  BY <1>1, <1>2 DEF TouchMedia
<1>5. \A d \in Clients : sinks'[d] \subseteq sinks[d] /\ byes'[d] \subseteq byes[d]
  BY <1>1, <1>2
<1> QED BY <1>3, <1>4, <1>5

LEMMA SourceEndsInv ==
    ASSUME RInv, NEW c \in Clients, NEW j \in Subs, SourceEnds(c, j) \/ Bye(c, j)
    PROVE  RInv'
<1> USE DEF SourceEnds, Bye, loopVars
<1>1. ClientInv' /\ MapInv' /\ QueueInv'
  BY SessionStep
<1>2. \A d \in Clients : sinks'[d] \subseteq sinks[d] /\ byes'[d] \subseteq byes[d]
  BY SourceTypes DEF RInv
<1>3. TypeOK'
  <2>1. /\ sinks' \in [Clients -> SUBSET Subs] /\ byes' \in [Clients -> SUBSET Subs]
        /\ raced' \in BOOLEAN
    BY SourceTypes DEF RInv
  <2> QED BY <2>1 DEF RInv, TypeOK, apiVars
<1>4. RequestInv'
  <2>1. \A r \in requests : clientOf[r.conn] \in Clients
    BY DEF RInv, TypeOK, Requests, RequestInv
  <2> QED BY <1>2, <2>1 DEF RInv, RequestInv
<1>5. UpcallInv'
  BY <1>2 DEF RInv, UpcallInv, apiVars
<1> QED BY <1>1, <1>3, <1>4, <1>5 DEF RInv

-----------------------------------------------------------------------------
LEMMA NextInv == ASSUME RInv, MaxOpens = 1, [Next]_vars PROVE RInv'
<1>1. CASE UNCHANGED vars
  BY <1>1 DEF vars, memberVars, apiVars, sessionVars, loopVars, threadVars,
              RInv, TypeOK, ClientInv, MapInv, RequestInv, UpcallInv, QueueInv
<1>2. CASE CallerStep
  BY <1>2, NewInv, BeginOpenInv, FinishOpenInv, CloseInv DEF CallerStep
<1>3. CASE LoopStep
  BY <1>3, RunOpenInv, RunCloseInv, AlarmInv, AnswerDescribeInv,
     AnswerDescribeBadInv, AnswerSetupInv, AnswerPlayInv, AnswerErrorInv,
     SourceEndsInv DEF LoopStep
<1> QED BY <1>1, <1>2, <1>3 DEF Next

\* The invariant that the safety properties follow from.
THEOREM Invariance == ASSUME MaxOpens = 1 PROVE Spec => []RInv
<1>1. Init => RInv
  BY InitInv
<1>2. RInv /\ [Next]_vars => RInv'
  BY NextInv
<1> QED BY <1>1, <1>2, PTL DEF Spec

\* The variables of the clients, of the loop and of live555 keep their types.
THEOREM RtspTypeCorrect == ASSUME MaxOpens = 1 PROVE Spec => []TypeOK
<1>1. RInv => TypeOK
  BY DEF RInv
<1> QED BY <1>1, Invariance, PTL

\* An answer finds, through _clients, the rtsp_client that asked, alive.
THEOREM HandlerFindsClientAlways == ASSUME MaxOpens = 1 PROVE Spec => []HandlerFindsClient
<1>1. RInv => HandlerFindsClient
  BY NullAssumption DEF RInv, HandlerFindsClient, RequestInv, MapInv, ClientInv, TypeOK
<1> QED BY <1>1, Invariance, PTL

\* An answer is applied to what was asked.
THEOREM AnswerFitsStateAlways == ASSUME MaxOpens = 1 PROVE Spec => []AnswerFitsState
<1>1. RInv => AnswerFitsState
  BY DEF RInv, AnswerFitsState, RequestInv
<1> QED BY <1>1, Invariance, PTL

\* Alarms, sinks and BYE handlers call back an rtsp_client that is alive.
THEOREM UpcallsFindClientAlways == ASSUME MaxOpens = 1 PROVE Spec => []UpcallsFindClient
<1>1. RInv => UpcallsFindClient
  BY DEF RInv, UpcallsFindClient, UpcallInv
<1> QED BY <1>1, Invariance, PTL

\* No connection is leaked.
THEOREM NoConnectionLeaksAlways == ASSUME MaxOpens = 1 PROVE Spec => []NoConnectionLeaks
<1>1. RInv => NoConnectionLeaks
  BY DEF RInv, NoConnectionLeaks, ClientInv
<1> QED BY <1>1, Invariance, PTL

\* close() never unschedules a task that has already run.
THEOREM UnscheduledInTimeAlways == ASSUME MaxOpens = 1 PROVE Spec => UnscheduledInTime
<1>1. RInv => \A c \in Clients : c \in token => c \in alarms
  BY DEF RInv, UpcallInv
<1>2. RInv => [\A c \in Clients : c \in live /\ c \notin live' /\ c \in token => c \in alarms]_vars
  BY <1>1
<1> QED BY <1>2, Invariance, PTL DEF UnscheduledInTime

-----------------------------------------------------------------------------
(* RTSPClient.  The invariant says how its queue of requests without an    *)
(* answer fits what is at the server and on its way from there.            *)

\* What is left of a sequence without the first n, where c stands in a queue.
Drop(s, n) == SubSeq(s, n + 1, Len(s))
Once(q) == \A i, j \in DOMAIN q : q[i] = q[j] => i = j
Pos(q, c) == CHOOSE i \in DOMAIN q : q[i] = c

\* The parts that begin an answer, and where they are among the parts P.
IsAnswerPart(p) == p.kind \in {"whole", "head"}
Answers(P) == {i \in DOMAIN P : IsAnswerPart(P[i])}

\* What P, the parts that were sent and not taken, may look like for a server
\* with the quirk k that has still to answer S: a header that comes by itself is
\* followed by its body, and nothing follows what closes the connection (h).
Shape(P, S, h, k) ==
    /\ \A i \in DOMAIN P :
          /\ P[i].kind = "head" =>
                i + 1 \in DOMAIN P /\ P[i + 1].kind = "tail" /\ P[i + 1].call = P[i].call
          /\ P[i].kind = "tail" =>
                i = 1 \/ (P[i - 1].kind = "head" /\ P[i - 1].call = P[i].call)
          /\ P[i].kind = "alien" => k = "alien" /\ \A j \in DOMAIN P : P[j].kind = "alien" => j = i
          /\ P[i].code = "bad" => k = "bad"
    /\ \A i \in Answers(P) :
          /\ P[i].code = "bad" => i = 1
          /\ P[i].cseq = NoCSeq => k = "noCSeq"
          /\ P[i].close => P[i].kind = "whole" /\ h /\ i = Len(P)
    /\ h => S = <<>>

\* Answers on their way, and then those to come, are in the order of the queue q
\* and under the CSeqs cs of their requests.
Order(P, S, q, cs) ==
    /\ \A i \in Answers(P) :
          /\ P[i].call \in ToSet(q)
          /\ P[i].cseq \in {cs[P[i].call], NoCSeq}
          /\ \A j \in Answers(P) : i < j => Pos(q, P[i].call) < Pos(q, P[j].call)
          /\ \A j \in DOMAIN S : Pos(q, P[i].call) < Pos(q, S[j][1])
    /\ \A j \in DOMAIN S :
          /\ S[j][1] \in ToSet(q) /\ S[j][2] = cs[S[j][1]]
          /\ \A k \in DOMAIN S : j < k => Pos(q, S[j][1]) < Pos(q, S[k][1])

\* A request in q is answered, or the connection ends behind the answers to the
\* ones before it; unless it is one of the lost, L.
Kept(P, S, h, q, L) ==
    \A c \in ToSet(q) \ L :
        \/ \E i \in Answers(P) : P[i].call = c
        \/ \E j \in DOMAIN S : S[j][1] = c
        \/ h /\ \A i \in Answers(P) : Pos(q, P[i].call) < Pos(q, c)

\* Without a connection nothing is to be expected.
Cut(P, S, h, q, L) ==
    /\ S = <<>> /\ ~h
    /\ ToSet(q) \subseteq L
    /\ \A i \in DOMAIN P : P[i].kind = "alien"

Link(P, S, h, q, L, cs, sock, k) ==
    /\ Shape(P, S, h, k) /\ Order(P, S, q, cs) /\ Kept(P, S, h, q, L)
    /\ sock # "open" => Cut(P, S, h, q, L)

\* What was sent to the client and not taken.
Stream == buffer \o wire

LinkInv == Link(Stream, server, hungUp, awaitResp, lost, cseqOf, socket, quirk)

\* The requests have different CSeqs.
Numbered ==
    /\ \A c \in 1 .. issued : cseqOf[c] \in 1 .. lastCSeq
    /\ \A c, d \in 1 .. issued : cseqOf[c] = cseqOf[d] => c = d

\* The queues share no request, hold those without an answer alone, and all of
\* them but lost ones.
Partition(A, B, R, F, W, L) ==
    /\ A \cup B \cup R \cup F \subseteq W /\ W \ L \subseteq A \cup B \cup R \cup F
    /\ A \cap B = {} /\ A \cap R = {} /\ A \cap F = {}
    /\ B \cap R = {} /\ B \cap F = {} /\ R \cap F = {}

Placed ==
    /\ Once(awaitConn) /\ Once(awaitResp) /\ Once(resuming) /\ Once(failing)
    /\ Partition(ToSet(awaitConn), ToSet(awaitResp), ToSet(resuming), ToSet(failing),
                 Waiting, lost)

\* The same, without a word on what has to be in a queue.
Apart ==
    /\ Once(awaitConn) /\ Once(awaitResp) /\ Once(resuming) /\ Once(failing)
    /\ Partition(ToSet(awaitConn), ToSet(awaitResp), ToSet(resuming), ToSet(failing),
                 Waiting, Waiting)

\* The loops do not overlap; what is behind an answer can be used.
Phases ==
    /\ ConnectingWhileQueued
    /\ resuming # <<>> => socket = "open" /\ failing = <<>> /\ ~looping
    /\ failing # <<>> => ~looping
    /\ looping => buffer # <<>>
    /\ again => looping /\ ~(IsAnswerPart(buffer[1]) /\ buffer[1].code = "bad")
    /\ socket # "open" => wire = <<>>

\* What is on its way is for requests that were issued; a request of the
\* server's own is for none.
Named ==
    \A p \in ToSet(Stream) : p.call \in 0 .. issued /\ (p.kind = "alien" => p.call = 0)

\* Requests that wait together are exposed; a server without CSeq is asked one at
\* a time.
Alone ==
    /\ quirk = "noCSeq" => \A c, d \in Waiting : c = d
    /\ \A c \in Waiting \ exposed, d \in Waiting : d = c

\* Only exposed requests are lost; the rest of an answer is without its header
\* when the header was dropped, with the request told or lost.
Spared ==
    ~closed =>
        /\ lost \subseteq exposed
        /\ Stream # <<>> /\ Stream[1].kind = "tail" => Stream[1].call \in lost \cup Done

\* The inductive invariant.
IInv == ReqTypeOK /\ Numbered /\ Placed /\ Phases /\ LinkInv /\ Named /\ Alone /\ Spared

-----------------------------------------------------------------------------
(* Sequences.                                                              *)

LEMMA SeqIs ==
    ASSUME NEW S, NEW s \in Seq(S)
    PROVE  /\ Len(s) \in Nat /\ DOMAIN s = 1 .. Len(s)
           /\ ToSet(s) = {s[i] : i \in 1 .. Len(s)} /\ ToSet(s) \subseteq S
           /\ \A i \in 1 .. Len(s) : s[i] \in S
           /\ s = <<>> <=> Len(s) = 0
<1>1. Len(s) \in Nat /\ DOMAIN s = 1 .. Len(s)
  BY LenProperties
<1>2. \A i \in 1 .. Len(s) : s[i] \in S
  BY ElementOfSeq
<1>3. s = <<>> <=> Len(s) = 0
  BY EmptySeq
<1> QED BY <1>1, <1>2, <1>3 DEF ToSet

\* What is left without the first n.
LEMMA DropIs ==
    ASSUME NEW S, NEW s \in Seq(S), NEW n \in 0 .. Len(s)
    PROVE  /\ Drop(s, n) \in Seq(S) /\ Len(Drop(s, n)) = Len(s) - n
           /\ \A i \in 1 .. Len(s) - n : Drop(s, n)[i] = s[n + i]
<1> DEFINE l == Len(s)
<1>1. l \in Nat /\ n \in Nat /\ n <= l /\ \A i \in n + 1 .. l : s[i] \in S
  BY SeqIs
<1>2. /\ Drop(s, n) \in Seq(S)
      /\ Len(Drop(s, n)) = IF n + 1 <= l THEN l - (n + 1) + 1 ELSE 0
      /\ \A i \in 1 .. l - (n + 1) + 1 : Drop(s, n)[i] = s[(n + 1) + i - 1]
  BY <1>1, SubSeqProperties DEF Drop
<1> HIDE DEF l
<1>3. Len(Drop(s, n)) = l - n
  <2>1. Len(Drop(s, n)) = IF n + 1 <= l THEN l - (n + 1) + 1 ELSE 0
    BY <1>2
  <2>2. l \in Nat /\ n \in Nat /\ n <= l
    BY <1>1
  <2> QED BY <2>1, <2>2
<1>4. ASSUME NEW i \in 1 .. l - n PROVE Drop(s, n)[i] = s[n + i]
  <2>1. i \in 1 .. l - (n + 1) + 1 /\ (n + 1) + i - 1 = n + i
    BY <1>1
  <2> QED BY <1>2, <2>1
<1> QED BY <1>2, <1>3, <1>4 DEF l

LEMMA DropNone == ASSUME NEW S, NEW s \in Seq(S) PROVE Drop(s, 0) = s
  BY SubSeqFull DEF Drop

LEMMA DropAll == ASSUME NEW S, NEW s \in Seq(S) PROVE Drop(s, Len(s)) = <<>>
<1>1. Len(Drop(s, Len(s))) = 0 /\ Drop(s, Len(s)) \in Seq(S)
  BY SeqIs, DropIs
<1> QED BY <1>1, SeqIs

LEMMA ConcatIs ==
    ASSUME NEW S, NEW s \in Seq(S), NEW t \in Seq(S)
    PROVE  /\ s \o t \in Seq(S) /\ Len(s \o t) = Len(s) + Len(t)
           /\ \A i \in 1 .. Len(s) : (s \o t)[i] = s[i]
           /\ \A i \in 1 .. Len(t) : (s \o t)[Len(s) + i] = t[i]
           /\ ToSet(s \o t) = ToSet(s) \cup ToSet(t)
<1> DEFINE c == s \o t
           k == Len(s)
           l == Len(t)
<1>1. /\ c \in Seq(S) /\ Len(c) = k + l
      /\ \A i \in 1 .. k + l : c[i] = IF i <= k THEN s[i] ELSE t[i - k]
  BY ConcatProperties
<1>2. /\ k \in Nat /\ l \in Nat
      /\ ToSet(s) = {s[i] : i \in 1 .. k} /\ ToSet(t) = {t[i] : i \in 1 .. l}
      /\ ToSet(c) = {c[i] : i \in 1 .. k + l}
  BY <1>1, SeqIs
<1> HIDE DEF c, k, l
<1>3. ASSUME NEW i \in 1 .. k PROVE i \in 1 .. k + l /\ c[i] = s[i]
  BY <1>1, <1>2
<1>4. ASSUME NEW i \in 1 .. l PROVE k + i \in 1 .. k + l /\ c[k + i] = t[i]
  <2>1. k + i \in 1 .. k + l /\ ~(k + i <= k) /\ (k + i) - k = i
    BY <1>2
  <2> QED BY <1>1, <2>1
<1>5. ASSUME NEW i \in 1 .. k + l PROVE c[i] \in ToSet(s) \cup ToSet(t)
  <2>1. CASE i <= k
    <3>1. i \in 1 .. k
      BY <1>2, <2>1
    <3> QED BY <1>2, <1>3, <3>1
  <2>2. CASE ~(i <= k)
    <3>1. i - k \in 1 .. l /\ k + (i - k) = i
      BY <1>2, <2>2
    <3>2. c[i] = t[i - k]
      BY <1>4, <3>1
    <3> QED BY <1>2, <3>1, <3>2
  <2> QED BY <2>1, <2>2
<1>6. ToSet(c) = ToSet(s) \cup ToSet(t)
  BY <1>2, <1>3, <1>4, <1>5
<1> QED BY <1>1, <1>3, <1>4, <1>6 DEF c, k, l

\* Dropping from the first of two sequences, and all of it.
LEMMA DropOfConcat ==
    ASSUME NEW S, NEW s \in Seq(S), NEW t \in Seq(S)
    PROVE  /\ \A n \in 0 .. Len(s) : Drop(s, n) \o t = Drop(s \o t, n)
           /\ \A n \in 0 .. Len(t) : Drop(t, n) = Drop(s \o t, Len(s) + n)
<1>1. /\ Len(s) \in Nat /\ Len(t) \in Nat
      /\ s \o t \in Seq(S) /\ Len(s \o t) = Len(s) + Len(t)
      /\ \A i \in 1 .. Len(s) : (s \o t)[i] = s[i]
      /\ \A i \in 1 .. Len(t) : (s \o t)[Len(s) + i] = t[i]
  BY SeqIs, ConcatIs
<1>2. ASSUME NEW n \in 0 .. Len(s) PROVE Drop(s, n) \o t = Drop(s \o t, n)
  <2> DEFINE a == Drop(s, n)
             c == Drop(s \o t, n)
             st == s \o t
  <2>1. /\ a \in Seq(S) /\ Len(a) = Len(s) - n
        /\ \A i \in 1 .. Len(s) - n : a[i] = s[n + i]
    BY DropIs
  <2>2. n \in 0 .. Len(st)
    BY <1>1
  <2>3. /\ c \in Seq(S) /\ Len(c) = Len(st) - n
        /\ \A i \in 1 .. Len(st) - n : c[i] = st[n + i]
    BY <1>1, <2>2, DropIs
  <2> DEFINE d == a \o t
  <2>5. /\ st \in Seq(S) /\ Len(st) = Len(s) + Len(t)
        /\ \A i \in 1 .. Len(s) : st[i] = s[i]
        /\ \A i \in 1 .. Len(t) : st[Len(s) + i] = t[i]
    BY <1>1
  <2> HIDE DEF a, c, st
  <2>4. /\ d \in Seq(S) /\ Len(d) = Len(a) + Len(t)
        /\ \A i \in 1 .. Len(a) : d[i] = a[i]
        /\ \A i \in 1 .. Len(t) : d[Len(a) + i] = t[i]
    <3>1. a \in Seq(S)
      BY <2>1
    <3> QED BY <3>1, ConcatIs
  <2> HIDE DEF d
  <2>6. Len(d) = Len(c)
    BY <1>1, <2>1, <2>3, <2>4, <2>5
  <2>7. ASSUME NEW i \in 1 .. Len(d) PROVE d[i] = c[i]
    <3>1. c[i] = st[n + i]
      BY <2>3, <2>6
    <3>2. CASE i <= Len(s) - n
      <4>1. i \in 1 .. Len(s) - n /\ n + i \in 1 .. Len(s)
        BY <1>1, <3>2
      <4> QED BY <2>1, <2>4, <2>5, <3>1, <4>1
    <3>3. CASE ~(i <= Len(s) - n)
      <4> DEFINE j == i - (Len(s) - n)
      <4>1. j \in 1 .. Len(t) /\ Len(a) + j = i /\ Len(s) + j = n + i
        BY <1>1, <2>1, <2>4, <3>3
      <4> QED BY <2>4, <2>5, <3>1, <4>1
    <3> QED BY <3>2, <3>3
  <2>8. d = c
    BY <2>3, <2>4, <2>6, <2>7, SeqEqual
  <2> QED BY <2>8 DEF a, c, d, st
<1>3. ASSUME NEW n \in 0 .. Len(t) PROVE Drop(t, n) = Drop(s \o t, Len(s) + n)
  <2> DEFINE a == Drop(t, n)
             c == Drop(s \o t, Len(s) + n)
  <2>1. /\ a \in Seq(S) /\ Len(a) = Len(t) - n
        /\ \A i \in 1 .. Len(t) - n : a[i] = t[n + i]
    BY DropIs
  <2>2. Len(s) + n \in 0 .. Len(s \o t) /\ Len(s \o t) - (Len(s) + n) = Len(t) - n
    <3>1. Len(s) \in Nat /\ Len(t) \in Nat /\ Len(s \o t) = Len(s) + Len(t)
      BY <1>1
    <3> QED BY <3>1
  <2>3. /\ c \in Seq(S) /\ Len(c) = Len(t) - n
        /\ \A i \in 1 .. Len(t) - n : c[i] = (s \o t)[(Len(s) + n) + i]
    <3>1. s \o t \in Seq(S)
      BY <1>1
    <3> QED BY <3>1, <2>2, DropIs
  <2> HIDE DEF a, c
  <2>4. ASSUME NEW i \in 1 .. Len(a) PROVE a[i] = c[i]
    <3>1. n + i \in 1 .. Len(t) /\ (Len(s) + n) + i = Len(s) + (n + i)
      BY <1>1, <2>1
    <3> QED BY <1>1, <2>1, <2>3, <3>1
  <2>5. a = c
    BY <2>1, <2>3, <2>4, SeqEqual
  <2> QED BY <2>5 DEF a, c
<1> QED BY <1>2, <1>3

\* What is read goes on in the buffer as it was on the wire.
LEMMA ReadOn ==
    ASSUME NEW S, NEW s \in Seq(S), NEW t \in Seq(S), NEW k \in 0 .. Len(t)
    PROVE  (s \o SubSeq(t, 1, k)) \o SubSeq(t, k + 1, Len(t)) = s \o t
<1>1. /\ Len(t) \in Nat /\ \A i \in 1 .. k : t[i] \in S
      /\ \A i \in k + 1 .. Len(t) : t[i] \in S
  BY SeqIs
<1>2. SubSeq(t, 1, k) \in Seq(S) /\ SubSeq(t, k + 1, Len(t)) \in Seq(S)
  BY <1>1, SubSeqProperties
<1>3. SubSeq(t, 1, k) \o SubSeq(t, k + 1, Len(t)) = SubSeq(t, 1, Len(t))
  <2>1. 1 \in 1 .. Len(t) + 1 /\ k \in 1 - 1 .. Len(t) /\ Len(t) \in k .. Len(t)
    BY <1>1
  <2> QED BY <2>1, ConcatAdjacentSubSeq
<1>4. SubSeq(t, 1, Len(t)) = t
  BY SubSeqFull
<1> DEFINE a == SubSeq(t, 1, k)
           b == SubSeq(t, k + 1, Len(t))
<1>5. a \in Seq(S) /\ b \in Seq(S) /\ a \o b = t
  BY <1>2, <1>3, <1>4
<1> HIDE DEF a, b
<1>6. (s \o a) \o b = s \o (a \o b)
  <2>1. a \in Seq(S) /\ b \in Seq(S)
    BY <1>5
  <2> QED BY <2>1, ConcatAssociative
<1> QED BY <1>5, <1>6 DEF a, b

-----------------------------------------------------------------------------
(* Queues without repetition.                                               *)

LEMMA PosIs ==
    ASSUME NEW q \in Seq(Calls), Once(q)
    PROVE  /\ \A c \in ToSet(q) : Pos(q, c) \in 1 .. Len(q) /\ q[Pos(q, c)] = c
           /\ \A i \in 1 .. Len(q) : q[i] \in ToSet(q) /\ Pos(q, q[i]) = i
<1>1. DOMAIN q = 1 .. Len(q) /\ ToSet(q) = {q[i] : i \in 1 .. Len(q)}
  BY SeqIs
<1>2. ASSUME NEW c \in ToSet(q) PROVE Pos(q, c) \in 1 .. Len(q) /\ q[Pos(q, c)] = c
  <2>1. \E i \in DOMAIN q : q[i] = c
    BY <1>1
  <2>2. Pos(q, c) \in DOMAIN q /\ q[Pos(q, c)] = c
    BY <2>1 DEF Pos
  <2> QED BY <1>1, <2>2
<1>3. ASSUME NEW i \in 1 .. Len(q) PROVE q[i] \in ToSet(q) /\ Pos(q, q[i]) = i
  <2>1. q[i] \in ToSet(q)
    BY <1>1
  <2>2. Pos(q, q[i]) \in DOMAIN q /\ q[Pos(q, q[i])] = q[i]
    BY <1>1, <1>2, <2>1
  <2> QED BY <1>1, <2>1, <2>2 DEF Once
<1> QED BY <1>2, <1>3

LEMMA PosDrop ==
    ASSUME NEW q \in Seq(Calls), Once(q), NEW d \in 0 .. Len(q)
    PROVE  /\ Drop(q, d) \in Seq(Calls) /\ Once(Drop(q, d))
           /\ \A c : c \in ToSet(Drop(q, d)) <=> c \in ToSet(q) /\ Pos(q, c) > d
           /\ \A c \in ToSet(Drop(q, d)) : Pos(Drop(q, d), c) = Pos(q, c) - d
<1> DEFINE e == Drop(q, d)
           l == Len(q)
<1>1. /\ e \in Seq(Calls) /\ Len(e) = l - d /\ l \in Nat /\ d \in 0 .. l
      /\ \A i \in 1 .. l - d : e[i] = q[d + i]
  BY DropIs, SeqIs
<1>2. DOMAIN e = 1 .. l - d /\ ToSet(e) = {e[i] : i \in 1 .. l - d}
  BY <1>1, SeqIs
<1>3. /\ DOMAIN q = 1 .. l
      /\ \A c \in ToSet(q) : Pos(q, c) \in 1 .. l /\ q[Pos(q, c)] = c
      /\ \A i \in 1 .. l : q[i] \in ToSet(q) /\ Pos(q, q[i]) = i
  BY PosIs, SeqIs
<1> HIDE DEF e, l
<1>4. ASSUME NEW i \in 1 .. l - d
      PROVE  /\ d + i \in 1 .. l /\ e[i] = q[d + i]
             /\ e[i] \in ToSet(q) /\ Pos(q, e[i]) = d + i
  BY <1>1, <1>3
<1>5. Once(e)
  <2> SUFFICES ASSUME NEW i \in 1 .. l - d, NEW j \in 1 .. l - d, e[i] = e[j]
               PROVE  i = j
    BY <1>2 DEF Once
  <2>1. d + i = d + j
    BY <1>4
  <2> QED BY <1>1, <2>1
<1>6. ASSUME NEW c \in ToSet(e)
      PROVE  c \in ToSet(q) /\ Pos(q, c) > d /\ Pos(e, c) = Pos(q, c) - d
  <2>1. PICK i \in 1 .. l - d : e[i] = c
    BY <1>2
  <2>2. c \in ToSet(q) /\ Pos(q, c) = d + i
    BY <1>4, <2>1
  <2>3. Pos(e, c) = i
    <3>1. i \in 1 .. Len(e)
      BY <1>1
    <3> QED BY <1>1, <1>5, <2>1, <3>1, PosIs
  <2> QED BY <1>1, <2>2, <2>3
<1>7. ASSUME NEW c \in ToSet(q), Pos(q, c) > d PROVE c \in ToSet(e)
  <2>1. Pos(q, c) - d \in 1 .. l - d /\ d + (Pos(q, c) - d) = Pos(q, c)
    BY <1>1, <1>3, <1>7
  <2>2. e[Pos(q, c) - d] = c
    BY <1>3, <1>4, <2>1
  <2> QED BY <1>2, <2>1, <2>2
<1> QED BY <1>1, <1>5, <1>6, <1>7 DEF e

LEMMA PosAppend ==
    ASSUME NEW q \in Seq(Calls), Once(q), NEW c \in Calls, c \notin ToSet(q)
    PROVE  /\ Append(q, c) \in Seq(Calls) /\ Once(Append(q, c))
           /\ ToSet(Append(q, c)) = ToSet(q) \cup {c}
           /\ Pos(Append(q, c), c) = Len(q) + 1
           /\ \A d \in ToSet(q) : /\ Pos(Append(q, c), d) = Pos(q, d)
                                  /\ Pos(q, d) \in 1 .. Len(q)
<1> DEFINE e == Append(q, c)
           l == Len(q)
<1>1. /\ e \in Seq(Calls) /\ Len(e) = l + 1 /\ e[l + 1] = c /\ l \in Nat
      /\ \A i \in 1 .. l : e[i] = q[i]
  BY AppendProperties, SeqIs
<1>3. /\ \A d \in ToSet(q) : Pos(q, d) \in 1 .. l /\ q[Pos(q, d)] = d
      /\ \A i \in 1 .. l : q[i] \in ToSet(q) /\ Pos(q, q[i]) = i
  BY PosIs
<1> HIDE DEF e, l
<1>2. DOMAIN e = 1 .. l + 1 /\ ToSet(e) = {e[i] : i \in 1 .. l + 1}
  <2>1. e \in Seq(Calls)
    BY <1>1
  <2>2. DOMAIN e = 1 .. Len(e) /\ ToSet(e) = {e[i] : i \in 1 .. Len(e)}
    BY <2>1, SeqIs
  <2> QED BY <1>1, <2>2
<1>4. ASSUME NEW i \in 1 .. l + 1
      PROVE  (i = l + 1 /\ e[i] = c) \/ (i \in 1 .. l /\ e[i] = q[i])
  BY <1>1
<1>5. Once(e)
  BY <1>2, <1>3, <1>4 DEF Once
<1>6. \A i \in 1 .. l + 1 : Pos(e, e[i]) = i
  BY <1>1, <1>5, PosIs
<1>7. ToSet(e) = ToSet(q) \cup {c}
  <2>1. \A i \in 1 .. l + 1 : e[i] \in ToSet(q) \cup {c}
    BY <1>3, <1>4
  <2>2. l + 1 \in 1 .. l + 1 /\ \A i \in 1 .. l : i \in 1 .. l + 1
    BY <1>1
  <2>3. ASSUME NEW d \in ToSet(q) PROVE d \in ToSet(e)
    BY <1>1, <1>2, <1>3, <2>2
  <2> QED BY <1>1, <1>2, <2>1, <2>2, <2>3
<1>8. Pos(e, c) = l + 1
  <2>1. l + 1 \in 1 .. l + 1
    BY <1>1
  <2> QED BY <1>1, <1>6, <2>1
<1>9. ASSUME NEW d \in ToSet(q) PROVE Pos(e, d) = Pos(q, d) /\ Pos(q, d) \in 1 .. l
  <2>1. Pos(q, d) \in 1 .. l /\ Pos(q, d) \in 1 .. l + 1
    BY <1>1, <1>3
  <2> QED BY <1>1, <1>3, <1>6, <2>1
<1> QED BY <1>1, <1>5, <1>7, <1>8, <1>9 DEF e, l

-----------------------------------------------------------------------------
(* What is on its way, and the requests that wait for it.                   *)

\* Parts are dropped from the front, and requests from the head of the queue:
\* the answers dropped are those of requests dropped or lost, the others stay.
LEMMA LinkDrop ==
    ASSUME NEW P \in Seq(Parts), NEW S \in Seq(Calls \X CSeqs), NEW h, NEW q \in Seq(Calls),
           NEW L, NEW M, NEW cs, NEW sock, NEW k,
           NEW n \in 0 .. Len(P), NEW d \in 0 .. Len(q),
           Once(q), L \subseteq M, Link(P, S, h, q, L, cs, sock, k),
           \A i \in Answers(P) :
               /\ i <= n => P[i].call \in M \/ Pos(q, P[i].call) <= d
               /\ i > n => Pos(q, P[i].call) > d,
           \A j \in DOMAIN S : Pos(q, S[j][1]) > d
    PROVE  Link(Drop(P, n), S, h, Drop(q, d), M, cs, sock, k)
<1> DEFINE D == Drop(P, n)
           e == Drop(q, d)
           l == Len(P)
<1>1. /\ DOMAIN P = 1 .. l /\ l \in Nat /\ n \in 0 .. l
      /\ D \in Seq(Parts) /\ Len(D) = l - n
      /\ \A i \in 1 .. l - n : D[i] = P[n + i]
  <2>1. DOMAIN P = 1 .. l /\ l \in Nat
    BY SeqIs
  <2>2. /\ D \in Seq(Parts) /\ Len(D) = l - n
        /\ \A i \in 1 .. l - n : D[i] = P[n + i]
    BY DropIs
  <2> QED BY <2>1, <2>2
<1>2. DOMAIN D = 1 .. l - n
  BY <1>1, SeqIs
<1>3. /\ \A c : c \in ToSet(e) <=> c \in ToSet(q) /\ Pos(q, c) > d
      /\ \A c \in ToSet(e) : Pos(e, c) = Pos(q, c) - d
      /\ \A c \in ToSet(q) : Pos(q, c) \in Nat
      /\ d \in Nat
  <2>1. \A c \in ToSet(q) : Pos(q, c) \in 1 .. Len(q)
    BY PosIs
  <2>2. Len(q) \in Nat
    BY SeqIs
  <2> QED BY <2>1, <2>2, PosDrop
<1> HIDE DEF D, e, l
<1>4. /\ Shape(P, S, h, k) /\ Order(P, S, q, cs) /\ Kept(P, S, h, q, L)
      /\ sock # "open" => Cut(P, S, h, q, L)
  BY DEF Link
<1>5. ASSUME NEW i \in DOMAIN D PROVE n + i \in DOMAIN P /\ n + i > n /\ D[i] = P[n + i]
  BY <1>1, <1>2
<1>6. ASSUME NEW i \in Answers(D)
      PROVE  n + i \in Answers(P) /\ n + i > n /\ D[i] = P[n + i] /\ i \in Nat
  BY <1>1, <1>2, <1>5 DEF Answers
<1>7. ASSUME NEW i \in Answers(P), i > n PROVE i - n \in Answers(D) /\ D[i - n] = P[i]
  <2>1. i \in DOMAIN P /\ IsAnswerPart(P[i])
    BY DEF Answers
  <2>2. i - n \in 1 .. l - n /\ n + (i - n) = i
    BY <1>1, <1>7, <2>1
  <2>3. D[i - n] = P[i]
    BY <1>1, <2>2
  <2> QED BY <1>2, <2>1, <2>2, <2>3 DEF Answers
<1>8. Shape(D, S, h, k)
  <2>1. ASSUME NEW i \in DOMAIN D
        PROVE  /\ D[i].kind = "head" =>
                    i + 1 \in DOMAIN D /\ D[i + 1].kind = "tail" /\ D[i + 1].call = D[i].call
               /\ D[i].kind = "tail" =>
                    i = 1 \/ (D[i - 1].kind = "head" /\ D[i - 1].call = D[i].call)
    <3>1. /\ P[n + i].kind = "head" =>
              (n + i) + 1 \in DOMAIN P /\ P[(n + i) + 1].kind = "tail"
                /\ P[(n + i) + 1].call = P[n + i].call
          /\ P[n + i].kind = "tail" =>
              n + i = 1 \/ (P[(n + i) - 1].kind = "head" /\ P[(n + i) - 1].call = P[n + i].call)
      BY <1>4, <1>5 DEF Shape
    <3>2. CASE D[i].kind = "head"
      <4>1. (n + i) + 1 \in 1 .. l
        BY <1>1, <1>5, <3>1, <3>2
      <4>2. i + 1 \in 1 .. l - n /\ n + (i + 1) = (n + i) + 1
        BY <1>1, <1>2, <4>1
      <4> QED BY <1>1, <1>2, <1>5, <3>1, <3>2, <4>2
    <3>3. CASE D[i].kind = "tail" /\ i # 1
      <4>1. i - 1 \in DOMAIN D /\ n + (i - 1) = (n + i) - 1 /\ n + i # 1
        BY <1>1, <1>2, <3>3
      <4>2. D[i - 1] = P[(n + i) - 1]
        BY <1>5, <4>1
      <4>3. P[n + i].kind = "tail"
        BY <1>5, <3>3
      <4>4. P[(n + i) - 1].kind = "head" /\ P[(n + i) - 1].call = P[n + i].call
        BY <3>1, <4>1, <4>3
      <4> QED BY <1>5, <3>3, <4>2, <4>4
    <3> QED BY <3>2, <3>3
  <2>2. ASSUME NEW i \in DOMAIN D
        PROVE  /\ D[i].kind = "alien" =>
                    k = "alien" /\ \A j \in DOMAIN D : D[j].kind = "alien" => j = i
               /\ D[i].code = "bad" => k = "bad"
    <3>1. /\ P[n + i].kind = "alien" =>
              k = "alien" /\ \A j \in DOMAIN P : P[j].kind = "alien" => j = n + i
          /\ P[n + i].code = "bad" => k = "bad"
      BY <1>4, <1>5 DEF Shape
    <3>2. ASSUME NEW j \in DOMAIN D, n + j = n + i PROVE j = i
      BY <1>1, <1>2, <3>2
    <3> QED BY <1>5, <3>1, <3>2
  <2>3. ASSUME NEW i \in Answers(D)
        PROVE  /\ D[i].code = "bad" => i = 1
               /\ D[i].cseq = NoCSeq => k = "noCSeq"
               /\ D[i].close => D[i].kind = "whole" /\ h /\ i = Len(D)
    <3>1. /\ P[n + i].code = "bad" => n + i = 1
          /\ P[n + i].cseq = NoCSeq => k = "noCSeq"
          /\ P[n + i].close => P[n + i].kind = "whole" /\ h /\ n + i = l
      BY <1>4, <1>6 DEF Shape, l
    <3>2. n + i = l => i = Len(D)
      BY <1>1, <1>6
    <3>3. n + i = 1 => i = 1
      <4>1. i \in 1 .. l - n
        BY <1>2, <1>6 DEF Answers
      <4> QED BY <1>1, <4>1
    <3> QED BY <1>6, <3>1, <3>2, <3>3
  <2> QED BY <1>4, <2>1, <2>2, <2>3 DEF Shape
<1>9. Order(D, S, e, cs)
  <2>1. ASSUME NEW i \in Answers(D)
        PROVE  /\ D[i].call \in ToSet(e)
               /\ D[i].cseq \in {cs[D[i].call], NoCSeq}
               /\ Pos(e, D[i].call) = Pos(q, P[n + i].call) - d
    BY <1>3, <1>4, <1>6 DEF Order
  <2>2. ASSUME NEW j \in DOMAIN S
        PROVE  /\ S[j][1] \in ToSet(e) /\ S[j][2] = cs[S[j][1]]
               /\ Pos(e, S[j][1]) = Pos(q, S[j][1]) - d
    BY <1>3, <1>4 DEF Order
  <2>3. ASSUME NEW i \in Answers(D), NEW j \in Answers(D), i < j
        PROVE  Pos(e, D[i].call) < Pos(e, D[j].call)
    <3>1. n + i < n + j
      BY <1>1, <1>6, <2>3
    <3>2. /\ Pos(q, P[n + i].call) < Pos(q, P[n + j].call)
          /\ P[n + i].call \in ToSet(q) /\ P[n + j].call \in ToSet(q)
      BY <1>4, <1>6, <3>1 DEF Order
    <3> QED BY <1>3, <2>1, <3>2
  <2>4. ASSUME NEW i \in Answers(D), NEW j \in DOMAIN S
        PROVE  Pos(e, D[i].call) < Pos(e, S[j][1])
    <3>1. /\ Pos(q, P[n + i].call) < Pos(q, S[j][1])
          /\ P[n + i].call \in ToSet(q) /\ S[j][1] \in ToSet(q)
      BY <1>4, <1>6 DEF Order
    <3> QED BY <1>3, <2>1, <2>2, <3>1
  <2>5. ASSUME NEW i \in DOMAIN S, NEW j \in DOMAIN S, i < j
        PROVE  Pos(e, S[i][1]) < Pos(e, S[j][1])
    <3>1. /\ Pos(q, S[i][1]) < Pos(q, S[j][1])
          /\ S[i][1] \in ToSet(q) /\ S[j][1] \in ToSet(q)
      BY <1>4, <2>5 DEF Order
    <3> QED BY <1>3, <2>2, <3>1
  <2> QED BY <2>1, <2>2, <2>3, <2>4, <2>5 DEF Order
<1>10. Kept(D, S, h, e, M)
  <2> SUFFICES ASSUME NEW c \in ToSet(e) \ M
               PROVE  \/ \E i \in Answers(D) : D[i].call = c
                      \/ \E j \in DOMAIN S : S[j][1] = c
                      \/ h /\ \A i \in Answers(D) : Pos(e, D[i].call) < Pos(e, c)
    BY DEF Kept
  <2>1. c \in ToSet(q) \ L /\ Pos(q, c) > d /\ Pos(e, c) = Pos(q, c) - d /\ ~(Pos(q, c) <= d)
    BY <1>3
  <2>2. CASE \E i \in Answers(P) : P[i].call = c
    <3>1. PICK i \in Answers(P) : P[i].call = c
      BY <2>2
    <3>2. ~(i <= n)
      BY <2>1, <3>1
    <3>3. i > n
      BY <1>1, <3>2 DEF Answers
    <3> QED BY <1>7, <3>1, <3>3
  <2>3. CASE h /\ \A i \in Answers(P) : Pos(q, P[i].call) < Pos(q, c)
    <3>1. ASSUME NEW i \in Answers(D) PROVE Pos(e, D[i].call) < Pos(e, c)
      <4>1. /\ P[n + i].call \in ToSet(q) /\ Pos(q, P[n + i].call) < Pos(q, c)
            /\ Pos(q, P[n + i].call) > d /\ D[i] = P[n + i]
        BY <1>4, <1>6, <2>3 DEF Order
      <4> QED BY <1>3, <2>1, <4>1
    <3> QED BY <2>3, <3>1
  <2> QED BY <1>4, <2>1, <2>2, <2>3 DEF Kept
<1>11. ASSUME sock # "open" PROVE Cut(D, S, h, e, M)
  <2>1. Cut(P, S, h, q, L)
    BY <1>4, <1>11
  <2> QED BY <1>3, <1>5, <2>1 DEF Cut
<1> QED BY <1>8, <1>9, <1>10, <1>11 DEF Link, D, e

\* The connection is cut, and those who waited are given up.
LEMMA LinkCut ==
    ASSUME NEW P, NEW S, NEW h, NEW q, NEW L, NEW cs, NEW sock, NEW k,
           Shape(P, S, h, k), \A i \in DOMAIN P : P[i].kind = "alien", ToSet(q) \subseteq L
    PROVE  Link(P, <<>>, FALSE, q, L, cs, sock, k)
<1>1. Answers(P) = {} /\ DOMAIN <<>> = {}
  BY DEF Answers, IsAnswerPart
<1>2. Shape(P, <<>>, FALSE, k)
  BY <1>1 DEF Shape
<1>3. Order(P, <<>>, q, cs)
  BY <1>1 DEF Order
<1> QED BY <1>1, <1>2, <1>3 DEF Link, Kept, Cut

LEMMA LinkNothing ==
    ASSUME NEW q, NEW L, NEW cs, NEW sock, NEW k, ToSet(q) \subseteq L
    PROVE  Link(<<>>, <<>>, FALSE, q, L, cs, sock, k)
<1>1. DOMAIN <<>> = {} /\ Answers(<<>>) = {}
  BY DEF Answers
<1>2. Shape(<<>>, <<>>, FALSE, k)
  BY <1>1 DEF Shape
<1> QED BY <1>1, <1>2, LinkCut

\* Those who wait keep their numbers.
LEMMA LinkCs ==
    ASSUME NEW P, NEW S, NEW h, NEW q, NEW L, NEW cs, NEW ds, NEW sock, NEW k,
           Link(P, S, h, q, L, cs, sock, k), \A c \in ToSet(q) : ds[c] = cs[c]
    PROVE  Link(P, S, h, q, L, ds, sock, k)
<1>1. Order(P, S, q, cs)
  BY DEF Link
<1>2. ASSUME NEW i \in Answers(P)
      PROVE  P[i].call \in ToSet(q) /\ ds[P[i].call] = cs[P[i].call]
  BY <1>1 DEF Order
<1>3. ASSUME NEW j \in DOMAIN S
      PROVE  S[j][1] \in ToSet(q) /\ ds[S[j][1]] = cs[S[j][1]]
  BY <1>1 DEF Order
<1>4. Order(P, S, q, ds)
  BY <1>1, <1>2, <1>3 DEF Order
<1> QED BY <1>4 DEF Link

\* A request is sent, which nothing on its way is for.
LEMMA LinkSend ==
    ASSUME NEW P, NEW S \in Seq(Calls \X CSeqs), NEW h \in BOOLEAN, NEW q \in Seq(Calls), NEW L,
           NEW cs, NEW sock, NEW k, NEW c \in Calls, NEW T,
           Once(q), c \notin ToSet(q), cs[c] \in CSeqs,
           Link(P, S, h, q, L, cs, sock, k), sock = "open",
           T = IF h THEN S ELSE Append(S, <<c, cs[c]>>)
    PROVE  Link(P, T, h, Append(q, c), L, cs, sock, k)
<1> DEFINE e == Append(q, c)
           l == Len(q)
           m == Len(S)
<1>1. Shape(P, S, h, k) /\ Order(P, S, q, cs) /\ Kept(P, S, h, q, L)
  BY DEF Link
<1>2. /\ ToSet(e) = ToSet(q) \cup {c} /\ Pos(e, c) = l + 1 /\ l \in Nat
      /\ \A d \in ToSet(q) : Pos(e, d) = Pos(q, d) /\ Pos(q, d) \in 1 .. l
  <2>1. l \in Nat
    BY SeqIs
  <2> QED BY <2>1, PosAppend
<1>3. /\ m \in Nat /\ DOMAIN S = 1 .. m
      /\ h => T = S
      /\ ~h => /\ DOMAIN T = 1 .. m + 1 /\ T[m + 1] = <<c, cs[c]>>
               /\ \A j \in 1 .. m : T[j] = S[j]
  <2>1. m \in Nat /\ DOMAIN S = 1 .. m
    BY SeqIs
  <2>2. <<c, cs[c]>> \in Calls \X CSeqs
    OBVIOUS
  <2>3. ASSUME ~h
        PROVE  /\ T \in Seq(Calls \X CSeqs) /\ Len(T) = m + 1 /\ T[m + 1] = <<c, cs[c]>>
               /\ \A j \in 1 .. m : T[j] = S[j]
    BY <2>2, <2>3, AppendProperties
  <2>4. ASSUME ~h PROVE DOMAIN T = 1 .. m + 1
    <3>1. T \in Seq(Calls \X CSeqs)
      BY <2>3, <2>4
    <3>2. DOMAIN T = 1 .. Len(T)
      BY <3>1, SeqIs
    <3> QED BY <2>3, <2>4, <3>2
  <2> QED BY <2>1, <2>3, <2>4
<1> HIDE DEF e, l, m
<1>4. Shape(P, T, h, k)
  BY <1>1, <1>3 DEF Shape
<1>5. ASSUME NEW j \in DOMAIN T
      PROVE  \/ j \in DOMAIN S /\ T[j] = S[j]
             \/ ~h /\ j = m + 1 /\ T[j][1] = c /\ T[j][2] = cs[c]
  BY <1>3
<1>6. ASSUME NEW i \in Answers(P)
      PROVE  /\ P[i].call \in ToSet(q) /\ P[i].call \in ToSet(e)
             /\ Pos(e, P[i].call) = Pos(q, P[i].call) /\ Pos(e, P[i].call) < l + 1
  <2>1. P[i].call \in ToSet(q)
    BY <1>1 DEF Order
  <2> QED BY <1>2, <2>1
<1>7. ASSUME NEW j \in DOMAIN S
      PROVE  /\ S[j][1] \in ToSet(q) /\ S[j][1] \in ToSet(e)
             /\ Pos(e, S[j][1]) = Pos(q, S[j][1]) /\ Pos(e, S[j][1]) < l + 1
  <2>1. S[j][1] \in ToSet(q)
    BY <1>1 DEF Order
  <2> QED BY <1>2, <2>1
<1>8. Order(P, T, e, cs)
  <2>1. ASSUME NEW i \in Answers(P)
        PROVE  /\ P[i].cseq \in {cs[P[i].call], NoCSeq}
               /\ \A j \in Answers(P) : i < j => Pos(e, P[i].call) < Pos(e, P[j].call)
    BY <1>1, <1>6 DEF Order
  <2>2. ASSUME NEW i \in Answers(P), NEW j \in DOMAIN T
        PROVE  Pos(e, P[i].call) < Pos(e, T[j][1])
    <3>1. CASE j \in DOMAIN S /\ T[j] = S[j]
      BY <1>1, <1>6, <1>7, <3>1 DEF Order
    <3>2. CASE T[j][1] = c
      BY <1>2, <1>6, <3>2
    <3> QED BY <1>5, <3>1, <3>2
  <2>3. ASSUME NEW j \in DOMAIN T PROVE T[j][1] \in ToSet(e) /\ T[j][2] = cs[T[j][1]]
    <3>1. CASE j \in DOMAIN S /\ T[j] = S[j]
      BY <1>1, <1>7, <3>1 DEF Order
    <3>2. CASE T[j][1] = c /\ T[j][2] = cs[c]
      BY <1>2, <3>2
    <3> QED BY <1>5, <3>1, <3>2
  <2>4. ASSUME NEW i \in DOMAIN T, NEW j \in DOMAIN T, i < j
        PROVE  Pos(e, T[i][1]) < Pos(e, T[j][1])
    <3>1. i \in DOMAIN S /\ T[i] = S[i]
      <4>1. CASE h
        BY <1>3, <4>1
      <4>2. CASE ~h
        <5>1. i \in 1 .. m + 1 /\ j \in 1 .. m + 1
          BY <1>3, <4>2
        <5>2. i \in 1 .. m
          BY <1>3, <2>4, <5>1
        <5> QED BY <1>3, <4>2, <5>2
      <4> QED BY <4>1, <4>2
    <3>2. CASE j \in DOMAIN S /\ T[j] = S[j]
      BY <1>1, <1>7, <2>4, <3>1, <3>2 DEF Order
    <3>3. CASE T[j][1] = c
      BY <1>2, <1>7, <3>1, <3>3
    <3> QED BY <1>5, <3>2, <3>3
  <2> QED BY <1>6, <2>1, <2>2, <2>3, <2>4 DEF Order
<1>9. Kept(P, T, h, e, L)
  <2> SUFFICES ASSUME NEW d \in ToSet(e) \ L
               PROVE  \/ \E i \in Answers(P) : P[i].call = d
                      \/ \E j \in DOMAIN T : T[j][1] = d
                      \/ h /\ \A i \in Answers(P) : Pos(e, P[i].call) < Pos(e, d)
    BY DEF Kept
  <2>1. CASE d = c
    <3>1. CASE h
      BY <1>2, <1>6, <2>1, <3>1
    <3>2. CASE ~h
      <4>1. m + 1 \in DOMAIN T /\ T[m + 1][1] = c
        BY <1>3, <3>2
      <4> QED BY <2>1, <4>1
    <3> QED BY <3>1, <3>2
  <2>2. CASE d \in ToSet(q) \ L
    <3>1. CASE \E j \in DOMAIN S : S[j][1] = d
      <4>1. PICK j \in DOMAIN S : S[j][1] = d
        BY <3>1
      <4>2. j \in DOMAIN T /\ T[j] = S[j]
        BY <1>3, <4>1
      <4> QED BY <4>1, <4>2
    <3>2. CASE h /\ \A i \in Answers(P) : Pos(q, P[i].call) < Pos(q, d)
      BY <1>2, <1>6, <2>2, <3>2
    <3> QED BY <1>1, <2>2, <3>1, <3>2 DEF Kept
  <2> QED BY <1>2, <2>1, <2>2
<1> QED BY <1>4, <1>8, <1>9 DEF Link, e

LEMMA TailIs ==
    ASSUME NEW S, NEW s \in Seq(S), s # <<>>
    PROVE  /\ Tail(s) \in Seq(S) /\ Tail(s) = Drop(s, 1)
           /\ Head(s) = s[1] /\ Head(s) \in S /\ 1 \in DOMAIN s
           /\ Len(s) \in Nat /\ 1 \in 0 .. Len(s) /\ DOMAIN s = 1 .. Len(s)
           /\ DOMAIN Tail(s) = 1 .. Len(s) - 1
           /\ \A i \in 1 .. Len(s) - 1 : Tail(s)[i] = s[i + 1]
<1>1. Tail(s) \in Seq(S) /\ Len(Tail(s)) = Len(s) - 1 /\ Head(s) \in S
      /\ \A i \in 1 .. Len(Tail(s)) : Tail(s)[i] = s[i + 1]
  BY HeadTailProperties
<1>2. Len(s) \in Nat /\ Len(s) # 0 /\ DOMAIN s = 1 .. Len(s)
  BY SeqIs
<1>3. DOMAIN Tail(s) = 1 .. Len(Tail(s))
  BY <1>1, SeqIs
<1>4. Tail(s) = SubSeq(s, 2, Len(s))
  BY TailIsSubSeq
<1>5. Tail(s) = Drop(s, 1)
  BY <1>4 DEF Drop
<1>6. Head(s) = s[1]
  BY <1>2
<1> QED BY <1>1, <1>2, <1>3, <1>5, <1>6

\* The server leaves out an answer.
LEMMA LinkSkip ==
    ASSUME NEW P, NEW S \in Seq(Calls \X CSeqs), NEW h, NEW q \in Seq(Calls), NEW L,
           NEW M, NEW cs, NEW sock, NEW k,
           Once(q), L \subseteq M, Link(P, S, h, q, L, cs, sock, k), S # <<>>, S[1][1] \in M
    PROVE  Link(P, Tail(S), h, q, M, cs, sock, k)
<1> DEFINE T == Tail(S)
           m == Len(S)
<1>1. /\ m \in Nat /\ 1 \in 1 .. m /\ DOMAIN S = 1 .. m
      /\ DOMAIN T = 1 .. m - 1 /\ \A i \in 1 .. m - 1 : T[i] = S[i + 1]
  BY TailIs
<1> HIDE DEF T, m
<1>2. ASSUME NEW j \in DOMAIN T PROVE j + 1 \in DOMAIN S /\ T[j] = S[j + 1] /\ j \in Int
  BY <1>1
<1>3. Shape(P, S, h, k) /\ Order(P, S, q, cs) /\ Kept(P, S, h, q, L) /\ ~h /\ sock = "open"
  BY DEF Link, Shape, Cut
<1>4. Shape(P, T, h, k)
  BY <1>3 DEF Shape
<1>5. Order(P, T, q, cs)
  <2>1. ASSUME NEW i \in DOMAIN T, NEW j \in DOMAIN T, i < j
        PROVE  Pos(q, T[i][1]) < Pos(q, T[j][1])
    <3>1. i + 1 < j + 1
      BY <1>2, <2>1
    <3> QED BY <1>2, <1>3, <3>1 DEF Order
  <2> QED BY <1>2, <1>3, <2>1 DEF Order
<1>6. Kept(P, T, h, q, M)
  <2> SUFFICES ASSUME NEW c \in ToSet(q) \ M
               PROVE  \/ \E i \in Answers(P) : P[i].call = c
                      \/ \E j \in DOMAIN T : T[j][1] = c
    BY DEF Kept
  <2>1. CASE \E j \in DOMAIN S : S[j][1] = c
    <3>1. PICK j \in DOMAIN S : S[j][1] = c
      BY <2>1
    <3>2. j # 1
      BY <3>1
    <3>3. j - 1 \in DOMAIN T /\ (j - 1) + 1 = j
      BY <1>1, <3>2
    <3>4. T[j - 1] = S[j]
      BY <1>2, <3>3
    <3> QED BY <3>1, <3>3, <3>4
  <2> QED BY <1>3, <2>1 DEF Kept
<1> QED BY <1>3, <1>4, <1>5, <1>6 DEF Link, T

\* The server answers the first request it holds, with the parts T.
LEMMA LinkAnswer ==
    ASSUME NEW P \in Seq(Parts), NEW S \in Seq(Calls \X CSeqs), NEW h, NEW q \in Seq(Calls),
           NEW L, NEW cs, NEW sock, NEW k, NEW T \in Seq(Parts), NEW m \in Parts,
           Once(q), Link(P, S, h, q, L, cs, sock, k), S # <<>>,
           Len(T) \in {1, 2}, T[1] = m, IsAnswerPart(m),
           m.kind = "head" <=> Len(T) = 2,
           Len(T) = 2 => T[2].kind = "tail" /\ T[2].call = m.call /\ T[2].code = m.code,
           m.call = S[1][1], m.cseq \in {S[1][2], NoCSeq},
           m.cseq = NoCSeq => k = "noCSeq", m.code = "bad" => k = "bad" /\ P = <<>>,
           m.close => m.kind = "whole"
    PROVE  Link(P \o T, IF m.close THEN <<>> ELSE Tail(S), m.close, q, L, cs, sock, k)
<1> DEFINE U == P \o T
           V == IF m.close THEN <<>> ELSE Tail(S)
           l == Len(P)
           s == Len(S)
           t == Len(T)
<1>1. /\ s \in Nat /\ 1 \in 1 .. s /\ DOMAIN S = 1 .. s
      /\ DOMAIN Tail(S) = 1 .. s - 1 /\ \A i \in 1 .. s - 1 : Tail(S)[i] = S[i + 1]
  BY TailIs
<1>2. l \in Nat /\ DOMAIN P = 1 .. l
  BY SeqIs
<1>3. /\ U \in Seq(Parts) /\ Len(U) = l + t
      /\ \A i \in 1 .. l : U[i] = P[i]
      /\ \A i \in 1 .. t : U[l + i] = T[i]
  BY ConcatIs
<1>4. DOMAIN U = 1 .. l + t
  <2>1. DOMAIN U = 1 .. Len(U)
    BY <1>3, SeqIs
  <2> QED BY <1>3, <2>1
<1>5. /\ t \in {1, 2} /\ (m.kind = "head" <=> t = 2)
      /\ t = 2 => T[2].kind = "tail" /\ T[2].call = m.call /\ T[2].code = m.code
  OBVIOUS
<1> HIDE DEF U, l, s, t
<1>6. /\ l + 1 \in DOMAIN U /\ U[l + 1] = m
      /\ t = 2 => l + 2 \in DOMAIN U /\ U[l + 2] = T[2]
  <2>1. 1 \in 1 .. t /\ (t = 2 => 2 \in 1 .. t) /\ l + 1 \in 1 .. l + t
        /\ (t = 2 => l + 2 \in 1 .. l + t)
    BY <1>2, <1>5
  <2> QED BY <1>3, <1>4, <2>1
<1>7. ASSUME NEW i \in DOMAIN U
      PROVE  \/ i \in DOMAIN P /\ U[i] = P[i]
             \/ i = l + 1 /\ U[i] = m
             \/ t = 2 /\ i = l + 2 /\ U[i] = T[2]
  <2>1. i \in 1 .. l \/ i = l + 1 \/ (t = 2 /\ i = l + 2)
    BY <1>2, <1>4, <1>5
  <2> QED BY <1>2, <1>3, <1>6, <2>1
<1>8. ASSUME NEW i \in Answers(U)
      PROVE  (i \in Answers(P) /\ U[i] = P[i] /\ i <= l) \/ (i = l + 1 /\ U[i] = m)
  <2>1. i \in DOMAIN U /\ IsAnswerPart(U[i])
    BY DEF Answers
  <2>2. ~IsAnswerPart(T[2]) \/ t # 2
    BY <1>5 DEF IsAnswerPart
  <2> QED BY <1>2, <1>7, <2>1, <2>2 DEF Answers
<1>9. /\ l + 1 \in Answers(U)
      /\ \A i \in Answers(P) : i \in Answers(U) /\ U[i] = P[i]
  BY <1>2, <1>3, <1>4, <1>5, <1>6 DEF Answers
<1>10. /\ Shape(P, S, h, k) /\ Order(P, S, q, cs) /\ Kept(P, S, h, q, L)
       /\ ~h /\ sock = "open"
  BY DEF Link, Shape, Cut
<1>11. \A i \in Answers(P) : ~P[i].close
  BY <1>10 DEF Shape
<1>12. \A i \in DOMAIN P :
          /\ P[i].kind = "head" =>
                i + 1 \in DOMAIN P /\ P[i + 1].kind = "tail" /\ P[i + 1].call = P[i].call
          /\ P[i].kind = "tail" =>
                i = 1 \/ (P[i - 1].kind = "head" /\ P[i - 1].call = P[i].call)
          /\ P[i].kind = "alien" => k = "alien" /\ \A j \in DOMAIN P : P[j].kind = "alien" => j = i
          /\ P[i].code = "bad" => k = "bad"
  BY <1>10 DEF Shape
<1>13. ASSUME NEW i \in DOMAIN U
       PROVE  /\ U[i].kind = "head" =>
                   i + 1 \in DOMAIN U /\ U[i + 1].kind = "tail" /\ U[i + 1].call = U[i].call
              /\ U[i].kind = "tail" =>
                   i = 1 \/ (U[i - 1].kind = "head" /\ U[i - 1].call = U[i].call)
  <2>1. CASE i \in DOMAIN P /\ U[i] = P[i]
    <3>1. i + 1 \in DOMAIN P => i + 1 \in DOMAIN U /\ U[i + 1] = P[i + 1]
      BY <1>2, <1>3, <1>4, <1>5
    <3>2. i = 1 \/ U[i - 1] = P[i - 1]
      <4>1. i = 1 \/ i - 1 \in 1 .. l
        BY <1>2, <2>1
      <4> QED BY <1>3, <4>1
    <3>3. CASE U[i].kind = "head"
      BY <1>12, <2>1, <3>1, <3>3
    <3>4. CASE U[i].kind = "tail"
      BY <1>12, <2>1, <3>2, <3>4
    <3> QED BY <3>3, <3>4
  <2>2. CASE i = l + 1 /\ U[i] = m
    <3>1. m.kind # "tail" /\ (l + 1) + 1 = l + 2
      BY <1>2 DEF IsAnswerPart
    <3> QED BY <1>5, <1>6, <2>2, <3>1
  <2>3. CASE t = 2 /\ i = l + 2 /\ U[i] = T[2]
    <3>1. i - 1 = l + 1
      BY <1>2, <2>3
    <3> QED BY <1>5, <1>6, <2>3, <3>1
  <2> QED BY <1>7, <2>1, <2>2, <2>3
<1>14. ASSUME NEW i \in DOMAIN U
       PROVE  /\ U[i].kind = "alien" =>
                   k = "alien" /\ \A j \in DOMAIN U : U[j].kind = "alien" => j = i
              /\ U[i].code = "bad" => k = "bad"
  <2>1. ASSUME NEW j \in DOMAIN U
        PROVE  \/ j \in DOMAIN P /\ U[j] = P[j]
               \/ U[j].kind # "alien" /\ (U[j].code = "bad" => k = "bad")
    <3>1. m.kind # "alien"
      BY DEF IsAnswerPart
    <3> QED BY <1>5, <1>7, <3>1
  <2> QED BY <1>12, <2>1
<1>15. ASSUME NEW i \in Answers(U)
       PROVE  /\ U[i].code = "bad" => i = 1
              /\ U[i].cseq = NoCSeq => k = "noCSeq"
              /\ U[i].close => U[i].kind = "whole" /\ m.close /\ i = Len(U)
  <2>1. m.kind = "whole" => Len(U) = l + 1
    BY <1>3, <1>5
  <2>2. CASE i \in Answers(P) /\ U[i] = P[i]
    BY <1>10, <1>11, <2>2 DEF Shape
  <2>3. CASE i = l + 1 /\ U[i] = m
    <3>1. P = <<>> => l + 1 = 1
      BY SeqIs DEF l
    <3> QED BY <2>1, <2>3, <3>1
  <2> QED BY <1>8, <2>2, <2>3
<1>16. Shape(U, V, m.close, k)
  BY <1>13, <1>14, <1>15 DEF Shape
<1>17. ASSUME NEW j \in DOMAIN V
       PROVE  ~m.close /\ j + 1 \in DOMAIN S /\ V[j] = S[j + 1] /\ j \in Nat /\ 1 < j + 1
  <2>1. ~m.close
    OBVIOUS
  <2> QED BY <1>1, <2>1
<1> HIDE DEF V
<1>18. Order(U, V, q, cs)
  <2>1. S[1][1] \in ToSet(q) /\ S[1][2] = cs[S[1][1]]
    BY <1>1, <1>10 DEF Order
  <2>2. ASSUME NEW i \in Answers(U)
        PROVE  U[i].call \in ToSet(q) /\ U[i].cseq \in {cs[U[i].call], NoCSeq}
    BY <1>8, <1>10, <2>1 DEF Order
  <2>3. ASSUME NEW i \in Answers(U), NEW j \in Answers(U), i < j
        PROVE  Pos(q, U[i].call) < Pos(q, U[j].call)
    <3>1. i \in Answers(P) /\ U[i] = P[i]
      BY <1>2, <1>8, <2>3 DEF Answers
    <3>2. CASE j \in Answers(P) /\ U[j] = P[j]
      BY <1>10, <2>3, <3>1, <3>2 DEF Order
    <3>3. CASE U[j] = m
      BY <1>1, <1>10, <3>1, <3>3 DEF Order
    <3> QED BY <1>8, <3>2, <3>3
  <2>4. ASSUME NEW i \in Answers(U), NEW j \in DOMAIN V
        PROVE  Pos(q, U[i].call) < Pos(q, V[j][1])
    <3>1. j + 1 \in DOMAIN S /\ 1 \in DOMAIN S /\ 1 < j + 1 /\ V[j] = S[j + 1]
      <4>1. 1 \in DOMAIN S
        BY <1>1
      <4> QED BY <1>17, <4>1
    <3>2. CASE i \in Answers(P) /\ U[i] = P[i]
      <4>1. \A g \in DOMAIN S : Pos(q, P[i].call) < Pos(q, S[g][1])
        BY <1>10, <3>2 DEF Order
      <4> QED BY <3>1, <3>2, <4>1
    <3>3. CASE U[i] = m
      <4>1. Pos(q, S[1][1]) < Pos(q, S[j + 1][1])
        BY <1>10, <3>1 DEF Order
      <4> QED BY <3>1, <3>3, <4>1
    <3> QED BY <1>8, <3>2, <3>3
  <2>5. ASSUME NEW i \in DOMAIN V, NEW j \in DOMAIN V, i < j
        PROVE  Pos(q, V[i][1]) < Pos(q, V[j][1])
    <3>1. i + 1 < j + 1
      BY <1>17, <2>5
    <3> QED BY <1>10, <1>17, <3>1 DEF Order
  <2>6. \A j \in DOMAIN V : V[j][1] \in ToSet(q) /\ V[j][2] = cs[V[j][1]]
    BY <1>10, <1>17 DEF Order
  <2> QED BY <2>2, <2>3, <2>4, <2>5, <2>6 DEF Order
<1>19. Kept(U, V, m.close, q, L)
  <2> SUFFICES ASSUME NEW c \in ToSet(q) \ L
               PROVE  \/ \E i \in Answers(U) : U[i].call = c
                      \/ \E j \in DOMAIN V : V[j][1] = c
                      \/ m.close /\ \A i \in Answers(U) : Pos(q, U[i].call) < Pos(q, c)
    BY DEF Kept
  <2>1. CASE \E j \in DOMAIN S : S[j][1] = c
    <3>1. PICK j \in DOMAIN S : S[j][1] = c
      BY <2>1
    <3>2. CASE j = 1
      BY <1>6, <1>9, <3>1, <3>2
    <3>3. CASE j # 1 /\ ~m.close
      <4>1. V = Tail(S)
        BY <3>3 DEF V
      <4>2. j - 1 \in 1 .. s - 1 /\ (j - 1) + 1 = j
        BY <1>1, <3>3
      <4> QED BY <1>1, <3>1, <4>1, <4>2
    <3>4. CASE j # 1 /\ m.close
      <4>1. 1 \in DOMAIN S /\ 1 < j
        BY <1>1, <3>4
      <4>2. \A i \in Answers(U) : Pos(q, U[i].call) < Pos(q, c)
        BY <1>8, <1>10, <3>1, <4>1 DEF Order
      <4> QED BY <3>4, <4>2
    <3> QED BY <3>2, <3>3, <3>4
  <2>2. CASE \E i \in Answers(P) : P[i].call = c
    BY <1>9, <2>2
  <2>3. \/ \E i \in Answers(P) : P[i].call = c
        \/ \E j \in DOMAIN S : S[j][1] = c
    BY <1>10 DEF Kept
  <2> QED BY <2>1, <2>2, <2>3
<1> QED BY <1>10, <1>16, <1>18, <1>19 DEF Link, U, V

\* The server sends a request of its own.
LEMMA LinkAlien ==
    ASSUME NEW P \in Seq(Parts), NEW S, NEW h, NEW q, NEW L, NEW cs, NEW sock, NEW k,
           NEW a \in Parts, a.kind = "alien", a.code # "bad", k = "alien",
           \A i \in DOMAIN P : P[i].kind # "alien", ~h,
           Link(P, S, h, q, L, cs, sock, k)
    PROVE  Link(Append(P, a), S, h, q, L, cs, sock, k)
<1> DEFINE U == Append(P, a)
           l == Len(P)
<1>1. l \in Nat /\ DOMAIN P = 1 .. l
  BY SeqIs
<1>2. /\ U \in Seq(Parts) /\ Len(U) = l + 1 /\ U[l + 1] = a
      /\ \A i \in 1 .. l : U[i] = P[i]
  BY AppendProperties
<1>3. DOMAIN U = 1 .. l + 1
  <2>1. DOMAIN U = 1 .. Len(U)
    BY <1>2, SeqIs
  <2> QED BY <1>2, <2>1
<1> HIDE DEF U, l
<1>4. ASSUME NEW i \in DOMAIN U
      PROVE  \/ i \in DOMAIN P /\ U[i] = P[i]
             \/ i = l + 1 /\ U[i] = a
  <2>1. i \in 1 .. l \/ i = l + 1
    BY <1>1, <1>3
  <2> QED BY <1>1, <1>2, <2>1
<1>5. \A i \in DOMAIN P : i \in DOMAIN U /\ U[i] = P[i]
  BY <1>1, <1>2, <1>3
<1>6. Answers(U) = Answers(P) /\ \A i \in Answers(P) : U[i] = P[i]
  <2>1. ~IsAnswerPart(a)
    BY DEF IsAnswerPart
  <2>2. \A i \in Answers(U) : i \in Answers(P)
    BY <1>4, <2>1 DEF Answers
  <2>3. \A i \in Answers(P) : i \in Answers(U) /\ U[i] = P[i]
    BY <1>5 DEF Answers
  <2> QED BY <2>2, <2>3
<1>7. Shape(P, S, h, k) /\ Order(P, S, q, cs) /\ Kept(P, S, h, q, L)
  BY DEF Link
<1>8. Shape(U, S, h, k)
  <2>1. ASSUME NEW i \in DOMAIN U
        PROVE  /\ U[i].kind = "head" =>
                    i + 1 \in DOMAIN U /\ U[i + 1].kind = "tail" /\ U[i + 1].call = U[i].call
               /\ U[i].kind = "tail" =>
                    i = 1 \/ (U[i - 1].kind = "head" /\ U[i - 1].call = U[i].call)
    <3>1. CASE i \in DOMAIN P /\ U[i] = P[i]
      <4>1. i = 1 \/ U[i - 1] = P[i - 1]
        <5>1. i = 1 \/ i - 1 \in 1 .. l
          BY <1>1, <3>1
        <5> QED BY <1>2, <5>1
      <4>2. CASE U[i].kind = "head"
        <5>1. i + 1 \in DOMAIN P /\ P[i + 1].kind = "tail" /\ P[i + 1].call = P[i].call
          BY <1>7, <3>1, <4>2 DEF Shape
        <5> QED BY <1>5, <3>1, <4>2, <5>1
      <4>3. CASE U[i].kind = "tail"
        BY <1>7, <3>1, <4>1, <4>3 DEF Shape
      <4> QED BY <4>2, <4>3
    <3> QED BY <1>4, <3>1
  <2>2. ASSUME NEW i \in DOMAIN U
        PROVE  /\ U[i].kind = "alien" => \A j \in DOMAIN U : U[j].kind = "alien" => j = i
               /\ U[i].code = "bad" => k = "bad"
    BY <1>4, <1>7 DEF Shape
  <2>3. \A i \in Answers(U) :
          /\ U[i].code = "bad" => i = 1
          /\ U[i].cseq = NoCSeq => k = "noCSeq"
          /\ ~U[i].close
    BY <1>6, <1>7 DEF Shape
  <2> QED BY <1>7, <2>1, <2>2, <2>3 DEF Shape
<1>9. Order(U, S, q, cs) /\ Kept(U, S, h, q, L)
  BY <1>6, <1>7 DEF Order, Kept
<1>10. ASSUME sock # "open" PROVE Cut(U, S, h, q, L)
  <2>1. Cut(P, S, h, q, L)
    BY <1>10 DEF Link
  <2> QED BY <1>4, <2>1 DEF Cut
<1> QED BY <1>8, <1>9, <1>10 DEF Link, U

-----------------------------------------------------------------------------
(* The first answer and the request it is taken for.                        *)

LEMMA StreamIs ==
    ASSUME ReqTypeOK
    PROVE  /\ Stream \in Seq(Parts) /\ Len(Stream) = Len(buffer) + Len(wire)
           /\ Len(buffer) \in Nat /\ Len(wire) \in Nat /\ Len(buffer) \in 0 .. Len(Stream)
           /\ DOMAIN Stream = 1 .. Len(Stream) /\ Len(Stream) \in Nat
           /\ \A i \in 1 .. Len(buffer) : Stream[i] = buffer[i] /\ Stream[i] \in Parts
           /\ buffer # <<>> => 1 \in 1 .. Len(buffer) /\ 1 \in DOMAIN Stream
           /\ Drop(Stream, Len(buffer)) = wire
           /\ wire = <<>> => Stream = buffer
<1>1. buffer \in Seq(Parts) /\ wire \in Seq(Parts)
  BY DEF ReqTypeOK
<1>2. /\ Len(buffer) \in Nat /\ Len(wire) \in Nat
      /\ \A i \in 1 .. Len(buffer) : buffer[i] \in Parts
      /\ buffer # <<>> => Len(buffer) # 0
  BY <1>1, SeqIs
<1>3. /\ Stream \in Seq(Parts) /\ Len(Stream) = Len(buffer) + Len(wire)
      /\ \A i \in 1 .. Len(buffer) : Stream[i] = buffer[i]
  BY <1>1, ConcatIs DEF Stream
<1>4. DOMAIN Stream = 1 .. Len(Stream)
  BY <1>3, SeqIs
<1>5. Drop(Stream, Len(buffer)) = wire
  <2>1. 0 \in 0 .. Len(wire) /\ Len(buffer) + 0 = Len(buffer)
    BY <1>2
  <2>2. Drop(wire, 0) = Drop(buffer \o wire, Len(buffer) + 0)
    BY <1>1, <2>1, DropOfConcat
  <2>3. Drop(wire, 0) = wire
    BY <1>1, DropNone
  <2> QED BY <2>1, <2>2, <2>3 DEF Stream
<1>6. wire = <<>> => Stream = buffer
  BY <1>1, ConcatEmptySeq DEF Stream
<1> QED BY <1>2, <1>3, <1>4, <1>5, <1>6

\* Requests that wait are among those issued, and none is in two queues.
LEMMA QueuedWait ==
    ASSUME ReqTypeOK, Placed
    PROVE  /\ ToSet(awaitConn) \subseteq Waiting /\ ToSet(awaitResp) \subseteq Waiting
           /\ ToSet(resuming) \subseteq Waiting /\ ToSet(failing) \subseteq Waiting
           /\ Waiting \subseteq 1 .. issued /\ 1 .. issued \subseteq Calls
           /\ awaitConn \in Seq(Calls) /\ awaitResp \in Seq(Calls)
           /\ resuming \in Seq(Calls) /\ failing \in Seq(Calls)
<1>1. issued \in Nat /\ MaxCalls \in Nat /\ issued <= MaxCalls
  BY BoundsAssumption DEF ReqTypeOK
<1>2. 1 .. issued \subseteq Calls
  BY <1>1 DEF Calls
<1> QED BY <1>2 DEF ReqTypeOK, Placed, Partition, Waiting

\* An answer is taken for its own request, or for a lost one ahead of it, and
\* so are those passed over; what follows is for requests behind.
LEMMA TakeAnswer ==
    ASSUME ReqTypeOK, Numbered, Placed, LinkInv, NEW m,
           buffer # <<>>, m = buffer[1], IsAnswerPart(m)
    PROVE  /\ socket = "open" /\ Found(m)
           /\ FoundAt(awaitResp, m) \in 1 .. Len(awaitResp)
           /\ m.call \in ToSet(awaitResp) /\ Request(m) \in ToSet(awaitResp)
           /\ Pos(awaitResp, Request(m)) = FoundAt(awaitResp, m)
           /\ FoundAt(awaitResp, m) <= Pos(awaitResp, m.call)
           /\ \A c \in ToSet(awaitResp) : Pos(awaitResp, c) < FoundAt(awaitResp, m) => c \in lost
           /\ Request(m) = m.call \/ Request(m) \in lost
           /\ \A i \in Answers(Stream) : i # 1 =>
                 Pos(awaitResp, Stream[i].call) > Pos(awaitResp, m.call)
           /\ \A j \in DOMAIN server : Pos(awaitResp, server[j][1]) > Pos(awaitResp, m.call)
<1> DEFINE q == awaitResp
           f == FoundAt(q, m)
           l == Len(q)
           p == Pos(q, m.call)
<1>1. q \in Seq(Calls) /\ Once(q) /\ ToSet(q) \subseteq 1 .. issued
  BY QueuedWait DEF Placed
<1>2. /\ \A c \in ToSet(q) : Pos(q, c) \in 1 .. l /\ q[Pos(q, c)] = c
      /\ \A i \in 1 .. l : q[i] \in ToSet(q) /\ Pos(q, q[i]) = i
      /\ l \in Nat /\ DOMAIN q = 1 .. l
  BY <1>1, PosIs, SeqIs
<1>3. 1 \in Answers(Stream) /\ Stream[1] = m /\ \A i \in Answers(Stream) : i \in Nat \ {0}
  BY StreamIs DEF Answers
<1>4. Shape(Stream, server, hungUp, quirk) /\ Order(Stream, server, q, cseqOf)
      /\ Kept(Stream, server, hungUp, q, lost)
  BY DEF LinkInv, Link
<1>5. socket = "open"
  BY <1>3 DEF LinkInv, Link, Cut, Answers, IsAnswerPart
<1>6. m.call \in ToSet(q) /\ m.cseq \in {cseqOf[m.call], NoCSeq}
  BY <1>3, <1>4 DEF Order
<1>7. \A c \in ToSet(q) : cseqOf[c] \in Nat \ {0}
  BY <1>1, BoundsAssumption DEF Numbered, ReqTypeOK, NoCSeq, CSeqs
<1>8. p \in 1 .. l /\ q[p] = m.call
  BY <1>2, <1>6
<1>9. f \in 1 .. l /\ f <= p
  <2>1. CASE m.cseq = NoCSeq
    BY <1>2, <1>8, <2>1 DEF FoundAt
  <2>2. CASE m.cseq # NoCSeq
    <3> DEFINE T == {i \in DOMAIN q : cseqOf[q[i]] >= m.cseq}
               i == CHOOSE i \in T : \A j \in T : i <= j
    <3>1. m.cseq = cseqOf[m.call] /\ m.cseq \in Nat
      BY <1>6, <1>7, <2>2
    <3>2. p \in T
      BY <1>2, <1>8, <3>1
    <3>3. T \subseteq Nat
      BY <1>2
    <3>4. \E g \in T : \A j \in T : g <= j
      BY <3>2, <3>3, LeastOf
    <3>5. i \in T /\ \A j \in T : i <= j
      BY <3>4
    <3>6. f = IF cseqOf[q[i]] = m.cseq THEN i ELSE i + 1
      BY <2>2, <3>2 DEF FoundAt
    <3>7. i \in 1 .. l
      BY <1>2, <3>5
    <3> HIDE DEF T, i, f
    <3>8. CASE cseqOf[q[i]] = m.cseq
      BY <3>2, <3>5, <3>6, <3>7, <3>8
    <3>9. CASE cseqOf[q[i]] # m.cseq
      <4>1. i # p /\ i <= p
        BY <1>8, <3>1, <3>2, <3>5, <3>9
      <4>2. f = i + 1
        BY <3>6, <3>9
      <4> QED BY <1>2, <1>8, <3>7, <4>1, <4>2
    <3> QED BY <3>8, <3>9
  <2> QED BY <2>1, <2>2
<1>10. ASSUME NEW i \in Answers(Stream), i # 1 PROVE Pos(q, Stream[i].call) > p
  <2>1. 1 < i
    BY <1>3, <1>10
  <2>2. Pos(q, m.call) < Pos(q, Stream[i].call)
    BY <1>3, <1>4, <2>1 DEF Order
  <2>3. Stream[i].call \in ToSet(q)
    BY <1>4 DEF Order
  <2> QED BY <1>2, <1>8, <2>2, <2>3
<1>11. ASSUME NEW j \in DOMAIN server PROVE Pos(q, server[j][1]) > p
  <2>1. Pos(q, m.call) < Pos(q, server[j][1]) /\ server[j][1] \in ToSet(q)
    BY <1>3, <1>4 DEF Order
  <2> QED BY <1>2, <1>8, <2>1
<1>12. ASSUME NEW c \in ToSet(q), Pos(q, c) < p PROVE c \in lost
  <2> SUFFICES ASSUME c \notin lost PROVE FALSE
    OBVIOUS
  <2>1. Pos(q, c) \in Nat /\ p \in Nat
    BY <1>2, <1>8
  <2>2. CASE \E i \in Answers(Stream) : Stream[i].call = c
    <3>1. PICK i \in Answers(Stream) : Stream[i].call = c
      BY <2>2
    <3>2. i # 1
      BY <1>3, <1>12, <2>1, <3>1
    <3> QED BY <1>10, <1>12, <2>1, <3>1, <3>2
  <2>3. CASE \E j \in DOMAIN server : server[j][1] = c
    BY <1>11, <1>12, <2>1, <2>3
  <2>4. CASE \A i \in Answers(Stream) : Pos(q, Stream[i].call) < Pos(q, c)
    <3>1. p < Pos(q, c)
      BY <1>3, <2>4
    <3> QED BY <1>12, <2>1, <3>1
  <2> QED BY <1>4, <2>2, <2>3, <2>4 DEF Kept
<1>13. Request(m) = q[f] /\ Found(m)
  BY <1>9 DEF Request, Found
<1>14. Request(m) \in ToSet(q) /\ Pos(q, Request(m)) = f
  BY <1>2, <1>9, <1>13
<1>15. Request(m) = m.call \/ Request(m) \in lost
  <2>1. CASE f = p
    BY <1>8, <1>13, <2>1
  <2>2. CASE f < p
    BY <1>12, <1>14, <2>2
  <2> QED BY <1>8, <1>9, <2>1, <2>2
<1>16. ASSUME NEW c \in ToSet(q), Pos(q, c) < f PROVE c \in lost
  <2>1. Pos(q, c) < p
    <3>1. Pos(q, c) \in Nat /\ f \in Nat /\ p \in Nat
      BY <1>2, <1>8, <1>9
    <3> QED BY <1>9, <1>16, <3>1
  <2> QED BY <1>12, <2>1
<1> QED BY <1>5, <1>6, <1>9, <1>10, <1>11, <1>13, <1>14, <1>15, <1>16

-----------------------------------------------------------------------------
(* Sending a request.                                                       *)

\* The request waits for the connection, or was sent, or failed.
SendEnds(c, q) ==
    \/ awaitConn' = Append(awaitConn, c) /\ awaitResp' = q /\ NoCall
    \/ awaitConn' = awaitConn /\ awaitResp' = Append(q, c) /\ NoCall
    \/ awaitConn' = awaitConn /\ awaitResp' = q /\ HandleRequestError(c)

LEMMA SendIs ==
    ASSUME ReqTypeOK, NEW c \in Calls, NEW q \in Seq(Calls),
           NEW k \in {"none", "pending", "open"},
           SendRequest(c, q, k), cseqOf'[c] \in CSeqs,
           (awaitConn # <<>>) <=> (k = "pending"), k = "pending" => wire = <<>>
    PROVE  /\ SendEnds(c, q)
           /\ socket' \in {"none", "pending", "open"}
           /\ (awaitConn' # <<>>) <=> (socket' = "pending")
           /\ socket' # "open" => wire' = <<>>
           /\ k = "open" => socket' = "open"
           /\ wire' \in {wire, <<>>} /\ wire' \in Seq(Parts)
           /\ server' \in Seq(Calls \X CSeqs) /\ hungUp' \in BOOLEAN
<1>1. /\ awaitConn \in Seq(Calls) /\ wire \in Seq(Parts) /\ <<>> \in Seq(Parts)
      /\ server \in Seq(Calls \X CSeqs) /\ hungUp \in BOOLEAN
  BY DEF ReqTypeOK
<1>2. /\ Append(awaitConn, c) \in Seq(Calls) /\ Append(awaitConn, c) # <<>>
      /\ Append(q, c) # q
  <2>1. Len(Append(q, c)) = Len(q) + 1 /\ Len(q) \in Nat
    BY AppendProperties, SeqIs
  <2> QED BY <1>1, <2>1, AppendProperties
<1>3. <<c, cseqOf'[c]>> \in Calls \X CSeqs
  OBVIOUS
<1>4. CASE awaitConn # <<>>
  <2>1. /\ awaitConn' = Append(awaitConn, c) /\ awaitResp' = q /\ socket' = k /\ NoCall
        /\ UNCHANGED <<server, hungUp, wire>>
    BY <1>4 DEF SendRequest
  <2> QED BY <1>1, <1>2, <1>4, <2>1 DEF SendEnds
<1>5. CASE awaitConn = <<>> /\ k = "none"
  <2>1. OpenConnection(c, q)
    BY <1>5 DEF SendRequest
  <2>2. <<<<c, cseqOf'[c]>>>> \in Seq(Calls \X CSeqs) /\ <<>> \in Seq(Calls \X CSeqs)
    BY <1>3
  <2>3. wire' = <<>> /\ hungUp' = FALSE /\ server' \in Seq(Calls \X CSeqs)
    BY <2>1, <2>2 DEF OpenConnection
  <2>4. CASE awaitResp' = q
    <3>1. \/ socket' = "pending" /\ awaitConn' = <<c>> /\ NoCall
          \/ socket' \in {"open", "none"} /\ awaitConn' = <<>> /\ HandleRequestError(c)
      BY <2>1, <2>4 DEF OpenConnection
    <3>2. <<c>> = Append(awaitConn, c) /\ <<c>> # <<>>
      BY <1>5
    <3> QED BY <1>1, <1>5, <2>3, <2>4, <3>1, <3>2 DEF SendEnds
  <2>5. CASE awaitResp' # q
    <3>1. awaitResp' = Append(q, c) /\ socket' = "open" /\ awaitConn' = <<>> /\ NoCall
      BY <2>1, <2>5 DEF OpenConnection
    <3> QED BY <1>1, <1>5, <2>3, <3>1 DEF SendEnds
  <2> QED BY <2>4, <2>5
<1>6. CASE awaitConn = <<>> /\ k # "none"
  <2>1. SendNow(c, q)
    BY <1>6 DEF SendRequest
  <2>2. socket' = "open" /\ awaitConn' = awaitConn /\ hungUp' = hungUp /\ wire' = wire
    BY <2>1 DEF SendNow
  <2>3. Append(server, <<c, cseqOf'[c]>>) \in Seq(Calls \X CSeqs)
    BY <1>1, <1>3, AppendProperties
  <2>4. \/ /\ awaitResp' = Append(q, c) /\ NoCall
           /\ server' = IF hungUp THEN server ELSE Append(server, <<c, cseqOf'[c]>>)
        \/ awaitResp' = q /\ HandleRequestError(c) /\ server' = server
    BY <2>1 DEF SendNow
  <2>5. server' \in Seq(Calls \X CSeqs)
    BY <1>1, <2>3, <2>4
  <2> QED BY <1>1, <1>6, <2>2, <2>4, <2>5 DEF SendEnds
<1> QED BY <1>4, <1>5, <1>6

LEMMA SendLink ==
    ASSUME ReqTypeOK, NEW c \in Calls, NEW q \in Seq(Calls),
           NEW k \in {"none", "pending", "open"},
           SendRequest(c, q, k), cseqOf'[c] \in CSeqs, Once(q), c \notin ToSet(q),
           (awaitConn # <<>>) <=> (k = "pending"), buffer' \in Seq(Parts),
           k = "none" => Link(buffer', <<>>, FALSE, q, lost', cseqOf', "none", quirk),
           k # "none" => Link(buffer' \o wire, server, hungUp, q, lost', cseqOf', k, quirk),
           quirk' = quirk
    PROVE  LinkInv'
<1>1. /\ server \in Seq(Calls \X CSeqs) /\ hungUp \in BOOLEAN /\ buffer' \o <<>> = buffer'
  BY ConcatEmptySeq DEF ReqTypeOK
<1>2. SUFFICES Link(buffer' \o wire', server', hungUp', awaitResp', lost', cseqOf', socket', quirk)
  BY DEF LinkInv, Stream
<1>3. CASE awaitConn # <<>>
  <2>1. awaitResp' = q /\ socket' = k /\ UNCHANGED <<server, hungUp, wire>>
    BY <1>3 DEF SendRequest
  <2> QED BY <1>3, <2>1
<1>4. CASE awaitConn = <<>> /\ k = "none"
  <2>1. OpenConnection(c, q)
    BY <1>4 DEF SendRequest
  <2>2. \A sock : Link(buffer', <<>>, FALSE, q, lost', cseqOf', sock, quirk)
    BY <1>4 DEF Link
  <2>3. wire' = <<>> /\ hungUp' = FALSE
    BY <2>1 DEF OpenConnection
  <2>4. CASE awaitResp' = q
    <3>1. server' = <<>>
      BY <2>1, <2>4 DEF OpenConnection
    <3> QED BY <1>1, <2>2, <2>3, <2>4, <3>1
  <2>5. CASE awaitResp' # q
    <3>1. awaitResp' = Append(q, c) /\ socket' = "open" /\ server' = <<<<c, cseqOf'[c]>>>>
      BY <2>1, <2>5 DEF OpenConnection
    <3>2. <<>> \in Seq(Calls \X CSeqs) /\ server' = Append(<<>>, <<c, cseqOf'[c]>>)
      BY <3>1
    <3>3. Link(buffer', server', FALSE, Append(q, c), lost', cseqOf', "open", quirk)
      <4>1. server' = IF FALSE THEN <<>> ELSE Append(<<>>, <<c, cseqOf'[c]>>)
        BY <3>2
      <4>2. Link(buffer', <<>>, FALSE, q, lost', cseqOf', "open", quirk)
        BY <2>2
      <4> QED BY <3>2, <4>1, <4>2, LinkSend
    <3> QED BY <1>1, <2>3, <3>1, <3>3
  <2> QED BY <2>4, <2>5
<1>5. CASE awaitConn = <<>> /\ k # "none"
  <2>1. SendNow(c, q) /\ k = "open"
    BY <1>5 DEF SendRequest
  <2>2. socket' = "open" /\ hungUp' = hungUp /\ wire' = wire
    BY <2>1 DEF SendNow
  <2>3. Link(buffer' \o wire, server, hungUp, q, lost', cseqOf', "open", quirk)
    BY <1>5, <2>1
  <2>4. CASE awaitResp' = q /\ server' = server
    BY <2>2, <2>3, <2>4
  <2>5. CASE /\ awaitResp' = Append(q, c)
             /\ server' = IF hungUp THEN server ELSE Append(server, <<c, cseqOf'[c]>>)
    <3>1. Link(buffer' \o wire, server', hungUp, Append(q, c), lost', cseqOf', "open", quirk)
      BY <1>1, <2>3, <2>5, LinkSend
    <3> QED BY <2>2, <2>5, <3>1
  <2> QED BY <2>1, <2>4, <2>5 DEF SendNow
<1> QED BY <1>3, <1>4, <1>5

-----------------------------------------------------------------------------
(* The actions: each keeps the invariant, and calls and gives up what it     *)
(* may.                                                                     *)

\* Requests that wait are answered with their own answer or an error, or are
\* given up; what was answered stays so.
Settled ==
    /\ issued' = issued
    /\ Done \subseteq Done' /\ Done' \ Done \subseteq Waiting
    /\ \A c \in Done : result'[c] = result[c]
    /\ \A c \in Done' \ Done : result'[c] \in {c, Error} \/ c \in lost'
    /\ lost \subseteq lost' /\ lost' \cap Done \subseteq lost /\ lost' \subseteq 1 .. issued

LEMMA EmptyQueue == Once(<<>>) /\ ToSet(<<>>) = {} /\ <<>> \in Seq(Calls) /\ <<>> \in Seq(Parts)
  BY DEF Once, ToSet

LEMMA TailQueue ==
    ASSUME NEW q \in Seq(Calls), Once(q), q # <<>>
    PROVE  /\ Head(q) \in ToSet(q) /\ Head(q) \in Calls
           /\ Tail(q) \in Seq(Calls) /\ Once(Tail(q)) /\ Tail(q) = Drop(q, 1)
           /\ Pos(q, Head(q)) = 1
           /\ ToSet(Tail(q)) = ToSet(q) \ {Head(q)}
<1>1. /\ Tail(q) \in Seq(Calls) /\ Tail(q) = Drop(q, 1) /\ Head(q) = q[1] /\ Head(q) \in Calls
      /\ 1 \in 0 .. Len(q) /\ Len(q) \in Nat /\ 1 \in 1 .. Len(q)
  BY TailIs
<1>2. /\ \A c \in ToSet(q) : Pos(q, c) \in 1 .. Len(q) /\ q[Pos(q, c)] = c
      /\ \A i \in 1 .. Len(q) : q[i] \in ToSet(q) /\ Pos(q, q[i]) = i
  BY PosIs
<1>3. Once(Tail(q)) /\ \A c : c \in ToSet(Tail(q)) <=> c \in ToSet(q) /\ Pos(q, c) > 1
  BY <1>1, PosDrop
<1>4. Head(q) \in ToSet(q) /\ Pos(q, Head(q)) = 1
  BY <1>1, <1>2
<1>5. ASSUME NEW c \in ToSet(q) PROVE Pos(q, c) > 1 <=> c # Head(q)
  BY <1>1, <1>2, <1>4
<1> QED BY <1>1, <1>3, <1>4, <1>5

LEMMA SameRequests ==
    ASSUME UNCHANGED <<issued, result>>
    PROVE  Done' = Done /\ Waiting' = Waiting
  BY DEF Done, Waiting

\* The handler of c is called.
LEMMA CallIs ==
    ASSUME ReqTypeOK, NEW c, c \notin Done, NEW r \in Calls \cup {Error}, CallHandler(c, r)
    PROVE  /\ Done' = Done \cup {c} /\ \A d \in Done' : result'[d] \in Calls \cup {Error}
           /\ result'[c] = r /\ \A d \in Done : result'[d] = result[d]
           /\ inHandler' \in BOOLEAN
<1>1. result' = [d \in Done \cup {c} |-> IF d = c THEN r ELSE result[d]]
  BY DEF CallHandler, WithResult
<1>2. Done' = Done \cup {c}
  BY <1>1 DEF Done
<1>3. \A d \in Done : result[d] \in Calls \cup {Error}
  BY DEF ReqTypeOK
<1>4. inHandler' \in BOOLEAN
  BY DEF CallHandler
<1>5. \A d \in Done : result'[d] = result[d]
  BY <1>1
<1>6. \A d \in Done' : result'[d] \in Calls \cup {Error}
  BY <1>1, <1>2, <1>3
<1> QED BY <1>1, <1>2, <1>4, <1>5, <1>6

LEMMA Called ==
    ASSUME ReqTypeOK, NEW c \in Waiting, NEW r \in Calls \cup {Error}, CallHandler(c, r),
           issued' = issued
    PROVE  /\ Done' = Done \cup {c} /\ Waiting' = Waiting \ {c} /\ c \notin Done
           /\ Done' \subseteq 1 .. issued' /\ \A d \in Done' : result'[d] \in Calls \cup {Error}
           /\ result'[c] = r /\ \A d \in Done : result'[d] = result[d]
           /\ inHandler' \in BOOLEAN
<1>1. c \in 1 .. issued /\ c \notin Done /\ Done \subseteq 1 .. issued
  BY DEF Waiting, ReqTypeOK
<1>2. /\ Done' = Done \cup {c} /\ \A d \in Done' : result'[d] \in Calls \cup {Error}
      /\ result'[c] = r /\ \A d \in Done : result'[d] = result[d]
      /\ inHandler' \in BOOLEAN
  BY <1>1, CallIs
<1>3. Waiting' = Waiting \ {c}
  BY <1>2 DEF Waiting
<1> QED BY <1>1, <1>2, <1>3

LEMMA AloneStays ==
    ASSUME Alone, Waiting' \subseteq Waiting, UNCHANGED <<exposed, quirk>>
    PROVE  Alone'
  BY DEF Alone

LEMMA NamedStays ==
    ASSUME Named, ToSet(Stream') \subseteq ToSet(Stream), issued' = issued
    PROVE  Named'
  BY DEF Named

LEMMA HandlerReturnsStep ==
    ASSUME IInv, HandlerReturns PROVE IInv' /\ Settled
<1>1. UNCHANGED <<requestVars, queueVars, closed, socket, buffer, looping, again, quirk,
                  serverVars, result, lost, exposed>> /\ inHandler' = FALSE
  BY DEF HandlerReturns
<1>2. UNCHANGED <<issued, silent, cseqOf, lastCSeq, awaitConn, awaitResp, resuming, failing,
                  server, hungUp, wire, resends>>
  BY <1>1 DEF requestVars, queueVars, serverVars
<1>3. Done' = Done /\ Waiting' = Waiting /\ Stream' = Stream
  BY <1>1, <1>2 DEF Done, Waiting, Stream
<1>4. ReqTypeOK'
  BY <1>1, <1>2, <1>3 DEF IInv, ReqTypeOK
<1>5. Numbered' /\ Placed' /\ LinkInv' /\ Named' /\ Alone' /\ Spared'
  BY <1>1, <1>2, <1>3 DEF IInv, Numbered, Placed, LinkInv, Named, Alone, Spared
<1>6. Phases'
  BY <1>1, <1>2 DEF IInv, Phases, ConnectingWhileQueued
<1>7. Settled
  BY <1>1, <1>2, <1>3 DEF Settled, IInv, ReqTypeOK
<1> QED BY <1>4, <1>5, <1>6, <1>7 DEF IInv

\* The connection ends and nothing is on its way: who waited for an answer is
\* told or given up.
LEMMA DestroyStep ==
    ASSUME IInv, Destroy PROVE IInv' /\ Settled
<1>1. /\ resuming = <<>> /\ failing = <<>> /\ ~looping
      /\ closed' = TRUE /\ socket' = "none" /\ buffer' = <<>> /\ wire' = <<>>
      /\ server' = <<>> /\ hungUp' = FALSE /\ awaitConn' = <<>> /\ awaitResp' = <<>>
      /\ lost' = lost \cup Waiting
      /\ UNCHANGED <<resuming, failing, inHandler, looping, again, quirk, resends, result,
                     exposed>>
      /\ UNCHANGED <<issued, silent, cseqOf, lastCSeq>>
  BY DEF Destroy, Idle, requestVars
<1>2. Done' = Done /\ Waiting' = Waiting
  BY <1>1, SameRequests
<1>3. ReqTypeOK /\ Numbered /\ Placed /\ Phases /\ Named /\ Alone
  BY DEF IInv
<1>4. ReqTypeOK'
  <2>1. Len(buffer') < Room /\ wire' \in Seq(Parts) /\ buffer' \in Seq(Parts)
        /\ awaitConn' \in Seq(Calls) /\ server' \in Seq(Calls \X CSeqs)
    BY <1>1, RoomAssumption
  <2>2. Waiting \subseteq 1 .. issued
    BY DEF Waiting
  <2> QED BY <1>1, <1>2, <1>3, <2>1, <2>2 DEF ReqTypeOK
<1>5. Numbered' /\ Alone' /\ Spared'
  BY <1>1, <1>2, <1>3 DEF Numbered, Alone, Spared
<1>6. Placed'
  <2>1. Once(<<>>) /\ ToSet(<<>>) = {}
    BY EmptyQueue
  <2>2. Partition({}, {}, {}, {}, Waiting, lost')
    BY <1>1 DEF Partition
  <2> QED BY <1>1, <1>2, <2>1, <2>2 DEF Placed
<1>7. Phases'
  BY <1>1, <1>3 DEF Phases, ConnectingWhileQueued
<1>8. LinkInv'
  <2>1. Stream' = <<>> /\ ToSet(awaitResp') = {}
    BY <1>1, EmptyQueue, ConcatEmptySeq DEF Stream
  <2> QED BY <1>1, <2>1, LinkNothing DEF LinkInv
<1>9. Named'
  <2>1. Stream' = <<>> /\ ToSet(Stream') = {}
    BY <1>1, EmptyQueue, ConcatEmptySeq DEF Stream
  <2> QED BY <2>1 DEF Named
<1>10. Settled
  BY <1>1, <1>2, <1>3 DEF Settled, ReqTypeOK, Waiting
<1> QED BY <1>4, <1>5, <1>6, <1>7, <1>8, <1>9, <1>10 DEF IInv

LEMMA ConnectionStep ==
    ASSUME IInv, ConnectionOpens \/ ConnectionFails PROVE IInv' /\ Settled
<1>1. /\ resuming = <<>> /\ failing = <<>> /\ ~looping /\ socket = "pending"
      /\ awaitConn' = <<>>
      /\ \/ socket' = "open" /\ resuming' = awaitConn /\ failing' = failing
         \/ socket' = "none" /\ failing' = awaitConn /\ resuming' = resuming
      /\ UNCHANGED <<awaitResp, inHandler, closed, buffer, looping, again, quirk, result,
                     lost, exposed>>
      /\ UNCHANGED <<issued, silent, cseqOf, lastCSeq, server, hungUp, wire, resends>>
  BY DEF ConnectionOpens, ConnectionFails, Idle, requestVars, serverVars
<1>2. Done' = Done /\ Waiting' = Waiting /\ Stream' = Stream
  BY <1>1, SameRequests DEF Stream
<1>3. ReqTypeOK /\ Numbered /\ Placed /\ Phases /\ LinkInv /\ Named /\ Alone /\ Spared
  BY DEF IInv
<1>4. ReqTypeOK'
  <2>1. /\ awaitConn' \in Seq(Calls) /\ resuming' \in Seq(Calls) /\ failing' \in Seq(Calls)
        /\ socket' \in {"none", "pending", "open"}
    BY <1>1, <1>3 DEF ReqTypeOK
  <2> QED BY <1>1, <1>2, <1>3, <2>1 DEF ReqTypeOK
<1>5. Numbered' /\ Named' /\ Alone' /\ Spared'
  BY <1>1, <1>2, <1>3 DEF Numbered, Named, Alone, Spared
<1>6. Placed'
  <2>1. Once(<<>>) /\ ToSet(<<>>) = {}
    BY EmptyQueue
  <2>2. Partition(ToSet(awaitConn), ToSet(awaitResp), {}, {}, Waiting, lost)
    BY <1>1, <1>3, <2>1 DEF Placed
  <2>3. /\ Partition({}, ToSet(awaitResp), ToSet(awaitConn), {}, Waiting, lost)
        /\ Partition({}, ToSet(awaitResp), {}, ToSet(awaitConn), Waiting, lost)
    BY <2>2 DEF Partition
  <2> QED BY <1>1, <1>2, <1>3, <2>1, <2>3 DEF Placed
<1>7. Phases'
  BY <1>1, <1>3 DEF Phases, ConnectingWhileQueued
<1>8. LinkInv'
  BY <1>1, <1>2, <1>3 DEF LinkInv, Link
<1>9. Settled
  BY <1>1, <1>2, <1>3 DEF Settled, ReqTypeOK
<1> QED BY <1>4, <1>5, <1>6, <1>7, <1>8, <1>9 DEF IInv

LEMMA FailNextStep ==
    ASSUME IInv, FailNext PROVE IInv' /\ Settled
<1> DEFINE c == Head(failing)
<1>1. /\ failing # <<>> /\ failing' = Tail(failing) /\ CallHandler(c, Error)
      /\ UNCHANGED <<awaitConn, awaitResp, resuming, closed, socket, buffer, looping, again, quirk,
                     lost, exposed>>
      /\ UNCHANGED <<issued, silent, cseqOf, lastCSeq, server, hungUp, wire, resends>>
  BY DEF FailNext, HandleRequestError, requestVars, serverVars
<1>2. ReqTypeOK /\ Numbered /\ Placed /\ Phases /\ LinkInv /\ Named /\ Alone /\ Spared
  BY DEF IInv
<1>3. /\ failing' \in Seq(Calls) /\ Once(failing') /\ c \in ToSet(failing)
      /\ ToSet(failing') = ToSet(failing) \ {c}
  BY <1>1, <1>2, TailQueue DEF ReqTypeOK, Placed
<1>4. c \in Waiting
  BY <1>2, <1>3, QueuedWait
<1> HIDE DEF c
<1>5. /\ Done' = Done \cup {c} /\ Waiting' = Waiting \ {c} /\ c \notin Done
      /\ Done' \subseteq 1 .. issued' /\ \A d \in Done' : result'[d] \in Calls \cup {Error}
      /\ result'[c] = Error /\ \A d \in Done : result'[d] = result[d]
      /\ inHandler' \in BOOLEAN
  BY <1>1, <1>2, <1>4, Called
<1>6. ReqTypeOK'
  BY <1>1, <1>2, <1>3, <1>5 DEF ReqTypeOK
<1>7. Numbered' /\ Alone'
  BY <1>1, <1>2, <1>5, AloneStays DEF Numbered
<1>8. Placed'
  <2>1. Partition(ToSet(awaitConn), ToSet(awaitResp), ToSet(resuming),
                  ToSet(failing) \ {c}, Waiting \ {c}, lost)
    BY <1>2, <1>3 DEF Placed, Partition
  <2> QED BY <1>1, <1>2, <1>3, <1>5, <2>1 DEF Placed
<1>9. Phases'
  BY <1>1, <1>2 DEF Phases, ConnectingWhileQueued
<1>10. LinkInv' /\ Named' /\ Spared'
  <2>1. Done \subseteq Done'
    BY <1>5
  <2> QED BY <1>1, <1>2, <2>1 DEF LinkInv, Named, Spared, Stream
<1>11. Settled
  BY <1>1, <1>2, <1>4, <1>5 DEF Settled, ReqTypeOK
<1> QED BY <1>6, <1>7, <1>8, <1>9, <1>10, <1>11 DEF IInv

\* What is read goes from the wire to the buffer.
LEMMA ReadStep ==
    ASSUME IInv, Read PROVE IInv' /\ Settled
<1>1. /\ resuming = <<>> /\ failing = <<>> /\ socket = "open" /\ looping' = TRUE /\ again' = FALSE
      /\ UNCHANGED <<awaitConn, awaitResp, resuming, failing, inHandler, closed, socket,
                     quirk, server, hungUp, resends, result, lost, exposed>>
      /\ UNCHANGED <<issued, silent, cseqOf, lastCSeq>>
  BY DEF Read, Idle, requestVars, queueVars
<1>2. ReqTypeOK /\ Numbered /\ Placed /\ Phases /\ LinkInv /\ Named /\ Alone /\ Spared
  BY DEF IInv
<1>3. PICK k \in 1 .. Len(wire) :
          /\ Fits(Len(buffer) + k)
          /\ buffer' = buffer \o SubSeq(wire, 1, k)
          /\ wire' = SubSeq(wire, k + 1, Len(wire))
  BY DEF Read
<1>4. /\ buffer \in Seq(Parts) /\ wire \in Seq(Parts) /\ Len(wire) \in Nat /\ Len(buffer) \in Nat
      /\ k \in 0 .. Len(wire)
  BY <1>2, SeqIs DEF ReqTypeOK
<1>5. \A i \in 1 .. k : wire[i] \in Parts
  BY <1>4, ElementOfSeq
<1>6. SubSeq(wire, 1, k) \in Seq(Parts) /\ Len(SubSeq(wire, 1, k)) = k
  BY <1>4, <1>5, SubSeqProperties
<1>7. wire' \in Seq(Parts)
  BY <1>3, <1>4, DropIs DEF Drop
<1>8. buffer' \in Seq(Parts) /\ Len(buffer') = Len(buffer) + k
  BY <1>3, <1>4, <1>6, ConcatProperties
<1>9. Len(buffer') < Room /\ buffer' # <<>>
  <2>1. Len(buffer') < Room
    BY <1>3, <1>8 DEF Fits
  <2>2. Len(buffer') # 0
    BY <1>4, <1>8
  <2> QED BY <1>8, <2>1, <2>2, EmptySeq
<1>10. Stream' = Stream
  BY <1>3, <1>4, ReadOn DEF Stream
<1>11. Done' = Done /\ Waiting' = Waiting
  BY <1>1, SameRequests
<1>12. ReqTypeOK'
  BY <1>1, <1>2, <1>7, <1>8, <1>9, <1>11 DEF ReqTypeOK
<1>13. Numbered' /\ Placed' /\ LinkInv' /\ Named' /\ Alone' /\ Spared'
  BY <1>1, <1>2, <1>10, <1>11 DEF Numbered, Placed, LinkInv, Named, Alone, Spared
<1>14. Phases'
  BY <1>1, <1>2, <1>9 DEF Phases, ConnectingWhileQueued
<1>15. Settled
  BY <1>1, <1>2, <1>11 DEF Settled, ReqTypeOK
<1> QED BY <1>12, <1>13, <1>14, <1>15 DEF IInv

LEMMA ReadFailsStep ==
    ASSUME IInv, ReadFails PROVE IInv' /\ Settled
<1>1. /\ resuming = <<>> /\ failing = <<>> /\ ~looping /\ socket = "open"
      /\ socket' = "none" /\ buffer' = <<>> /\ wire' = <<>>
      /\ server' = <<>> /\ hungUp' = FALSE /\ failing' = awaitResp /\ awaitResp' = <<>>
      /\ UNCHANGED <<awaitConn, resuming, inHandler, closed, looping, again, quirk, resends, result,
                     lost, exposed>>
      /\ UNCHANGED <<issued, silent, cseqOf, lastCSeq>>
  BY DEF ReadFails, Idle, requestVars
<1>2. ReqTypeOK /\ Numbered /\ Placed /\ Phases /\ Named /\ Alone /\ Spared
  BY DEF IInv
<1>3. Done' = Done /\ Waiting' = Waiting
  BY <1>1, SameRequests
<1>4. Stream' = <<>> /\ Once(<<>>) /\ ToSet(<<>>) = {}
  BY <1>1, EmptyQueue, ConcatEmptySeq DEF Stream
<1>5. ReqTypeOK'
  <2>1. Len(buffer') < Room /\ wire' \in Seq(Parts) /\ buffer' \in Seq(Parts)
        /\ awaitResp' \in Seq(Calls) /\ server' \in Seq(Calls \X CSeqs)
    BY <1>1, RoomAssumption
  <2>2. failing' \in Seq(Calls)
    BY <1>1, <1>2 DEF ReqTypeOK
  <2> QED BY <1>1, <1>2, <1>3, <2>1, <2>2 DEF ReqTypeOK
<1>6. Numbered' /\ Named' /\ Alone' /\ Spared'
  BY <1>1, <1>2, <1>3, <1>4 DEF Numbered, Named, Alone, Spared
<1>7. Placed'
  <2>1. Partition(ToSet(awaitConn), ToSet(awaitResp), ToSet(resuming), {}, Waiting, lost)
    BY <1>1, <1>2, <1>4 DEF Placed
  <2>2. Partition(ToSet(awaitConn), {}, ToSet(resuming), ToSet(awaitResp), Waiting, lost)
    BY <2>1 DEF Partition
  <2> QED BY <1>1, <1>2, <1>3, <1>4, <2>2 DEF Placed
<1>8. Phases'
  BY <1>1, <1>2 DEF Phases, ConnectingWhileQueued
<1>9. LinkInv'
  BY <1>1, <1>4, LinkNothing DEF LinkInv
<1>10. Settled
  BY <1>1, <1>2, <1>3 DEF Settled, ReqTypeOK
<1> QED BY <1>5, <1>6, <1>7, <1>8, <1>9, <1>10 DEF IInv

\* A request that was in no queue is sent.
LEMMA SendPlaces ==
    ASSUME ReqTypeOK, NEW c \in Calls, NEW q \in Seq(Calls), NEW W, NEW L, SendEnds(c, q),
           Once(awaitConn), Once(q), Once(resuming'), Once(failing'), c \notin W, c \notin Done,
           Partition(ToSet(awaitConn), ToSet(q), ToSet(resuming'), ToSet(failing'), W, L),
           Waiting' = IF c \in Done' THEN W ELSE W \cup {c}
    PROVE  /\ Once(awaitConn') /\ Once(awaitResp')
           /\ Partition(ToSet(awaitConn'), ToSet(awaitResp'), ToSet(resuming'), ToSet(failing'),
                        Waiting', L)
<1>1. c \notin ToSet(awaitConn) /\ c \notin ToSet(q) /\ awaitConn \in Seq(Calls)
  BY DEF Partition, ReqTypeOK
<1>2. CASE awaitConn' = Append(awaitConn, c) /\ awaitResp' = q /\ NoCall
  <2>1. Once(awaitConn') /\ ToSet(awaitConn') = ToSet(awaitConn) \cup {c}
    BY <1>1, <1>2, PosAppend
  <2>2. Waiting' = W \cup {c}
    BY <1>2 DEF NoCall, Done
  <2>3. Partition(ToSet(awaitConn) \cup {c}, ToSet(q), ToSet(resuming'), ToSet(failing'),
                  W \cup {c}, L)
    BY DEF Partition
  <2> QED BY <1>2, <2>1, <2>2, <2>3
<1>3. CASE awaitConn' = awaitConn /\ awaitResp' = Append(q, c) /\ NoCall
  <2>1. Once(awaitResp') /\ ToSet(awaitResp') = ToSet(q) \cup {c}
    BY <1>1, <1>3, PosAppend
  <2>2. Waiting' = W \cup {c}
    BY <1>3 DEF NoCall, Done
  <2>3. Partition(ToSet(awaitConn), ToSet(q) \cup {c}, ToSet(resuming'), ToSet(failing'),
                  W \cup {c}, L)
    BY DEF Partition
  <2> QED BY <1>3, <2>1, <2>2, <2>3
<1>4. CASE awaitConn' = awaitConn /\ awaitResp' = q /\ HandleRequestError(c)
  <2>1. c \in Done'
    BY <1>4, CallIs DEF HandleRequestError
  <2>2. Waiting' = W
    BY <2>1
  <2> QED BY <1>4, <2>2
<1> QED BY <1>2, <1>3, <1>4 DEF SendEnds

LEMMA SendPlaced ==
    ASSUME ReqTypeOK, NEW c \in Calls, NEW q \in Seq(Calls), NEW W, SendEnds(c, q),
           Once(awaitConn), Once(q), Once(resuming'), Once(failing'), c \notin W, c \notin Done,
           Partition(ToSet(awaitConn), ToSet(q), ToSet(resuming'), ToSet(failing'), W, lost'),
           Waiting' = IF c \in Done' THEN W ELSE W \cup {c}
    PROVE  Placed'
<1>1. /\ Once(awaitConn') /\ Once(awaitResp')
      /\ Partition(ToSet(awaitConn'), ToSet(awaitResp'), ToSet(resuming'), ToSet(failing'),
                   Waiting', lost')
  BY SendPlaces
<1> QED BY <1>1 DEF Placed

\* What is on the wire is kept or lost with the connection.
LEMMA StreamBegins ==
    ASSUME ReqTypeOK, buffer' = buffer, wire' \in {wire, <<>>}
    PROVE  /\ Stream' # <<>> => Stream # <<>> /\ Stream'[1] = Stream[1]
           /\ ToSet(Stream') \subseteq ToSet(Stream)
<1>1. CASE wire' = wire
  BY <1>1 DEF Stream
<1>2. CASE wire' = <<>>
  <2>1. buffer \in Seq(Parts) /\ wire \in Seq(Parts)
    BY DEF ReqTypeOK
  <2>2. Stream' = buffer
    BY <1>2, <2>1, ConcatEmptySeq DEF Stream
  <2>3. buffer # <<>> => 1 \in 1 .. Len(buffer) /\ Stream[1] = buffer[1] /\ 1 \in DOMAIN Stream
    BY StreamIs
  <2>4. ToSet(buffer) \subseteq ToSet(Stream)
    BY <2>1, ConcatIs DEF Stream
  <2> QED BY <2>2, <2>3, <2>4
<1> QED BY <1>1, <1>2

LEMMA SendQueues ==
    ASSUME ReqTypeOK, NEW c \in Calls, NEW q \in Seq(Calls), SendEnds(c, q)
    PROVE  awaitConn' \in Seq(Calls) /\ awaitResp' \in Seq(Calls)
<1>1. awaitConn \in Seq(Calls)
  BY DEF ReqTypeOK
<1>2. Append(awaitConn, c) \in Seq(Calls) /\ Append(q, c) \in Seq(Calls)
  BY <1>1, AppendProperties
<1> QED BY <1>1, <1>2 DEF SendEnds

\* A request is issued, and fails at once or waits.
Started ==
    /\ issued' = issued + 1 /\ issued' \in Calls /\ lost' = lost
    /\ \A d \in Done : result'[d] = result[d]
    /\ \/ result' = result
       \/ Done' = Done \cup {issued'} /\ result'[issued'] = Error

LEMMA IssueStep ==
    ASSUME IInv, Issue PROVE IInv' /\ Started
<1> DEFINE c == issued'
<1>1. /\ Idle \/ inHandler
      /\ issued < MaxCalls /\ issued' = issued + 1
      /\ silent' \in {silent, silent \cup {c}}
      /\ lastCSeq' = lastCSeq + 1 /\ cseqOf' = [cseqOf EXCEPT ![c] = lastCSeq']
      /\ SendRequest(c, awaitResp, socket)
      /\ exposed' = IF Waiting = {} THEN exposed
                       ELSE exposed \cup Waiting \cup {c}
      /\ UNCHANGED <<resuming, failing, closed, buffer, looping, again, quirk, resends, lost>>
      /\ quirk = "noCSeq" => Waiting = {}
  BY DEF Issue
<1>2. ReqTypeOK /\ Numbered /\ Placed /\ Phases /\ LinkInv /\ Named /\ Alone /\ Spared
  BY DEF IInv
<1>3. /\ issued \in Nat /\ c \in Calls /\ c \notin 1 .. issued /\ 1 .. c = (1 .. issued) \cup {c}
      /\ issued \in 0 .. MaxCalls /\ issued' \in 0 .. MaxCalls
      /\ lastCSeq \in Nat /\ lastCSeq' \in CSeqs /\ lastCSeq' \in CSeqs \cup {NoCSeq}
  <2>1. issued \in Nat /\ MaxCalls \in Nat /\ lastCSeq \in Nat
    BY <1>2, BoundsAssumption DEF ReqTypeOK, CSeqs, NoCSeq
  <2> QED BY <1>1, <2>1 DEF Calls, CSeqs
<1>4. /\ Done \subseteq 1 .. issued /\ Waiting \subseteq 1 .. issued /\ lost \subseteq 1 .. issued
      /\ c \notin Done /\ c \notin Waiting /\ c \notin lost
  BY <1>2, <1>3 DEF ReqTypeOK, Waiting
<1>5. /\ cseqOf' \in [Calls -> CSeqs \cup {NoCSeq}] /\ cseqOf'[c] = lastCSeq'
      /\ \A d \in 1 .. issued : cseqOf'[d] = cseqOf[d]
  BY <1>1, <1>2, <1>3 DEF ReqTypeOK, Calls
<1>6. /\ awaitResp \in Seq(Calls) /\ ToSet(awaitResp) \subseteq Waiting
      /\ Once(awaitResp) /\ Once(awaitConn)
      /\ socket \in {"none", "pending", "open"} /\ buffer' \in Seq(Parts)
  BY <1>1, <1>2, QueuedWait DEF ReqTypeOK, Placed
<1>7. (awaitConn # <<>>) <=> (socket = "pending")
  BY <1>2 DEF Phases, ConnectingWhileQueued
<1>8. socket # "open" => wire = <<>>
  BY <1>2 DEF Phases
<1> HIDE DEF c
<1>9. /\ SendEnds(c, awaitResp)
      /\ socket' \in {"none", "pending", "open"}
      /\ (awaitConn' # <<>>) <=> (socket' = "pending")
      /\ socket' # "open" => wire' = <<>>
      /\ socket = "open" => socket' = "open"
      /\ wire' \in {wire, <<>>} /\ wire' \in Seq(Parts)
      /\ server' \in Seq(Calls \X CSeqs) /\ hungUp' \in BOOLEAN
  BY <1>1, <1>2, <1>3, <1>5, <1>6, <1>7, <1>8, SendIs
<1>10. /\ \A d \in Done : result'[d] = result[d]
       /\ \/ result' = result /\ inHandler' = inHandler
          \/ /\ Done' = Done \cup {c} /\ result'[c] = Error
             /\ \A d \in Done' : result'[d] \in Calls \cup {Error}
             /\ inHandler' \in BOOLEAN
  <2>1. CASE NoCall
    BY <2>1 DEF NoCall
  <2>2. CASE HandleRequestError(c)
    BY <1>2, <1>4, <2>2, CallIs DEF HandleRequestError
  <2> QED BY <1>9, <2>1, <2>2 DEF SendEnds
<1>11. Started
  BY <1>1, <1>3, <1>10 DEF Started, c
<1>12. Waiting' = IF c \in Done' THEN Waiting ELSE Waiting \cup {c}
  <2>1. Waiting' = (1 .. c) \ Done'
    BY DEF Waiting, c
  <2>2. Done' = Done \/ Done' = Done \cup {c}
    BY <1>10 DEF Done
  <2> QED BY <1>3, <1>4, <2>1, <2>2 DEF Waiting
<1>13. ReqTypeOK'
  <2>1. awaitConn' \in Seq(Calls) /\ awaitResp' \in Seq(Calls)
    BY <1>2, <1>3, <1>6, <1>9, SendQueues
  <2>2. silent' \subseteq 1 .. issued' /\ lost' \subseteq 1 .. issued'
        /\ exposed' \subseteq 1 .. issued'
    BY <1>1, <1>2, <1>3, <1>4 DEF ReqTypeOK, c
  <2>3. /\ Done' \subseteq 1 .. issued' /\ inHandler' \in BOOLEAN
        /\ \A d \in Done' : result'[d] \in Calls \cup {Error}
    <3>1. CASE result' = result /\ inHandler' = inHandler
      BY <1>2, <1>3, <1>4, <3>1 DEF ReqTypeOK, Done, c
    <3>2. CASE /\ Done' = Done \cup {c} /\ inHandler' \in BOOLEAN
               /\ \A d \in Done' : result'[d] \in Calls \cup {Error}
      BY <1>3, <1>4, <3>2 DEF c
    <3> QED BY <1>10, <3>1, <3>2
  <2> QED BY <1>1, <1>2, <1>3, <1>5, <1>9, <2>1, <2>2, <2>3 DEF ReqTypeOK
<1>14. Numbered'
  <2>1. \A d \in 1 .. issued : cseqOf[d] \in 1 .. lastCSeq
    BY <1>2 DEF Numbered
  <2>2. \A d \in 1 .. issued : cseqOf'[d] \in 1 .. lastCSeq' /\ cseqOf'[d] # lastCSeq'
    BY <1>1, <1>3, <1>5, <2>1
  <2>3. lastCSeq' \in 1 .. lastCSeq'
    BY <1>3 DEF CSeqs
  <2>4. \A d \in 1 .. issued' : d \in 1 .. issued \/ d = c
    BY <1>3 DEF c
  <2>5. \A d, e \in 1 .. issued : cseqOf'[d] = cseqOf'[e] => d = e
    BY <1>2, <1>5 DEF Numbered
  <2> QED BY <1>5, <2>2, <2>3, <2>4, <2>5 DEF Numbered
<1>15. Placed'
  <2>1. Partition(ToSet(awaitConn), ToSet(awaitResp), ToSet(resuming'), ToSet(failing'),
                  Waiting, lost') /\ Once(resuming') /\ Once(failing')
    BY <1>1, <1>2 DEF Placed
  <2> QED BY <1>2, <1>3, <1>4, <1>6, <1>9, <1>12, <2>1, SendPlaced
<1>16. Phases'
  BY <1>1, <1>2, <1>9 DEF Phases, ConnectingWhileQueued
<1>17. LinkInv'
  <2>1. \A d \in ToSet(awaitResp) : cseqOf'[d] = cseqOf[d]
    BY <1>4, <1>5, <1>6
  <2>2. Link(Stream, server, hungUp, awaitResp, lost', cseqOf', socket, quirk)
    BY <1>1, <1>2, <2>1, LinkCs DEF LinkInv
  <2>3. ASSUME socket = "none"
        PROVE  Link(buffer', <<>>, FALSE, awaitResp, lost', cseqOf', "none", quirk)
    <3>1. Stream = buffer'
      BY <1>1, <1>2, <1>8, <2>3, StreamIs
    <3>2. server = <<>> /\ hungUp = FALSE
      BY <1>2, <2>2, <2>3 DEF Link, Cut, ReqTypeOK
    <3> QED BY <2>2, <2>3, <3>1, <3>2
  <2>4. Stream = buffer' \o wire
    BY <1>1 DEF Stream
  <2>5. cseqOf'[c] \in CSeqs /\ c \notin ToSet(awaitResp) /\ quirk' = quirk
    BY <1>1, <1>3, <1>4, <1>5, <1>6
  <2> QED BY <1>1, <1>2, <1>3, <1>6, <1>7, <2>2, <2>3, <2>4, <2>5, SendLink
<1>18. Alone'
  <2>1. Waiting' \subseteq Waiting \cup {c}
    BY <1>12
  <2>2. CASE Waiting = {}
    BY <2>1, <2>2 DEF Alone
  <2>3. CASE Waiting # {}
    BY <1>1, <2>1, <2>3 DEF Alone
  <2> QED BY <2>2, <2>3
<1>19. Spared'
  <2> SUFFICES ASSUME ~closed
               PROVE  /\ lost \subseteq exposed'
                      /\ Stream' # <<>> /\ Stream'[1].kind = "tail" =>
                            Stream'[1].call \in lost \cup Done'
    BY <1>1 DEF Spared
  <2>1. exposed \subseteq exposed'
    BY <1>1
  <2>2. Done \subseteq Done'
    <3>1. CASE result' = result
      BY <3>1 DEF Done
    <3> QED BY <1>10, <3>1
  <2>3. Stream' # <<>> => Stream # <<>> /\ Stream'[1] = Stream[1]
    BY <1>1, <1>2, <1>9, StreamBegins
  <2> QED BY <1>2, <2>1, <2>2, <2>3 DEF Spared
<1>20. Named'
  <2>1. ToSet(Stream') \subseteq ToSet(Stream)
    BY <1>1, <1>2, <1>9, StreamBegins
  <2>2. \A n \in 0 .. issued : n \in 0 .. issued'
    BY <1>1, <1>3
  <2> QED BY <1>2, <2>1, <2>2 DEF Named
<1> QED BY <1>11, <1>13, <1>14, <1>15, <1>16, <1>17, <1>18, <1>19, <1>20 DEF IInv

LEMMA ResumeStep ==
    ASSUME IInv, Resume PROVE IInv' /\ Settled
<1> DEFINE c == Head(resuming)
<1>1. /\ resuming # <<>> /\ resuming' = Tail(resuming)
      /\ UNCHANGED <<failing, closed, buffer, looping, again, quirk, resends, lost, exposed>>
      /\ UNCHANGED <<issued, silent, cseqOf, lastCSeq>>
      /\ SendRequest(c, awaitResp, socket)
  BY DEF Resume, requestVars
<1>2. ReqTypeOK /\ Numbered /\ Placed /\ Phases /\ LinkInv /\ Named /\ Alone /\ Spared
  BY DEF IInv
<1>3. /\ resuming' \in Seq(Calls) /\ Once(resuming') /\ c \in ToSet(resuming) /\ c \in Calls
      /\ ToSet(resuming') = ToSet(resuming) \ {c}
  BY <1>1, <1>2, TailQueue DEF ReqTypeOK, Placed
<1>4. /\ c \in Waiting /\ c \in 1 .. issued /\ c \notin Done
      /\ awaitResp \in Seq(Calls) /\ Once(awaitResp) /\ Once(awaitConn) /\ Once(failing)
      /\ c \notin ToSet(awaitResp)
  BY <1>2, <1>3, QueuedWait DEF Placed, Partition, Waiting
<1>5. cseqOf'[c] \in CSeqs
  BY <1>1, <1>2, <1>4, BoundsAssumption DEF Numbered, CSeqs, ReqTypeOK, NoCSeq
<1>6. (awaitConn # <<>>) <=> (socket = "pending")
  BY <1>2 DEF Phases, ConnectingWhileQueued
<1>7. socket = "open" /\ failing = <<>> /\ ~looping
  BY <1>1, <1>2 DEF Phases
<1> HIDE DEF c
<1>8. /\ SendEnds(c, awaitResp)
      /\ (awaitConn' # <<>>) <=> (socket' = "pending")
      /\ socket' = "open"
      /\ wire' \in {wire, <<>>} /\ wire' \in Seq(Parts)
      /\ server' \in Seq(Calls \X CSeqs) /\ hungUp' \in BOOLEAN
  <2>1. socket \in {"none", "pending", "open"}
    BY <1>7
  <2> QED BY <1>1, <1>2, <1>3, <1>4, <1>5, <1>6, <1>7, <2>1, SendIs
<1>9. \/ result' = result /\ inHandler' = inHandler
      \/ /\ Done' = Done \cup {c} /\ Waiting' = Waiting \ {c}
         /\ Done' \subseteq 1 .. issued' /\ \A d \in Done' : result'[d] \in Calls \cup {Error}
         /\ result'[c] = Error /\ \A d \in Done : result'[d] = result[d]
         /\ inHandler' \in BOOLEAN
  <2>1. CASE NoCall
    BY <2>1 DEF NoCall
  <2>2. CASE HandleRequestError(c)
    BY <1>1, <1>2, <1>4, <2>2, Called DEF HandleRequestError
  <2> QED BY <1>8, <2>1, <2>2 DEF SendEnds
<1>10. Waiting' = IF c \in Done' THEN Waiting \ {c} ELSE (Waiting \ {c}) \cup {c}
  <2>1. CASE result' = result
    BY <1>1, <1>4, <2>1, SameRequests
  <2>2. CASE Done' = Done \cup {c} /\ Waiting' = Waiting \ {c}
    BY <2>2
  <2> QED BY <1>9, <2>1, <2>2
<1>11. ReqTypeOK'
  <2>1. awaitConn' \in Seq(Calls) /\ awaitResp' \in Seq(Calls)
    BY <1>2, <1>3, <1>4, <1>8, SendQueues
  <2>2. /\ Done' \subseteq 1 .. issued' /\ inHandler' \in BOOLEAN
        /\ \A d \in Done' : result'[d] \in Calls \cup {Error}
    <3>1. CASE result' = result /\ inHandler' = inHandler
      BY <1>1, <1>2, <3>1 DEF ReqTypeOK, Done
    <3> QED BY <1>9, <3>1
  <2> QED BY <1>1, <1>2, <1>3, <1>8, <2>1, <2>2 DEF ReqTypeOK
<1>12. Placed'
  <2>1. Partition(ToSet(awaitConn), ToSet(awaitResp), ToSet(resuming'), ToSet(failing'),
                  Waiting \ {c}, lost') /\ Once(failing')
    BY <1>1, <1>2, <1>3, <1>4 DEF Placed, Partition
  <2>2. c \notin Waiting \ {c}
    OBVIOUS
  <2> QED BY <1>2, <1>3, <1>4, <1>8, <1>10, <2>1, <2>2, SendPlaced
<1>13. Phases'
  BY <1>1, <1>2, <1>7, <1>8 DEF Phases, ConnectingWhileQueued
<1>14. LinkInv'
  <2>1. Link(buffer' \o wire, server, hungUp, awaitResp, lost', cseqOf', socket, quirk)
    BY <1>1, <1>2 DEF LinkInv, Stream
  <2>2. buffer' \in Seq(Parts) /\ quirk' = quirk /\ socket # "none"
        /\ socket \in {"none", "pending", "open"}
    BY <1>1, <1>2, <1>7 DEF ReqTypeOK
  <2> QED BY <1>1, <1>2, <1>3, <1>4, <1>5, <1>6, <2>1, <2>2, SendLink
<1>15. Numbered' /\ Alone'
  <2>1. Waiting' \subseteq Waiting
    BY <1>4, <1>10
  <2> QED BY <1>1, <1>2, <2>1, AloneStays DEF Numbered
<1>16. Spared'
  <2>1. Done \subseteq Done'
    <3>1. CASE result' = result
      BY <3>1 DEF Done
    <3> QED BY <1>9, <3>1
  <2>2. Stream' # <<>> => Stream # <<>> /\ Stream'[1] = Stream[1]
    BY <1>1, <1>2, <1>8, StreamBegins
  <2> QED BY <1>1, <1>2, <2>1, <2>2 DEF Spared
<1>17. Settled
  <2>1. CASE result' = result
    BY <1>1, <1>2, <2>1, SameRequests DEF Settled, ReqTypeOK
  <2>2. CASE /\ Done' = Done \cup {c}
             /\ result'[c] = Error /\ \A d \in Done : result'[d] = result[d]
    BY <1>1, <1>2, <1>4, <2>2 DEF Settled, ReqTypeOK
  <2> QED BY <1>9, <2>1, <2>2
<1>18. Named'
  <2>1. ToSet(Stream') \subseteq ToSet(Stream)
    BY <1>1, <1>2, <1>8, StreamBegins
  <2> QED BY <1>1, <1>2, <2>1, NamedStays
<1> QED BY <1>11, <1>12, <1>13, <1>14, <1>15, <1>16, <1>17, <1>18 DEF IInv

LEMMA SkipStep ==
    ASSUME IInv, Skip PROVE IInv' /\ Settled
<1> DEFINE c == Head(server)[1]
<1>1. /\ quirk = "skips" /\ server # <<>> /\ server' = Tail(server)
      /\ lost' = lost \cup ({c} \ Done) /\ exposed' = exposed \cup {c}
      /\ UNCHANGED <<awaitConn, awaitResp, resuming, failing, inHandler, closed, socket,
                     buffer, looping, again, quirk, hungUp, wire, resends, result>>
      /\ UNCHANGED <<issued, silent, cseqOf, lastCSeq>>
  BY DEF Skip, requestVars, queueVars
<1>2. ReqTypeOK /\ Numbered /\ Placed /\ Phases /\ LinkInv /\ Named /\ Alone /\ Spared
  BY DEF IInv
<1>3. Done' = Done /\ Waiting' = Waiting /\ Stream' = Stream
  BY <1>1, SameRequests DEF Stream
<1>4. /\ server \in Seq(Calls \X CSeqs) /\ awaitResp \in Seq(Calls) /\ Once(awaitResp)
      /\ ToSet(awaitResp) \subseteq Waiting /\ Waiting \subseteq 1 .. issued
  BY <1>2, QueuedWait DEF ReqTypeOK, Placed
<1>5. server' \in Seq(Calls \X CSeqs) /\ c = server[1][1] /\ 1 \in DOMAIN server
  BY <1>1, <1>4, TailIs
<1>6. c \in Waiting /\ c \in lost' /\ c \in 1 .. issued
  <2>1. c \in ToSet(awaitResp)
    BY <1>2, <1>5 DEF LinkInv, Link, Order
  <2>2. c \in Waiting
    BY <1>4, <2>1
  <2> QED BY <1>1, <1>4, <2>2 DEF Waiting
<1>7. LinkInv'
  <2>1. Link(Stream, Tail(server), hungUp, awaitResp, lost', cseqOf, socket, quirk)
    BY <1>1, <1>2, <1>4, <1>5, <1>6, LinkSkip DEF LinkInv
  <2> QED BY <1>1, <1>3, <2>1 DEF LinkInv
<1> HIDE DEF c
<1>8. ReqTypeOK'
  BY <1>1, <1>2, <1>3, <1>5, <1>6 DEF ReqTypeOK
<1>9. Numbered' /\ Named' /\ Alone' /\ Spared'
  BY <1>1, <1>2, <1>3 DEF Numbered, Named, Alone, Spared
<1>10. Placed'
  <2>1. lost \subseteq lost'
    BY <1>1
  <2>2. Partition(ToSet(awaitConn), ToSet(awaitResp), ToSet(resuming), ToSet(failing),
                  Waiting, lost')
    BY <1>2, <2>1 DEF Placed, Partition
  <2> QED BY <1>1, <1>2, <1>3, <2>2 DEF Placed
<1>11. Phases'
  BY <1>1, <1>2 DEF Phases, ConnectingWhileQueued
<1>12. Settled
  BY <1>1, <1>2, <1>3, <1>6 DEF Settled, ReqTypeOK
<1> QED BY <1>7, <1>8, <1>9, <1>10, <1>11, <1>12 DEF IInv

\* Parts arrive behind what is there.
LEMMA Arrive ==
    ASSUME ReqTypeOK, NEW T \in Seq(Parts), T # <<>>, buffer' = buffer, wire' = wire \o T
    PROVE  /\ wire' \in Seq(Parts) /\ Stream' = Stream \o T
           /\ Stream'[1] = IF Stream = <<>> THEN T[1] ELSE Stream[1]
           /\ ToSet(Stream') = ToSet(Stream) \cup ToSet(T)
<1>1. buffer \in Seq(Parts) /\ wire \in Seq(Parts) /\ wire' \in Seq(Parts)
  BY ConcatProperties DEF ReqTypeOK
<1>2. Stream' = Stream \o T
  BY <1>1, ConcatAssociative DEF Stream
<1>3. Stream \in Seq(Parts) /\ ToSet(Stream \o T) = ToSet(Stream) \cup ToSet(T)
  BY StreamIs, ConcatIs
<1>4. CASE Stream = <<>>
  <2>1. Stream \o T = T
    BY <1>4, ConcatEmptySeq
  <2> QED BY <1>1, <1>2, <1>3, <1>4, <2>1
<1>5. CASE Stream # <<>>
  <2>1. 1 \in 1 .. Len(Stream)
    BY <1>3, <1>5, TailIs
  <2>2. (Stream \o T)[1] = Stream[1]
    BY <1>3, <2>1, ConcatIs
  <2> QED BY <1>1, <1>2, <1>3, <1>5, <2>2
<1> QED BY <1>4, <1>5

LEMMA AnswerStep ==
    ASSUME IInv, Answer, Orderly PROVE IInv' /\ Settled
<1>1. /\ server # <<>>
      /\ UNCHANGED <<awaitConn, awaitResp, resuming, failing, inHandler, closed, socket,
                     buffer, looping, again, quirk, result, lost, exposed>>
      /\ UNCHANGED <<issued, silent, cseqOf, lastCSeq>>
  BY DEF Answer, requestVars, queueVars
<1>2. ReqTypeOK /\ Numbered /\ Placed /\ Phases /\ LinkInv /\ Named /\ Alone /\ Spared
  BY DEF IInv
<1>3. PICK code \in Codes, close \in BOOLEAN, split \in BOOLEAN, hide \in BOOLEAN : LET
           m == [kind |-> IF split THEN "head" ELSE "whole", call |-> Head(server)[1],
                 cseq |-> IF hide THEN NoCSeq ELSE Head(server)[2],
                 code |-> code, close |-> close]
       IN
        /\ hide => quirk = "noCSeq"
        /\ code = "bad" => \/ quirk = "bad" /\ buffer \o wire = <<>>
                           \/ quirk = "badLate"
        /\ close /\ split => quirk = "splitClose"
        /\ code \in {"retry", "redirect"} => resends < MaxResends
        /\ resends' = IF code \in {"retry", "redirect"} THEN resends + 1 ELSE resends
        /\ wire' = wire \o IF split THEN <<m, [m EXCEPT !.kind = "tail"]>> ELSE <<m>>
        /\ server' = IF close THEN <<>> ELSE Tail(server)
        /\ hungUp' = close
  BY DEF Answer
<1> DEFINE m == [kind |-> IF split THEN "head" ELSE "whole", call |-> Head(server)[1],
                 cseq |-> IF hide THEN NoCSeq ELSE Head(server)[2],
                 code |-> code, close |-> close]
           t == [m EXCEPT !.kind = "tail"]
           T == IF split THEN <<m, t>> ELSE <<m>>
<1>4. /\ server \in Seq(Calls \X CSeqs) /\ awaitResp \in Seq(Calls) /\ Once(awaitResp)
      /\ Stream \in Seq(Parts)
  BY <1>2, StreamIs DEF ReqTypeOK, Placed
<1>5. /\ Head(server) = server[1] /\ Head(server) \in Calls \X CSeqs
      /\ Tail(server) \in Seq(Calls \X CSeqs)
  BY <1>1, <1>4, TailIs
<1>6. m \in Parts /\ t \in Parts
  <2>1. Head(server)[1] \in Calls /\ Head(server)[2] \in CSeqs
    BY <1>5
  <2> QED BY <2>1 DEF Parts, Kinds
<1>7. /\ wire' = wire \o T /\ hungUp' = m.close
      /\ server' = IF m.close THEN <<>> ELSE Tail(server)
  BY <1>3
<1>8. /\ T \in Seq(Parts) /\ Len(T) \in {1, 2} /\ T[1] = m /\ T # <<>>
      /\ m.kind = "head" <=> Len(T) = 2
      /\ Len(T) = 2 => T[2].kind = "tail" /\ T[2].call = m.call /\ T[2].code = m.code
  <2>1. t.kind = "tail" /\ t.call = m.call /\ t.code = m.code
    OBVIOUS
  <2>2. CASE split
    <3>1. T = <<m, t>> /\ m.kind = "head"
      BY <2>2
    <3> HIDE DEF m, t, T
    <3> QED BY <1>6, <2>1, <3>1
  <2>3. CASE ~split
    <3>1. T = <<m>> /\ m.kind = "whole"
      BY <2>3
    <3> HIDE DEF m, t, T
    <3> QED BY <1>6, <3>1
  <2> QED BY <2>2, <2>3
<1>9. /\ IsAnswerPart(m) /\ m.call = server[1][1] /\ m.cseq \in {server[1][2], NoCSeq}
      /\ m.cseq = NoCSeq => quirk = "noCSeq"
      /\ m.code = "bad" => quirk = "bad" /\ Stream = <<>>
      /\ m.close => m.kind = "whole"
  <2>1. Head(server)[2] # NoCSeq
    BY <1>5 DEF CSeqs, NoCSeq
  <2> QED BY <1>3, <1>5, <1>7, <2>1 DEF IsAnswerPart, Orderly, Stream
<1> HIDE DEF m, t, T
<1>10. /\ wire' \in Seq(Parts) /\ Stream' = Stream \o T
       /\ Stream'[1] = m \/ (Stream # <<>> /\ Stream'[1] = Stream[1])
       /\ ToSet(Stream') = ToSet(Stream) \cup ToSet(T)
  <2>1. /\ wire' \in Seq(Parts) /\ Stream' = Stream \o T
        /\ Stream'[1] = IF Stream = <<>> THEN T[1] ELSE Stream[1]
        /\ ToSet(Stream') = ToSet(Stream) \cup ToSet(T)
    BY <1>1, <1>2, <1>7, <1>8, Arrive
  <2> QED BY <1>8, <2>1
<1>11. LinkInv'
  <2>1. Link(Stream, server, hungUp, awaitResp, lost, cseqOf, socket, quirk)
    BY <1>2 DEF LinkInv
  <2>2. Link(Stream \o T, IF m.close THEN <<>> ELSE Tail(server), m.close, awaitResp, lost,
             cseqOf, socket, quirk)
    BY <1>1, <1>4, <1>6, <1>8, <1>9, <2>1, LinkAnswer
  <2> QED BY <1>1, <1>7, <1>10, <2>2 DEF LinkInv
<1>12. Done' = Done /\ Waiting' = Waiting
  BY <1>1, SameRequests
<1>13. ReqTypeOK'
  <2>1. resends' \in 0 .. MaxResends
    BY <1>2, <1>3, BoundsAssumption DEF ReqTypeOK
  <2>2. server' \in Seq(Calls \X CSeqs) /\ hungUp' \in BOOLEAN
    BY <1>3, <1>5
  <2> QED BY <1>1, <1>2, <1>10, <1>12, <2>1, <2>2 DEF ReqTypeOK
<1>14. Numbered' /\ Placed' /\ Alone'
  BY <1>1, <1>2, <1>12 DEF Numbered, Placed, Alone
<1>15. Spared'
  <2>1. m.kind # "tail"
    BY <1>9 DEF IsAnswerPart
  <2> QED BY <1>1, <1>2, <1>10, <1>12, <2>1 DEF Spared
<1>16. Phases'
  <2>1. socket = "open"
    BY <1>1, <1>2 DEF LinkInv, Link, Cut
  <2> QED BY <1>1, <1>2, <2>1 DEF Phases, ConnectingWhileQueued
<1>17. Settled
  BY <1>1, <1>2, <1>12 DEF Settled, ReqTypeOK
<1>18. Named'
  <2>1. server[1][1] \in 1 .. issued
    <3>1. ToSet(awaitResp) \subseteq 1 .. issued
      BY <1>2, QueuedWait
    <3>2. 1 \in DOMAIN server
      BY <1>1, <1>4, TailIs
    <3> QED BY <1>2, <3>1, <3>2 DEF LinkInv, Link, Order
  <2>0. m.kind # "alien"
    BY <1>9 DEF IsAnswerPart
  <2>2. ASSUME NEW p \in ToSet(T) PROVE p.call = m.call /\ p.kind # "alien"
    <3>1. ToSet(T) = {T[i] : i \in 1 .. Len(T)}
      BY <1>8, SeqIs
    <3>2. PICK i \in 1 .. Len(T) : p = T[i]
      BY <3>1
    <3>3. Len(T) \in {1, 2}
      BY <1>8
    <3>4. i = 1 \/ (i = 2 /\ Len(T) = 2)
      BY <3>2, <3>3
    <3> QED BY <1>8, <2>0, <3>2, <3>4
  <2>3. m.call \in 0 .. issued
    BY <1>9, <2>1
  <2>4. \A p \in ToSet(Stream') : p.call \in 0 .. issued /\ (p.kind = "alien" => p.call = 0)
    BY <1>2, <1>10, <2>2, <2>3 DEF Named
  <2> QED BY <1>1, <2>4 DEF Named
<1> QED BY <1>11, <1>13, <1>14, <1>15, <1>16, <1>17, <1>18 DEF IInv

LEMMA AskStep ==
    ASSUME IInv, Ask PROVE IInv' /\ Settled
<1> DEFINE a == [kind |-> "alien", call |-> 0, cseq |-> NoCSeq, code |-> "ok", close |-> FALSE]
<1>1. /\ quirk = "alien" /\ socket = "open" /\ wire' = Append(wire, a) /\ ~hungUp
      /\ \A p \in ToSet(Stream) : p.kind # "alien"
      /\ UNCHANGED <<awaitConn, awaitResp, resuming, failing, inHandler, closed, socket,
                     buffer, looping, again, quirk, server, hungUp, resends, result, lost,
                     exposed>>
      /\ UNCHANGED <<issued, silent, cseqOf, lastCSeq>>
  BY DEF Ask, requestVars, queueVars, Stream
<1>2. ReqTypeOK /\ Numbered /\ Placed /\ Phases /\ LinkInv /\ Named /\ Alone /\ Spared
  BY DEF IInv
<1>3. a \in Parts /\ a.kind = "alien" /\ a.code # "bad"
  BY DEF Parts, Kinds, Codes
<1> HIDE DEF a
<1>4. buffer \in Seq(Parts) /\ wire \in Seq(Parts) /\ Stream \in Seq(Parts)
  BY <1>2, StreamIs DEF ReqTypeOK
<1>5. wire' \in Seq(Parts) /\ Stream' = Append(Stream, a)
  BY <1>1, <1>3, <1>4, AppendProperties, AppendLast DEF Stream
<1>6. \A i \in DOMAIN Stream : Stream[i].kind # "alien"
  BY <1>1 DEF ToSet
<1>7. LinkInv'
  <2>1. Link(Stream, server, hungUp, awaitResp, lost, cseqOf, socket, quirk)
    BY <1>2 DEF LinkInv
  <2>2. Link(Append(Stream, a), server, hungUp, awaitResp, lost, cseqOf, socket, quirk)
    BY <1>1, <1>3, <1>4, <1>6, <2>1, LinkAlien
  <2> QED BY <1>1, <1>5, <2>2 DEF LinkInv
<1>8. Done' = Done /\ Waiting' = Waiting
  BY <1>1, SameRequests
<1>9. ReqTypeOK'
  BY <1>1, <1>2, <1>5, <1>8 DEF ReqTypeOK
<1>10. Numbered' /\ Placed' /\ Alone'
  BY <1>1, <1>2, <1>8 DEF Numbered, Placed, Alone
<1>11. Phases'
  BY <1>1, <1>2 DEF Phases, ConnectingWhileQueued
<1>12. Settled
  BY <1>1, <1>2, <1>8 DEF Settled, ReqTypeOK
<1>13. Named'
  <2>1. a.call = 0 /\ \A p \in ToSet(<<a>>) : p = a
    BY DEF a, ToSet
  <2>2. ToSet(Stream') = ToSet(Stream) \cup ToSet(<<a>>)
    <3>1. <<a>> \in Seq(Parts) /\ Append(Stream, a) = Stream \o <<a>>
      BY <1>3, <1>4, AppendIsConcat
    <3> QED BY <1>4, <1>5, <3>1, ConcatIs
  <2>3. 0 \in 0 .. issued
    BY <1>2, BoundsAssumption DEF ReqTypeOK
  <2> QED BY <1>1, <1>2, <2>1, <2>2, <2>3 DEF Named
<1>14. Spared'
  <2>1. Stream'[1] = IF Stream = <<>> THEN a ELSE Stream[1]
    BY <1>3, <1>4, <1>5, AppendProperties
  <2> QED BY <1>1, <1>2, <1>3, <1>8, <2>1 DEF Spared
<1> QED BY <1>7, <1>9, <1>10, <1>11, <1>12, <1>13, <1>14 DEF IInv

-----------------------------------------------------------------------------
(* What is taken from the front of what is on its way.                      *)

LEMMA RestIs ==
    ASSUME NEW S, NEW s \in Seq(S), NEW n \in 0 .. Len(s)
    PROVE  /\ ToSet(Drop(s, n)) \subseteq ToSet(s)
           /\ Drop(s, n) # <<>> => n + 1 \in DOMAIN s /\ Drop(s, n)[1] = s[n + 1]
<1> DEFINE e == Drop(s, n)
           l == Len(s)
<1>1. /\ e \in Seq(S) /\ Len(e) = l - n
      /\ \A i \in 1 .. l - n : e[i] = s[n + i]
  BY DropIs
<1>2. l \in Nat /\ DOMAIN s = 1 .. l /\ ToSet(s) = {s[i] : i \in 1 .. l} /\ n \in 0 .. l
  BY SeqIs
<1>3. ToSet(e) = {e[i] : i \in 1 .. l - n} /\ (e = <<>> <=> l - n = 0)
  <2>1. e \in Seq(S)
    BY <1>1
  <2>2. ToSet(e) = {e[i] : i \in 1 .. Len(e)}
    BY <2>1, SeqIs
  <2>3. e = <<>> <=> Len(e) = 0
    BY <2>1, SeqIs
  <2> QED BY <1>1, <2>2, <2>3
<1> HIDE DEF e, l
<1>4. ASSUME NEW i \in 1 .. l - n PROVE e[i] \in ToSet(s)
  <2>1. n + i \in 1 .. l
    BY <1>2
  <2> QED BY <1>1, <1>2, <2>1
<1>5. ASSUME e # <<>> PROVE n + 1 \in 1 .. l /\ 1 \in 1 .. l - n
  BY <1>2, <1>3, <1>5
<1> QED BY <1>1, <1>2, <1>3, <1>4, <1>5 DEF e

LEMMA FrontCalls ==
    ASSUME NEW P, NEW F \in Seq(Parts), \A i \in 1 .. Len(F) : F[i] = P[i]
    PROVE  \A c : c \in CallsIn(F) <=> c # 0 /\ \E i \in 1 .. Len(F) : P[i].call = c
<1>1. ToSet(F) = {F[i] : i \in 1 .. Len(F)}
  BY SeqIs
<1> QED BY <1>1 DEF CallsIn

\* Answers are for requests that wait for them, and so is the rest of one whose
\* header is there.
LEMMA AnswersWait ==
    ASSUME ReqTypeOK, Placed, LinkInv
    PROVE  /\ \A i \in Answers(Stream) :
                 /\ i \in DOMAIN Stream
                 /\ Stream[i].call \in ToSet(awaitResp) /\ Stream[i].call \in Waiting
                 /\ Stream[i].call \in 1 .. issued
                 /\ Stream[i].call # 0 /\ Stream[i].call \notin Done
           /\ \A i \in DOMAIN Stream :
                 \/ Stream[i].kind = "alien" /\ quirk = "alien"
                 \/ i = 1 /\ Stream[i].kind = "tail"
                 \/ Stream[i].call \in ToSet(awaitResp) /\ Stream[i].call \in Waiting
           /\ \A i \in DOMAIN Stream : i + 1 \in DOMAIN Stream /\ Stream[i + 1].kind = "tail" =>
                 /\ i \in Answers(Stream) /\ Stream[i].kind = "head"
                 /\ Stream[i + 1].call = Stream[i].call
<1>1. Shape(Stream, server, hungUp, quirk) /\ Order(Stream, server, awaitResp, cseqOf)
  BY DEF LinkInv, Link
<1>2. ToSet(awaitResp) \subseteq Waiting /\ Waiting \subseteq 1 .. issued
  BY QueuedWait
<1>3. ASSUME NEW i \in Answers(Stream)
      PROVE  /\ i \in DOMAIN Stream
             /\ Stream[i].call \in ToSet(awaitResp) /\ Stream[i].call \in Waiting
             /\ Stream[i].call \in 1 .. issued
             /\ Stream[i].call # 0 /\ Stream[i].call \notin Done
  <2>1. i \in DOMAIN Stream /\ Stream[i].call \in ToSet(awaitResp)
    BY <1>1 DEF Order, Answers
  <2>2. Stream[i].call \in Waiting /\ Stream[i].call \in 1 .. issued
    BY <1>2, <2>1
  <2>3. issued \in Nat
    BY BoundsAssumption DEF ReqTypeOK
  <2>4. Stream[i].call # 0
    BY <2>2, <2>3
  <2> QED BY <2>1, <2>2, <2>4 DEF Waiting
<1>4. /\ \A i \in DOMAIN Stream : Stream[i] \in Parts /\ i \in Nat \ {0}
      /\ DOMAIN Stream = 1 .. Len(Stream) /\ Len(Stream) \in Nat
  <2>1. Stream \in Seq(Parts)
    BY StreamIs
  <2> QED BY <2>1, SeqIs
<1>5. ASSUME NEW i \in DOMAIN Stream, Stream[i].kind = "tail", i # 1
      PROVE  i - 1 \in Answers(Stream) /\ Stream[i - 1].kind = "head"
                /\ Stream[i].call = Stream[i - 1].call
  <2>1. Stream[i - 1].kind = "head" /\ Stream[i].call = Stream[i - 1].call
    BY <1>1, <1>5 DEF Shape
  <2>2. i - 1 \in DOMAIN Stream
    BY <1>4, <1>5
  <2> QED BY <2>1, <2>2 DEF Answers, IsAnswerPart
<1>6. ASSUME NEW i \in DOMAIN Stream
      PROVE  \/ Stream[i].kind = "alien" /\ quirk = "alien"
             \/ i = 1 /\ Stream[i].kind = "tail"
             \/ Stream[i].call \in ToSet(awaitResp) /\ Stream[i].call \in Waiting
  <2>1. Stream[i].kind \in Kinds
    BY <1>4 DEF Parts
  <2>2. CASE Stream[i].kind = "alien"
    BY <1>1, <2>2 DEF Shape
  <2>3. CASE Stream[i].kind = "tail"
    BY <1>3, <1>5, <2>3
  <2>4. CASE Stream[i].kind \in {"whole", "head"}
    BY <1>3, <2>4 DEF Answers, IsAnswerPart
  <2> QED BY <2>1, <2>2, <2>3, <2>4 DEF Kinds
<1>7. ASSUME NEW i \in DOMAIN Stream, i + 1 \in DOMAIN Stream, Stream[i + 1].kind = "tail"
      PROVE  /\ i \in Answers(Stream) /\ Stream[i].kind = "head"
             /\ Stream[i + 1].call = Stream[i].call
  <2>1. i + 1 # 1 /\ (i + 1) - 1 = i
    BY <1>4
  <2> QED BY <1>5, <1>7, <2>1
<1> QED BY <1>3, <1>6, <1>7

\* One of the first parts is an answer.
LEMMA AnswerEarly ==
    ASSUME ReqTypeOK, LinkInv, Len(Stream) > 2
    PROVE  /\ \E i \in Answers(Stream) : i <= 3
           /\ quirk # "alien" => \E i \in Answers(Stream) : i <= 2
<1>1. Shape(Stream, server, hungUp, quirk)
  BY DEF LinkInv, Link
<1>2. Stream \in Seq(Parts) /\ DOMAIN Stream = 1 .. Len(Stream) /\ Len(Stream) \in Nat
  BY StreamIs
<1>3. {1, 2, 3} \subseteq DOMAIN Stream
  BY <1>2
<1>4. \A i \in {1, 2, 3} : Stream[i].kind \in Kinds
  <2>1. \A i \in {1, 2, 3} : Stream[i] \in Parts
    BY <1>2, <1>3, SeqIs
  <2> QED BY <2>1 DEF Parts
<1>5. Stream[2].kind = "tail" => 1 \in Answers(Stream)
  <2>1. Stream[2].kind = "tail" => Stream[1].kind = "head"
    BY <1>1, <1>3 DEF Shape
  <2> QED BY <1>3, <2>1 DEF Answers, IsAnswerPart
<1>6. Stream[3].kind = "tail" => 2 \in Answers(Stream)
  <2>1. Stream[3].kind = "tail" => Stream[2].kind = "head"
    BY <1>1, <1>3 DEF Shape
  <2> QED BY <1>3, <2>1 DEF Answers, IsAnswerPart
<1>7. Stream[2].kind = "alien" => quirk = "alien" /\ Stream[3].kind # "alien"
  <2>1. Stream[2].kind = "alien" =>
            quirk = "alien" /\ \A j \in DOMAIN Stream : Stream[j].kind = "alien" => j = 2
    BY <1>1, <1>3 DEF Shape
  <2> QED BY <1>3, <2>1
<1>8. \A i \in {1, 2, 3} : Stream[i].kind \in {"whole", "head"} => i \in Answers(Stream)
  BY <1>3 DEF Answers, IsAnswerPart
<1> QED BY <1>4, <1>5, <1>6, <1>7, <1>8 DEF Kinds

LEMMA DropTypes ==
    ASSUME ReqTypeOK,
           \/ server' = <<>> /\ wire' = <<>> /\ hungUp' = FALSE
           \/ UNCHANGED <<server, wire, hungUp>>
    PROVE  /\ wire' \in {wire, <<>>} /\ wire' \in Seq(Parts)
           /\ server' \in Seq(Calls \X CSeqs) /\ hungUp' \in BOOLEAN
<1>1. wire \in Seq(Parts) /\ server \in Seq(Calls \X CSeqs) /\ hungUp \in BOOLEAN
  BY DEF ReqTypeOK
<1>2. <<>> \in Seq(Parts) /\ <<>> \in Seq(Calls \X CSeqs) /\ FALSE \in BOOLEAN
  OBVIOUS
<1>3. CASE server' = <<>> /\ wire' = <<>> /\ hungUp' = FALSE
  BY <1>2, <1>3
<1>4. CASE UNCHANGED <<server, wire, hungUp>>
  BY <1>1, <1>4
<1> QED BY <1>3, <1>4

LEMMA PartitionTake ==
    ASSUME NEW A, NEW B, NEW R, NEW F, NEW W, NEW L, NEW M, NEW O, NEW r \in B,
           Partition(A, B, R, F, W, L), L \subseteq M, O \subseteq B \ {r},
           B \subseteq O \cup {r} \cup L
    PROVE  Partition(A, O, R, F, W \ {r}, M)
  BY DEF Partition

LEMMA AloneTaken ==
    ASSUME Alone, NEW c \in Waiting, NEW d \in Waiting, c # d
    PROVE  c \in exposed /\ d \in exposed
  BY DEF Alone

\* The buffer is full: what is in it is dropped, and the first request told.
LEMMA TruncatedStep ==
    ASSUME IInv, Truncated PROVE IInv' /\ Settled
<1> DEFINE q == awaitResp
           n == Room
<1>1. PICK k \in 1 .. Len(wire) :
          /\ k = Room - Len(buffer)
          /\ wire' = SubSeq(wire, k + 1, Len(wire))
          /\ UNCHANGED <<requestVars, awaitConn, resuming, failing, closed, socket,
                         looping, again, quirk, server, hungUp, resends, exposed>>
          /\ \/ awaitResp = <<>> /\ UNCHANGED awaitResp /\ NoCall
             \/ /\ awaitResp # <<>>
                /\ awaitResp' = Tail(awaitResp)
                /\ HandleRequestError(Head(awaitResp))
          /\ lost' = lost \cup (CallsIn(buffer \o SubSeq(wire, 1, k)) \ Done')
  BY DEF Truncated, Done
<1> DEFINE F == buffer \o SubSeq(wire, 1, k)
<1>2. /\ UNCHANGED <<awaitConn, resuming, failing, closed, socket,
                     looping, again, quirk, server, hungUp, resends, exposed>>
      /\ UNCHANGED <<issued, silent, cseqOf, lastCSeq>>
      /\ ~looping /\ socket = "open" /\ buffer' = <<>> /\ Room \in Nat /\ Room > 2
  BY <1>1, RoomAssumption DEF requestVars, Truncated, Idle
<1>3. ReqTypeOK /\ Numbered /\ Placed /\ Phases /\ LinkInv /\ Named /\ Alone /\ Spared
  BY DEF IInv
<1>4. /\ q \in Seq(Calls) /\ Once(q) /\ ToSet(q) \subseteq Waiting /\ Waiting \subseteq 1 .. issued
      /\ Waiting \cap Done = {}
  BY <1>3, QueuedWait DEF Placed, Waiting
<1>5. /\ buffer \in Seq(Parts) /\ wire \in Seq(Parts) /\ Len(wire) \in Nat /\ Len(buffer) \in Nat
      /\ k \in 0 .. Len(wire) /\ Len(buffer) + k = n
  <2>1. buffer \in Seq(Parts) /\ wire \in Seq(Parts)
    BY <1>3 DEF ReqTypeOK
  <2>2. Len(wire) \in Nat /\ Len(buffer) \in Nat
    BY <2>1, SeqIs
  <2> QED BY <1>1, <1>2, <2>1, <2>2
<1>6. /\ Stream \in Seq(Parts) /\ Len(Stream) = Len(buffer) + Len(wire)
      /\ DOMAIN Stream = 1 .. Len(Stream) /\ Len(Stream) \in Nat
  BY <1>3, StreamIs
<1>7. /\ F \in Seq(Parts) /\ Len(F) = n /\ F \o wire' = Stream
      /\ wire' = Drop(Stream, n) /\ wire' \in Seq(Parts)
  <2>1. \A i \in 1 .. k : wire[i] \in Parts
    BY <1>5, ElementOfSeq
  <2>2. SubSeq(wire, 1, k) \in Seq(Parts) /\ Len(SubSeq(wire, 1, k)) = k
    BY <1>5, <2>1, SubSeqProperties
  <2>3. F \in Seq(Parts) /\ Len(F) = n
    BY <1>5, <2>2, ConcatIs
  <2>4. F \o wire' = Stream
    BY <1>1, <1>5, ReadOn DEF Stream
  <2>5. wire' = Drop(wire, k)
    BY <1>1 DEF Drop
  <2>6. Drop(wire, k) = Drop(buffer \o wire, Len(buffer) + k)
    BY <1>5, DropOfConcat
  <2>7. wire' \in Seq(Parts)
    BY <1>5, <2>5, DropIs
  <2> QED BY <1>5, <2>3, <2>4, <2>5, <2>6, <2>7 DEF Stream
<1> HIDE DEF F, n
<1>8. /\ n \in 0 .. Len(Stream) /\ Len(Stream) > 2 /\ n > 2 /\ n \in Nat
  <2>1. n > 2 /\ n \in Nat
    BY <1>2 DEF n
  <2>2. n <= Len(Stream)
    BY <1>5, <1>6
  <2> QED BY <1>6, <2>1, <2>2
<1>9. \A i \in 1 .. n : F[i] = Stream[i]
  <2>1. \A i \in 1 .. Len(F) : (F \o wire')[i] = F[i]
    BY <1>7, ConcatIs
  <2> QED BY <1>7, <2>1
<1>10. \A c : c \in CallsIn(F) <=> c # 0 /\ \E i \in 1 .. n : Stream[i].call = c
  BY <1>7, <1>9, FrontCalls
<1>11. lost' = lost \cup (CallsIn(F) \ Done') /\ lost \subseteq lost'
  BY <1>1 DEF F
<1>12. /\ Stream' = Drop(Stream, n)
       /\ ToSet(Stream') \subseteq ToSet(Stream)
       /\ Stream' # <<>> => n + 1 \in DOMAIN Stream /\ Stream'[1] = Stream[n + 1]
  <2>1. Stream' = wire'
    BY <1>2, <1>7, ConcatEmptySeq DEF Stream
  <2> QED BY <1>6, <1>7, <1>8, <2>1, RestIs
<1>13. \/ q = <<>> /\ awaitResp' = q /\ NoCall
       \/ /\ q # <<>> /\ awaitResp' = Tail(q) /\ HandleRequestError(Head(q))
          /\ Head(q) \in ToSet(q) /\ Head(q) \in Waiting /\ Head(q) \in Calls
          /\ awaitResp' \in Seq(Calls) /\ Once(awaitResp') /\ awaitResp' = Drop(q, 1)
          /\ Pos(q, Head(q)) = 1 /\ ToSet(awaitResp') = ToSet(q) \ {Head(q)}
          /\ Done' = Done \cup {Head(q)} /\ Waiting' = Waiting \ {Head(q)}
          /\ Done' \subseteq 1 .. issued' /\ \A d \in Done' : result'[d] \in Calls \cup {Error}
          /\ result'[Head(q)] = Error /\ \A d \in Done : result'[d] = result[d]
          /\ inHandler' \in BOOLEAN
  <2>1. CASE q = <<>>
    BY <1>1, <2>1
  <2>2. CASE q # <<>>
    <3>1. awaitResp' = Tail(q) /\ CallHandler(Head(q), Error)
      BY <1>1, <2>2 DEF HandleRequestError
    <3>2. /\ Head(q) \in ToSet(q) /\ Head(q) \in Calls
          /\ Tail(q) \in Seq(Calls) /\ Once(Tail(q)) /\ Tail(q) = Drop(q, 1)
          /\ Pos(q, Head(q)) = 1 /\ ToSet(Tail(q)) = ToSet(q) \ {Head(q)}
      BY <1>4, <2>2, TailQueue
    <3>3. Head(q) \in Waiting
      BY <1>4, <3>2
    <3>4. /\ Done' = Done \cup {Head(q)} /\ Waiting' = Waiting \ {Head(q)}
          /\ Done' \subseteq 1 .. issued' /\ \A d \in Done' : result'[d] \in Calls \cup {Error}
          /\ result'[Head(q)] = Error /\ \A d \in Done : result'[d] = result[d]
          /\ inHandler' \in BOOLEAN
      BY <1>2, <1>3, <3>1, <3>3, Called
    <3> QED BY <2>2, <3>1, <3>2, <3>3, <3>4 DEF HandleRequestError
  <2> QED BY <2>1, <2>2
<1>14. /\ \A i \in Answers(Stream) :
             /\ i \in DOMAIN Stream
             /\ Stream[i].call \in ToSet(q) /\ Stream[i].call \in Waiting
             /\ Stream[i].call # 0 /\ Stream[i].call \notin Done
       /\ \A i \in DOMAIN Stream :
             \/ Stream[i].kind = "alien" /\ quirk = "alien"
             \/ i = 1 /\ Stream[i].kind = "tail"
             \/ Stream[i].call \in ToSet(q) /\ Stream[i].call \in Waiting
       /\ n \in DOMAIN Stream /\ n + 1 \in DOMAIN Stream /\ Stream[n + 1].kind = "tail" =>
             n \in Answers(Stream) /\ Stream[n + 1].call = Stream[n].call
  BY <1>3, AnswersWait
<1> HIDE DEF q
<1>15. Shape(Stream, server, hungUp, quirk) /\ Order(Stream, server, q, cseqOf)
  BY <1>3 DEF LinkInv, Link, q
<1>16. \A c \in ToSet(q) : Pos(q, c) \in Nat \ {0}
  <2>1. \A c \in ToSet(q) : Pos(q, c) \in 1 .. Len(q)
    BY <1>4, PosIs
  <2>2. Len(q) \in Nat
    BY <1>4, SeqIs
  <2> QED BY <2>1, <2>2
<1>17. LinkInv'
  <2>1. Link(Stream, server, hungUp, q, lost, cseqOf, "open", quirk)
    BY <1>2, <1>3 DEF LinkInv, q
  <2>2. server \in Seq(Calls \X CSeqs)
    BY <1>3 DEF ReqTypeOK
  <2>3. CASE q = <<>> /\ awaitResp' = q /\ NoCall
    <3>1. ToSet(q) = {} /\ 0 \in 0 .. Len(q) /\ Drop(q, 0) = q
      <4>1. q \in Seq(Calls)
        BY <1>4
      <4>2. Drop(q, 0) = q /\ Len(q) \in Nat
        BY <4>1, DropNone, SeqIs
      <4>3. ToSet(q) = {}
        BY <2>3, EmptyQueue
      <4> QED BY <4>2, <4>3
    <3>2. Answers(Stream) = {} /\ DOMAIN server = {}
      BY <1>15, <3>1 DEF Order
    <3>3. Link(Drop(Stream, n), server, hungUp, Drop(q, 0), lost', cseqOf, "open", quirk)
      BY <1>4, <1>6, <1>8, <1>11, <2>1, <2>2, <3>1, <3>2, LinkDrop
    <3> QED BY <1>2, <1>12, <2>3, <3>1, <3>3 DEF LinkInv
  <2>4. CASE /\ q # <<>> /\ awaitResp' = Drop(q, 1) /\ Pos(q, Head(q)) = 1
             /\ Done' = Done \cup {Head(q)} /\ Head(q) \in ToSet(q)
    <3>1. 1 \in 0 .. Len(q)
      BY <1>4, <2>4, TailIs
    <3>2. PICK j \in Answers(Stream) : j <= 3
      BY <1>3, <1>8, AnswerEarly
    <3>3. ASSUME NEW i \in Answers(Stream), i <= n
          PROVE  Stream[i].call \in lost' \/ Pos(q, Stream[i].call) <= 1
      <4>1. i \in 1 .. n
        BY <1>6, <1>8, <1>14, <3>3
      <4>2. Stream[i].call \in CallsIn(F) /\ Stream[i].call \notin Done
        BY <1>10, <1>14, <4>1
      <4>3. CASE Stream[i].call = Head(q)
        BY <2>4, <4>3
      <4>4. CASE Stream[i].call # Head(q)
        BY <1>11, <2>4, <4>2, <4>4
      <4> QED BY <4>3, <4>4
    <3>4. ASSUME NEW i \in Answers(Stream), i > n PROVE Pos(q, Stream[i].call) > 1
      <4>1. j < i
        BY <1>6, <1>8, <1>14, <3>2, <3>4
      <4>2. Pos(q, Stream[j].call) < Pos(q, Stream[i].call)
        BY <1>15, <4>1 DEF Order
      <4> QED BY <1>14, <1>16, <4>2
    <3>5. ASSUME NEW i \in DOMAIN server PROVE Pos(q, server[i][1]) > 1
      <4>1. Pos(q, Stream[j].call) < Pos(q, server[i][1]) /\ server[i][1] \in ToSet(q)
        BY <1>15 DEF Order
      <4> QED BY <1>14, <1>16, <4>1
    <3>6. Link(Drop(Stream, n), server, hungUp, Drop(q, 1), lost', cseqOf, "open", quirk)
      BY <1>4, <1>6, <1>8, <1>11, <2>1, <2>2, <3>1, <3>3, <3>4, <3>5, LinkDrop
    <3> QED BY <1>2, <1>12, <2>4, <3>6 DEF LinkInv
  <2> QED BY <1>13, <2>3, <2>4
<1>18. /\ Done \subseteq Done' /\ Done' \ Done \subseteq Waiting /\ Waiting' \subseteq Waiting
       /\ Done' \subseteq 1 .. issued' /\ \A d \in Done' : result'[d] \in Calls \cup {Error}
       /\ \A d \in Done' \ Done : result'[d] = Error
       /\ \A d \in Done : result'[d] = result[d]
       /\ inHandler' \in BOOLEAN
       /\ awaitResp' \in Seq(Calls) /\ Once(awaitResp')
  <2>1. CASE q = <<>> /\ awaitResp' = q /\ NoCall
    <3>1. result' = result /\ inHandler' = inHandler /\ issued' = issued
      BY <1>2, <2>1 DEF NoCall
    <3>2. Done' = Done /\ Waiting' = Waiting
      BY <3>1, SameRequests
    <3> QED BY <1>3, <1>4, <2>1, <3>1, <3>2 DEF ReqTypeOK
  <2> QED BY <1>13, <2>1
<1>19. lost' \subseteq 1 .. issued /\ lost' \cap Done \subseteq lost
  <2>1. ASSUME NEW c \in CallsIn(F) PROVE c \in 1 .. issued
    <3>1. PICK i \in 1 .. n : c = Stream[i].call
      BY <1>10
    <3>2. i \in 1 .. Len(Stream)
      BY <1>6, <1>8
    <3>3. Stream[i] \in ToSet(Stream)
      BY <1>6, <3>2, SeqIs
    <3>4. c \in 0 .. issued /\ c # 0
      BY <1>3, <1>10, <3>1, <3>3 DEF Named
    <3> QED BY <3>4
  <2> QED BY <1>3, <1>11, <1>18, <2>1 DEF ReqTypeOK
<1>20. ReqTypeOK'
  <2>1. Len(buffer') < Room /\ buffer' \in Seq(Parts)
    BY <1>2
  <2> QED BY <1>2, <1>3, <1>7, <1>18, <1>19, <2>1 DEF ReqTypeOK
<1>21. Numbered' /\ Alone' /\ Named'
  BY <1>2, <1>3, <1>12, <1>18, AloneStays, NamedStays DEF Numbered
<1>22. Placed'
  <2>1. Partition(ToSet(awaitConn), ToSet(awaitResp'), ToSet(resuming), ToSet(failing),
                  Waiting', lost')
    <3>1. CASE q = <<>> /\ awaitResp' = q /\ NoCall
      <4>1. Waiting' = Waiting
        BY <1>2, <3>1 DEF NoCall, Done, Waiting
      <4> QED BY <1>3, <1>11, <3>1, <4>1 DEF Placed, Partition, q
    <3>2. CASE /\ Head(q) \in ToSet(q)
               /\ ToSet(awaitResp') = ToSet(q) \ {Head(q)} /\ Waiting' = Waiting \ {Head(q)}
      BY <1>3, <1>11, <3>2 DEF Placed, Partition, q
    <3> QED BY <1>13, <3>1, <3>2
  <2> QED BY <1>2, <1>3, <1>18, <2>1 DEF Placed
<1>23. Phases'
  BY <1>2, <1>3 DEF Phases, ConnectingWhileQueued
<1>24. Spared'
  <2> SUFFICES ASSUME ~closed
               PROVE  /\ lost' \subseteq exposed
                      /\ Stream' # <<>> /\ Stream'[1].kind = "tail" =>
                            Stream'[1].call \in lost' \cup Done'
    BY <1>2 DEF Spared
  <2>1. /\ lost \subseteq exposed
        /\ Stream # <<>> /\ Stream[1].kind = "tail" => Stream[1].call \in lost \cup Done
    BY <1>3 DEF Spared
  <2>2. ASSUME NEW c \in CallsIn(F) \ Done' PROVE c \in exposed
    <3>1. PICK i \in 1 .. n : c = Stream[i].call
      BY <1>10
    <3>2. i \in DOMAIN Stream /\ Stream # <<>>
      BY <1>6, <1>8
    <3>3. CASE i = 1 /\ Stream[i].kind = "tail"
      BY <1>18, <2>1, <3>1, <3>2, <3>3
    <3>4. CASE c \in ToSet(q) /\ c \in Waiting
      <4>1. q # <<>>
        BY <3>4, EmptyQueue
      <4>2. Head(q) \in Waiting /\ Head(q) # c
        BY <1>13, <2>2, <4>1
      <4> QED BY <1>3, <3>4, <4>2, AloneTaken
    <3>5. Stream[i].kind # "alien"
      <4>1. Stream[i] \in ToSet(Stream)
        BY <1>6, <3>2, SeqIs
      <4>2. c # 0
        BY <1>10
      <4> QED BY <1>3, <3>1, <4>1, <4>2 DEF Named
    <3> QED BY <1>14, <3>1, <3>2, <3>3, <3>4, <3>5
  <2>3. ASSUME Stream' # <<>>, Stream'[1].kind = "tail"
        PROVE  Stream'[1].call \in lost' \cup Done'
    <3> DEFINE c == Stream[n].call
    <3>1. n + 1 \in DOMAIN Stream /\ Stream'[1] = Stream[n + 1] /\ n \in DOMAIN Stream
      BY <1>6, <1>8, <1>12, <2>3
    <3>2. n \in Answers(Stream) /\ Stream'[1].call = c
      BY <1>14, <2>3, <3>1
    <3>3. c # 0 /\ n \in 1 .. n
      BY <1>8, <1>14, <3>2
    <3>4. c \in CallsIn(F)
      BY <1>10, <3>3
    <3> QED BY <1>11, <3>2, <3>4
  <2> QED BY <1>11, <2>1, <2>2, <2>3
<1>25. Settled
  BY <1>2, <1>11, <1>18, <1>19 DEF Settled
<1> QED BY <1>17, <1>20, <1>21, <1>22, <1>23, <1>24, <1>25 DEF IInv

\* The request is put back at the head: those ahead of it are lost already.
LEMMA WaitForBodyStep ==
    ASSUME IInv, WaitForBody PROVE IInv' /\ Settled
<1> DEFINE q == awaitResp
           m == buffer[1]
           f == FoundAt(q, m)
<1>1. /\ looping /\ IsIncomplete
      /\ awaitResp' = SubSeq(q, f, Len(q))
      /\ DropConnection(ConnAfter(m))
      /\ lost' = IF m.close THEN lost \cup ToSet(awaitResp) ELSE lost
      /\ looping' = FALSE /\ again' = FALSE
      /\ UNCHANGED <<awaitConn, resuming, failing, inHandler, closed,
                     buffer, quirk, resends, result, exposed>>
      /\ UNCHANGED <<issued, silent, cseqOf, lastCSeq>>
  BY DEF WaitForBody, requestVars
<1>2. ReqTypeOK /\ Numbered /\ Placed /\ Phases /\ LinkInv /\ Named /\ Alone /\ Spared
  BY DEF IInv
<1>3. /\ buffer # <<>> /\ m.kind = "head" /\ IsAnswerPart(m) /\ Stream[1] = m
      /\ 1 \in Answers(Stream)
  <2>1. buffer # <<>> /\ m.kind = "head"
    BY <1>1 DEF IsIncomplete
  <2> QED BY <1>2, <2>1, StreamIs DEF IsAnswerPart, Answers
<1>4. ~m.close
  BY <1>2, <1>3 DEF LinkInv, Link, Shape
<1>5. /\ socket = "open"
      /\ f \in 1 .. Len(q) /\ m.call \in ToSet(q)
      /\ f <= Pos(q, m.call)
      /\ \A c \in ToSet(q) : Pos(q, c) < f => c \in lost
      /\ \A i \in Answers(Stream) : i # 1 => Pos(q, Stream[i].call) > Pos(q, m.call)
      /\ \A j \in DOMAIN server : Pos(q, server[j][1]) > Pos(q, m.call)
  BY <1>2, <1>3, TakeAnswer
<1>6. /\ q \in Seq(Calls) /\ Once(q) /\ ToSet(q) \subseteq Waiting
      /\ \A c \in ToSet(q) : Pos(q, c) \in 1 .. Len(q) /\ Len(q) \in Nat
  <2>1. q \in Seq(Calls) /\ Once(q) /\ ToSet(q) \subseteq Waiting
    BY <1>2, QueuedWait DEF Placed
  <2> QED BY <2>1, PosIs, SeqIs
<1>7. /\ UNCHANGED <<socket, server, wire, hungUp>>
      /\ lost' = lost
  BY <1>1, <1>4, <1>5 DEF ConnAfter, DropConnection
<1> HIDE DEF f, m, q
<1>8. f - 1 \in 0 .. Len(q) /\ (f - 1) + 1 = f /\ f \in Nat /\ Len(q) \in Nat
  BY <1>5, <1>6
<1>9. awaitResp' = Drop(q, f - 1)
  BY <1>1, <1>8 DEF Drop
<1>10. /\ awaitResp' \in Seq(Calls) /\ Once(awaitResp')
       /\ \A c : c \in ToSet(awaitResp') <=> c \in ToSet(q) /\ Pos(q, c) > f - 1
  BY <1>6, <1>8, <1>9, PosDrop
<1>11. ToSet(awaitResp') \subseteq ToSet(q) /\ ToSet(q) \ ToSet(awaitResp') \subseteq lost
  <2>1. ASSUME NEW c \in ToSet(q), c \notin lost PROVE Pos(q, c) > f - 1
    <3>1. ~(Pos(q, c) < f) /\ Pos(q, c) \in 1 .. Len(q)
      BY <1>5, <1>6, <2>1
    <3> QED BY <1>8, <3>1
  <2> QED BY <1>10, <2>1
<1>12. Done' = Done /\ Waiting' = Waiting /\ Stream' = Stream
  BY <1>1, <1>7, SameRequests DEF Stream
<1>13. LinkInv'
  <2>1. Link(Stream, server, hungUp, q, lost, cseqOf, socket, quirk)
    BY <1>2 DEF LinkInv, q
  <2>2. /\ Stream \in Seq(Parts) /\ server \in Seq(Calls \X CSeqs) /\ Drop(Stream, 0) = Stream
        /\ 0 \in 0 .. Len(Stream) /\ DOMAIN Stream = 1 .. Len(Stream)
    <3>1. /\ Stream \in Seq(Parts) /\ Len(Stream) \in Nat
          /\ DOMAIN Stream = 1 .. Len(Stream)
      BY <1>2, StreamIs
    <3>2. server \in Seq(Calls \X CSeqs)
      BY <1>2 DEF ReqTypeOK
    <3> QED BY <3>1, <3>2, DropNone
  <2>3. Pos(q, m.call) \in Nat /\ Pos(q, m.call) > f - 1
    BY <1>5, <1>6, <1>8
  <2>4. ASSUME NEW i \in Answers(Stream)
        PROVE  i > 0 /\ Pos(q, Stream[i].call) > f - 1 /\ ~(i <= 0)
    <3>1. i \in 1 .. Len(Stream) /\ Stream[i].call \in ToSet(q)
      BY <1>2, <2>2, AnswersWait DEF q
    <3>2. Pos(q, Stream[i].call) \in Nat
      BY <1>6, <3>1
    <3>3. Pos(q, Stream[i].call) > f - 1
      <4>1. CASE i = 1
        BY <1>3, <2>3, <4>1
      <4>2. CASE i # 1
        <5>1. Pos(q, Stream[i].call) > Pos(q, m.call)
          BY <1>5, <4>2
        <5> QED BY <1>8, <2>3, <3>2, <5>1
      <4> QED BY <4>1, <4>2
    <3> QED BY <3>1, <3>3
  <2>5. ASSUME NEW j \in DOMAIN server PROVE Pos(q, server[j][1]) > f - 1
    <3>1. server[j][1] \in ToSet(q)
      BY <2>1 DEF Link, Order
    <3>2. Pos(q, server[j][1]) \in Nat /\ Pos(q, server[j][1]) > Pos(q, m.call)
      BY <1>5, <1>6, <3>1
    <3> QED BY <1>8, <2>3, <3>2
  <2>6. Link(Drop(Stream, 0), server, hungUp, Drop(q, f - 1), lost, cseqOf, socket, quirk)
    <3>1. q \in Seq(Calls) /\ Once(q) /\ f - 1 \in 0 .. Len(q)
      BY <1>6, <1>8
    <3> QED BY <2>1, <2>2, <2>4, <2>5, <3>1, LinkDrop
  <2> QED BY <1>1, <1>7, <1>9, <1>12, <2>2, <2>6 DEF LinkInv
<1>14. ReqTypeOK'
  BY <1>1, <1>2, <1>7, <1>10, <1>12 DEF ReqTypeOK
<1>15. Numbered' /\ Named' /\ Alone' /\ Spared'
  <2>1. Spared'
    BY <1>1, <1>2, <1>3, <1>7, <1>12 DEF Spared
  <2> QED BY <1>1, <1>2, <1>7, <1>12, <2>1 DEF Numbered, Named, Alone
<1>16. Placed'
  <2>1. Partition(ToSet(awaitConn), ToSet(awaitResp'), ToSet(resuming), ToSet(failing),
                  Waiting, lost)
    BY <1>2, <1>11 DEF Placed, Partition, q
  <2> QED BY <1>1, <1>2, <1>7, <1>10, <1>12, <2>1 DEF Placed
<1>17. Phases'
  BY <1>1, <1>2, <1>7 DEF Phases, ConnectingWhileQueued
<1>18. Settled
  BY <1>1, <1>2, <1>7, <1>12 DEF Settled, ReqTypeOK
<1> QED BY <1>13, <1>14, <1>15, <1>16, <1>17, <1>18 DEF IInv

\* What is dropped with a request of the server, or with the rest of an answer,
\* are answers of requests given up.
LEMMA NotAnAnswerStep ==
    ASSUME IInv, NotAnAnswer PROVE IInv' /\ Settled
<1> DEFINE q == awaitResp
           n == Len(buffer)
<1>1. /\ looping /\ looping' = FALSE /\ again' = FALSE /\ buffer[1].kind \in {"alien", "tail"}
      /\ \/ /\ buffer' = <<>> /\ lost' = lost \cup (CallsIn(Tail(buffer)) \ Done)
            /\ exposed' = exposed \cup (CallsIn(Tail(buffer)) \ Done)
         \/ UNCHANGED <<buffer, lost, exposed>>
      /\ UNCHANGED <<awaitConn, awaitResp, resuming, failing, inHandler, closed, socket, quirk,
                     server, hungUp, wire, resends, result>>
      /\ UNCHANGED <<issued, silent, cseqOf, lastCSeq>>
  BY DEF NotAnAnswer, requestVars, queueVars, serverVars
<1>2. ReqTypeOK /\ Numbered /\ Placed /\ Phases /\ LinkInv /\ Named /\ Alone /\ Spared
  BY DEF IInv
<1>3. Done' = Done /\ Waiting' = Waiting
  BY <1>1, SameRequests
<1>4. Numbered' /\ Alone'
  <2>1. exposed \subseteq exposed' /\ quirk' = quirk
    BY <1>1
  <2> QED BY <1>1, <1>2, <1>3, <2>1 DEF Numbered, Alone
<1>5. Phases'
  BY <1>1, <1>2 DEF Phases, ConnectingWhileQueued
<1>6. CASE UNCHANGED <<buffer, lost, exposed>>
  <2>1. Stream' = Stream
    BY <1>1, <1>6 DEF Stream
  <2>2. ReqTypeOK' /\ Placed' /\ LinkInv' /\ Named' /\ Spared'
    BY <1>1, <1>2, <1>3, <1>6, <2>1 DEF ReqTypeOK, Placed, LinkInv, Named, Spared
  <2>3. Settled
    BY <1>1, <1>2, <1>3, <1>6 DEF Settled, ReqTypeOK
  <2> QED BY <1>4, <1>5, <2>2, <2>3 DEF IInv
<1>7. CASE /\ buffer' = <<>> /\ lost' = lost \cup (CallsIn(Tail(buffer)) \ Done)
           /\ exposed' = exposed \cup (CallsIn(Tail(buffer)) \ Done)
  <2>1. /\ buffer \in Seq(Parts) /\ buffer # <<>> /\ wire \in Seq(Parts)
        /\ 1 \in 1 .. n /\ n \in Nat
    <3>1. buffer \in Seq(Parts) /\ buffer # <<>> /\ wire \in Seq(Parts)
      BY <1>1, <1>2 DEF ReqTypeOK, Phases
    <3> QED BY <3>1, TailIs
  <2>2. /\ Stream \in Seq(Parts) /\ n \in 0 .. Len(Stream)
        /\ DOMAIN Stream = 1 .. Len(Stream) /\ Len(Stream) \in Nat
        /\ \A i \in 1 .. n : Stream[i] = buffer[i]
        /\ Drop(Stream, n) = wire /\ 1 \in DOMAIN Stream
    BY <1>2, <2>1, StreamIs
  <2>3. /\ Stream' = Drop(Stream, n)
        /\ ToSet(Stream') \subseteq ToSet(Stream)
        /\ Stream' # <<>> => n + 1 \in DOMAIN Stream /\ Stream'[1] = Stream[n + 1]
    <3>1. Stream' = wire
      BY <1>1, <1>7, <2>1, ConcatEmptySeq DEF Stream
    <3> QED BY <2>2, <3>1, RestIs
  <2> HIDE DEF n, q
  <2>4. \A c : c \in CallsIn(Tail(buffer)) <=> c # 0 /\ \E i \in 2 .. n : Stream[i].call = c
    <3> DEFINE b == Tail(buffer)
    <3>1. b \in Seq(Parts) /\ Len(b) = n - 1 /\ \A i \in 1 .. n - 1 : b[i] = buffer[i + 1]
      BY <2>1, TailIs DEF n
    <3> HIDE DEF b
    <3>2. ToSet(b) = {b[i] : i \in 1 .. n - 1}
      BY <3>1, SeqIs
    <3>3. ASSUME NEW i \in 1 .. n - 1 PROVE i + 1 \in 2 .. n /\ b[i] = Stream[i + 1]
      <4>1. i + 1 \in 2 .. n /\ i + 1 \in 1 .. n
        BY <2>1
      <4> QED BY <2>2, <3>1, <4>1
    <3>4. ASSUME NEW i \in 2 .. n PROVE i - 1 \in 1 .. n - 1 /\ b[i - 1] = Stream[i]
      <4>1. i - 1 \in 1 .. n - 1 /\ (i - 1) + 1 = i
        BY <2>1
      <4> QED BY <3>3, <4>1
    <3>5. CallsIn(b) = {p.call : p \in ToSet(b)} \ {0}
      BY DEF CallsIn
    <3>6. ASSUME NEW c \in CallsIn(b) PROVE c # 0 /\ \E i \in 2 .. n : Stream[i].call = c
      <4>1. PICK i \in 1 .. n - 1 : b[i].call = c
        BY <3>2, <3>5
      <4> QED BY <3>3, <3>5, <4>1
    <3>7. ASSUME NEW i \in 2 .. n, Stream[i].call # 0 PROVE Stream[i].call \in CallsIn(b)
      BY <3>2, <3>4, <3>5, <3>7
    <3> QED BY <3>6, <3>7 DEF b
  <2>5. /\ \A i \in Answers(Stream) :
             /\ i \in DOMAIN Stream
             /\ Stream[i].call \in ToSet(q) /\ Stream[i].call \in Waiting
             /\ Stream[i].call # 0 /\ Stream[i].call \notin Done
        /\ \A i \in DOMAIN Stream :
             \/ Stream[i].kind = "alien" /\ quirk = "alien"
             \/ i = 1 /\ Stream[i].kind = "tail"
             \/ Stream[i].call \in ToSet(q) /\ Stream[i].call \in Waiting
        /\ \A i \in DOMAIN Stream : i + 1 \in DOMAIN Stream /\ Stream[i + 1].kind = "tail" =>
             i \in Answers(Stream) /\ Stream[i + 1].call = Stream[i].call
    BY <1>2, AnswersWait DEF q
  <2>6. Stream[1].kind \in {"alien", "tail"} /\ 1 \notin Answers(Stream)
    <3>1. Stream[1].kind \in {"alien", "tail"}
      BY <1>1, <2>1, <2>2
    <3> QED BY <3>1 DEF Answers, IsAnswerPart
  <2>7. ASSUME NEW i \in Answers(Stream), i <= n PROVE Stream[i].call \in lost'
    <3>1. i \in 2 .. n
      BY <2>1, <2>2, <2>5, <2>6, <2>7
    <3> QED BY <1>7, <2>4, <2>5, <3>1
  <2>8. /\ lost \subseteq lost' /\ lost' \subseteq 1 .. issued /\ lost' \cap Done \subseteq lost
        /\ exposed' \subseteq 1 .. issued
    <3>1. ASSUME NEW c \in CallsIn(Tail(buffer)) PROVE c \in 1 .. issued
      <4>1. PICK i \in 2 .. n : c = Stream[i].call
        BY <2>4
      <4>2. i \in 1 .. Len(Stream)
        BY <2>1, <2>2
      <4>3. Stream[i] \in ToSet(Stream)
        BY <2>2, <4>2, SeqIs
      <4>4. c \in 0 .. issued /\ c # 0
        BY <1>2, <2>4, <4>1, <4>3 DEF Named
      <4> QED BY <4>4
    <3> QED BY <1>2, <1>7, <3>1 DEF ReqTypeOK
  <2>9. /\ q \in Seq(Calls) /\ Once(q) /\ ToSet(q) \subseteq Waiting
    BY <1>2, QueuedWait DEF Placed, q
  <2>10. LinkInv'
    <3>1. Link(Stream, server, hungUp, q, lost, cseqOf, socket, quirk)
      BY <1>2 DEF LinkInv, q
    <3>2. Drop(q, 0) = q /\ 0 \in 0 .. Len(q)
      BY <2>9, DropNone, SeqIs
    <3>3. \A c \in ToSet(q) : Pos(q, c) > 0
      <4>1. \A c \in ToSet(q) : Pos(q, c) \in 1 .. Len(q)
        BY <2>9, PosIs
      <4> QED BY <4>1
    <3>4. /\ \A i \in Answers(Stream) : i > n => Pos(q, Stream[i].call) > 0
          /\ \A j \in DOMAIN server : Pos(q, server[j][1]) > 0
      BY <2>5, <3>1, <3>3 DEF Link, Order
    <3>5. server \in Seq(Calls \X CSeqs)
      BY <1>2 DEF ReqTypeOK
    <3>6. Link(Drop(Stream, n), server, hungUp, Drop(q, 0), lost', cseqOf, socket, quirk)
      BY <2>2, <2>7, <2>8, <2>9, <3>1, <3>2, <3>4, <3>5, LinkDrop
    <3> QED BY <1>1, <2>3, <3>2, <3>6 DEF LinkInv, q
  <2>11. ReqTypeOK'
    <3>1. Len(buffer') < Room /\ buffer' \in Seq(Parts)
      BY <1>7, RoomAssumption
    <3> QED BY <1>1, <1>2, <1>3, <2>8, <3>1 DEF ReqTypeOK
  <2>12. Placed'
    <3>1. Partition(ToSet(awaitConn), ToSet(awaitResp), ToSet(resuming), ToSet(failing),
                    Waiting, lost')
      BY <1>2, <2>8 DEF Placed, Partition
    <3> QED BY <1>1, <1>2, <1>3, <3>1 DEF Placed
  <2>13. Named'
    BY <1>1, <1>2, <2>3, NamedStays
  <2>14. Spared'
    <3> SUFFICES ASSUME ~closed
                 PROVE  /\ lost' \subseteq exposed'
                        /\ Stream' # <<>> /\ Stream'[1].kind = "tail" =>
                              Stream'[1].call \in lost'
      BY <1>1 DEF Spared
    <3>1. lost \subseteq exposed
      BY <1>2 DEF Spared
    <3>2. ASSUME Stream' # <<>>, Stream'[1].kind = "tail"
          PROVE  Stream'[1].call \in lost'
      <4>1. n + 1 \in DOMAIN Stream /\ Stream'[1] = Stream[n + 1] /\ n \in DOMAIN Stream
        BY <2>1, <2>2, <2>3, <3>2
      <4>2. n \in Answers(Stream) /\ Stream'[1].call = Stream[n].call
        BY <2>5, <3>2, <4>1
      <4>3. n <= n
        BY <2>1
      <4> QED BY <2>7, <4>2, <4>3
    <3> QED BY <1>7, <3>1, <3>2
  <2>15. Settled
    BY <1>1, <1>3, <2>8 DEF Settled
  <2> QED BY <1>4, <1>5, <2>10, <2>11, <2>12, <2>13, <2>14, <2>15 DEF IInv
<1> QED BY <1>1, <1>6, <1>7

\* The request of the first answer is taken from the queue with those ahead of
\* it, which are lost, and n parts from the buffer.
LEMMA TakeRequest ==
    ASSUME ReqTypeOK, Numbered, Placed, LinkInv, NEW m,
           buffer # <<>>, m = buffer[1], IsAnswerPart(m)
    PROVE  /\ socket = "open" /\ Found(m) /\ m.call \in Waiting
           /\ Request(m) \in Waiting /\ Request(m) \in 1 .. issued /\ Request(m) \in Calls
           /\ Request(m) \in ToSet(awaitResp)
           /\ Request(m) = m.call \/ Request(m) \in lost
           /\ Others(m) \in Seq(Calls) /\ Once(Others(m))
           /\ ToSet(Others(m)) \subseteq ToSet(awaitResp) \ {Request(m)}
           /\ ToSet(awaitResp) \subseteq ToSet(Others(m)) \cup {Request(m)} \cup lost
           /\ \A i \in Answers(Stream) : i # 1 => Stream[i].call \in ToSet(Others(m))
           /\ \A n \in 1 .. Len(buffer) : \A M :
                 /\ lost \subseteq M
                 /\ \A i \in Answers(Stream) : i <= n => Stream[i].call \in M \cup {Request(m)}
                 => Link(Drop(Stream, n), server, hungUp, Others(m), M, cseqOf, socket, quirk)
<1> DEFINE q == awaitResp
           f == FoundAt(q, m)
           o == Others(m)
           r == Request(m)
<1>1. /\ socket = "open" /\ Found(m) /\ f \in 1 .. Len(q)
      /\ m.call \in ToSet(q) /\ r \in ToSet(q) /\ Pos(q, r) = f
      /\ f <= Pos(q, m.call)
      /\ \A c \in ToSet(q) : Pos(q, c) < f => c \in lost
      /\ r = m.call \/ r \in lost
      /\ \A i \in Answers(Stream) : i # 1 => Pos(q, Stream[i].call) > Pos(q, m.call)
      /\ \A j \in DOMAIN server : Pos(q, server[j][1]) > Pos(q, m.call)
  BY TakeAnswer
<1>2. /\ q \in Seq(Calls) /\ Once(q) /\ ToSet(q) \subseteq Waiting
      /\ Waiting \subseteq 1 .. issued /\ 1 .. issued \subseteq Calls
  BY QueuedWait DEF Placed
<1>3. /\ \A c \in ToSet(q) : Pos(q, c) \in 1 .. Len(q) /\ q[Pos(q, c)] = c
      /\ Len(q) \in Nat
  BY <1>2, PosIs, SeqIs
<1>4. o = Drop(q, f)
  BY DEF Others, Drop
<1> HIDE DEF q, f, o, r
<1>5. f \in 0 .. Len(q) /\ f \in Nat /\ Pos(q, m.call) \in Nat
  BY <1>1, <1>3
<1>6. /\ o \in Seq(Calls) /\ Once(o)
      /\ \A c : c \in ToSet(o) <=> c \in ToSet(q) /\ Pos(q, c) > f
  BY <1>2, <1>4, <1>5, PosDrop
<1>7. ToSet(o) \subseteq ToSet(q) \ {r}
  <2>1. ~(f > f)
    BY <1>5
  <2> QED BY <1>1, <1>6, <2>1
<1>8. ASSUME NEW c \in ToSet(q) PROVE c \in ToSet(o) \/ c = r \/ c \in lost
  <2>1. Pos(q, c) \in Nat
    BY <1>3
  <2>2. CASE Pos(q, c) < f
    BY <1>1, <2>2
  <2>3. CASE Pos(q, c) = f
    BY <1>1, <1>3, <2>3
  <2>4. CASE Pos(q, c) > f
    BY <1>6, <2>4
  <2> QED BY <1>5, <2>1, <2>2, <2>3, <2>4
<1>9. \A i \in Answers(Stream) : i \in 1 .. Len(Stream) /\ Stream[i].call \in ToSet(q)
  <2>1. DOMAIN Stream = 1 .. Len(Stream)
    BY StreamIs
  <2> QED BY <2>1, AnswersWait DEF q
<1>10. ASSUME NEW i \in Answers(Stream), i # 1
       PROVE  Pos(q, Stream[i].call) > f /\ Stream[i].call \in ToSet(o)
  <2>1. Pos(q, Stream[i].call) > Pos(q, m.call) /\ Pos(q, Stream[i].call) \in Nat
    BY <1>1, <1>3, <1>9, <1>10
  <2>2. Pos(q, Stream[i].call) > f
    BY <1>1, <1>5, <2>1
  <2> QED BY <1>6, <1>9, <2>2
<1>11. Link(Stream, server, hungUp, q, lost, cseqOf, socket, quirk)
  BY DEF LinkInv, q
<1>12. ASSUME NEW j \in DOMAIN server PROVE Pos(q, server[j][1]) > f
  <2>1. server[j][1] \in ToSet(q)
    BY <1>11 DEF Link, Order
  <2>2. Pos(q, server[j][1]) > Pos(q, m.call) /\ Pos(q, server[j][1]) \in Nat
    BY <1>1, <1>3, <2>1
  <2> QED BY <1>1, <1>5, <2>2
<1>13. ASSUME NEW n \in 1 .. Len(buffer), NEW M, lost \subseteq M,
              \A i \in Answers(Stream) : i <= n => Stream[i].call \in M \cup {r}
       PROVE  Link(Drop(Stream, n), server, hungUp, o, M, cseqOf, socket, quirk)
  <2>1. Stream \in Seq(Parts) /\ server \in Seq(Calls \X CSeqs) /\ n \in 0 .. Len(Stream) /\ n \in Nat
    <3>1. /\ Stream \in Seq(Parts) /\ Len(buffer) \in 0 .. Len(Stream) /\ Len(Stream) \in Nat
      BY StreamIs
    <3>2. server \in Seq(Calls \X CSeqs)
      BY DEF ReqTypeOK
    <3> QED BY <3>1, <3>2
  <2>2. ASSUME NEW i \in Answers(Stream)
        PROVE  /\ i <= n => Stream[i].call \in M \/ Pos(q, Stream[i].call) <= f
               /\ i > n => Pos(q, Stream[i].call) > f
    <3>1. i <= n /\ Stream[i].call = r => Pos(q, Stream[i].call) <= f
      BY <1>1, <1>5
    <3>2. i > n => i # 1
      BY <1>9
    <3> QED BY <1>10, <1>13, <3>1, <3>2
  <2>3. Link(Drop(Stream, n), server, hungUp, Drop(q, f), M, cseqOf, socket, quirk)
    BY <1>2, <1>5, <1>11, <1>12, <1>13, <2>1, <2>2, LinkDrop
  <2> QED BY <1>4, <2>3
<1>14. /\ m.call \in Waiting /\ r \in Waiting /\ r \in 1 .. issued /\ r \in Calls
  BY <1>1, <1>2
<1> QED BY <1>1, <1>6, <1>7, <1>8, <1>10, <1>13, <1>14 DEF q, o, r

\* What is in the buffer is for requests that wait, unless it is dropped with
\* the first answer.
LEMMA BufferCalls ==
    ASSUME ReqTypeOK, Placed, LinkInv, Named, buffer # <<>>
    PROVE  /\ CallsIn(buffer) \subseteq 1 .. issued
           /\ \A i \in Answers(Stream) : i <= Len(buffer) => Stream[i].call \in CallsIn(buffer)
           /\ IsAnswerPart(buffer[1]) => CallsIn(buffer) \subseteq ToSet(awaitResp)
<1> DEFINE n == Len(buffer)
<1>1. /\ Stream \in Seq(Parts) /\ DOMAIN Stream = 1 .. Len(Stream)
      /\ n \in 0 .. Len(Stream) /\ Len(Stream) \in Nat
      /\ \A i \in 1 .. n : buffer[i] = Stream[i]
      /\ 1 \in 1 .. n
  BY StreamIs
<1>2. \A c : c \in CallsIn(buffer) <=> c # 0 /\ \E i \in 1 .. n : Stream[i].call = c
  <2>1. buffer \in Seq(Parts)
    BY DEF ReqTypeOK
  <2> QED BY <1>1, <2>1, FrontCalls
<1> HIDE DEF n
<1>3. \A i \in 1 .. n : i \in DOMAIN Stream
  BY <1>1
<1>4. ASSUME NEW c \in CallsIn(buffer) PROVE c \in 1 .. issued
  <2>1. PICK i \in 1 .. n : c = Stream[i].call
    BY <1>2
  <2>2. Stream[i] \in ToSet(Stream)
    BY <1>1, <1>3, SeqIs
  <2>3. c \in 0 .. issued /\ c # 0
    BY <1>2, <2>1, <2>2 DEF Named
  <2> QED BY <2>3
<1>5. ASSUME NEW i \in Answers(Stream), i <= n PROVE Stream[i].call \in CallsIn(buffer)
  <2>1. i \in DOMAIN Stream /\ Stream[i].call # 0
    BY AnswersWait
  <2>2. i \in 1 .. n
    BY <1>1, <1>5, <2>1
  <2> QED BY <1>2, <2>1, <2>2
<1>6. ASSUME IsAnswerPart(buffer[1]), NEW c \in CallsIn(buffer)
      PROVE  c \in ToSet(awaitResp)
  <2>1. PICK i \in 1 .. n : c = Stream[i].call
    BY <1>2
  <2>2. Stream[1].kind # "tail"
    BY <1>1, <1>6 DEF IsAnswerPart
  <2>3. Stream[i].kind # "alien"
    <3>1. Stream[i] \in ToSet(Stream)
      BY <1>1, <1>3, SeqIs
    <3>2. c # 0
      BY <1>2
    <3> QED BY <2>1, <3>1, <3>2 DEF Named
  <2> QED BY <1>3, <2>1, <2>2, <2>3, AnswersWait
<1> QED BY <1>4, <1>5, <1>6 DEF n

\* The answer is dropped with all that follows, and its request told.
LEMMA BadAnswerStep ==
    ASSUME IInv, BadAnswer PROVE IInv' /\ Settled
<1> DEFINE m == buffer[1]
           r == Request(m)
           o == Others(m)
           n == Len(buffer)
<1>0. ~again
  BY DEF IInv, Phases, BadAnswer, IsAnswer, IsAnswerPart
<1>1. /\ looping /\ IsAnswerPart(m) /\ m.code = "bad"
      /\ awaitResp' = o
      /\ DropConnection(ConnAfter(m))
      /\ buffer' = <<>> /\ looping' = FALSE /\ again' = FALSE
      /\ UNCHANGED <<awaitConn, resuming, failing, closed, quirk, resends, exposed>>
      /\ UNCHANGED <<issued, silent, cseqOf, lastCSeq>>
      /\ IF Found(m) THEN HandleRequestError(r) ELSE NoCall
      /\ lost' = lost \cup LeftBehind(o, ConnAfter(m)) \cup (CallsIn(buffer) \ Done')
  BY <1>0 DEF BadAnswer, IsAnswer, IsAnswerPart, requestVars, Done
<1>2. ReqTypeOK /\ Numbered /\ Placed /\ Phases /\ LinkInv /\ Named /\ Alone /\ Spared
  BY DEF IInv
<1>3. buffer # <<>> /\ resuming = <<>> /\ failing = <<>>
  BY <1>1, <1>2 DEF Phases
<1>4. /\ Stream \in Seq(Parts) /\ DOMAIN Stream = 1 .. Len(Stream)
      /\ Drop(Stream, n) = wire /\ 1 \in DOMAIN Stream /\ Stream[1] = m
      /\ n \in 1 .. n /\ n \in 0 .. Len(Stream)
  BY <1>2, <1>3, StreamIs
<1>5. /\ socket = "open" /\ Found(m)
      /\ r \in Waiting /\ r \in 1 .. issued /\ r \in Calls /\ r \in ToSet(awaitResp)
      /\ o \in Seq(Calls) /\ Once(o)
      /\ ToSet(o) \subseteq ToSet(awaitResp) \ {r}
      /\ ToSet(awaitResp) \subseteq ToSet(o) \cup {r} \cup lost
      /\ \A M : /\ lost \subseteq M
                /\ \A i \in Answers(Stream) : i <= n => Stream[i].call \in M \cup {r}
                => Link(Drop(Stream, n), server, hungUp, o, M, cseqOf, socket, quirk)
  BY <1>1, <1>2, <1>3, <1>4, TakeRequest
<1>6. quirk = "bad"
  BY <1>2, <1>1, <1>4 DEF LinkInv, Link, Shape
<1>7. /\ CallsIn(buffer) \subseteq 1 .. issued /\ CallsIn(buffer) \subseteq ToSet(awaitResp)
      /\ \A i \in Answers(Stream) : i <= n => Stream[i].call \in CallsIn(buffer)
  BY <1>1, <1>2, <1>3, BufferCalls
<1>8. ToSet(awaitResp) \subseteq Waiting /\ Waiting \subseteq 1 .. issued
  BY <1>2, QueuedWait
<1> HIDE DEF m, r, o, n
<1>9. /\ Done' = Done \cup {r} /\ Waiting' = Waiting \ {r} /\ r \notin Done
      /\ Done' \subseteq 1 .. issued' /\ \A d \in Done' : result'[d] \in Calls \cup {Error}
      /\ result'[r] = Error /\ \A d \in Done : result'[d] = result[d]
      /\ inHandler' \in BOOLEAN
  <2>1. CallHandler(r, Error)
    BY <1>1, <1>5 DEF HandleRequestError
  <2> QED BY <1>1, <1>2, <1>5, <2>1, Called
<1>10. /\ lost \subseteq lost' /\ lost' \subseteq 1 .. issued /\ lost' \cap Done \subseteq lost
       /\ ConnAfter(m) = "none" => ToSet(o) \subseteq lost'
  <2>1. LeftBehind(o, ConnAfter(m)) \subseteq Waiting
    BY <1>5, <1>8 DEF LeftBehind
  <2>2. lost \subseteq 1 .. issued
    BY <1>2 DEF ReqTypeOK
  <2>3. ConnAfter(m) = "none" => ToSet(o) = LeftBehind(o, ConnAfter(m))
    BY DEF LeftBehind
  <2>4. Waiting \cap Done = {}
    BY DEF Waiting
  <2> QED BY <1>1, <1>7, <1>8, <1>9, <2>1, <2>2, <2>3, <2>4
<1>11. ASSUME NEW i \in Answers(Stream), i <= n PROVE Stream[i].call \in lost' \cup {r}
  <2>1. Stream[i].call \in CallsIn(buffer) /\ Stream[i].call \notin Done
    BY <1>2, <1>7, <1>11, AnswersWait
  <2> QED BY <1>1, <1>9, <2>1
<1>12. \/ socket' = "none" /\ server' = <<>> /\ wire' = <<>> /\ hungUp' = FALSE
             /\ ToSet(o) \subseteq lost'
       \/ socket' = "open" /\ UNCHANGED <<server, wire, hungUp>>
  <2>1. CASE m.close
    BY <1>1, <1>10, <2>1 DEF ConnAfter, DropConnection
  <2>2. CASE ~m.close
    BY <1>1, <1>5, <2>2 DEF ConnAfter, DropConnection
  <2> QED BY <2>1, <2>2
<1>13. Stream' = wire' /\ wire' \in {wire, <<>>} /\ wire' \in Seq(Parts)
       /\ server' \in Seq(Calls \X CSeqs) /\ hungUp' \in BOOLEAN
  <2>1. /\ wire' \in {wire, <<>>} /\ wire' \in Seq(Parts)
        /\ server' \in Seq(Calls \X CSeqs) /\ hungUp' \in BOOLEAN
    BY <1>2, <1>12, DropTypes
  <2> QED BY <1>1, <2>1, ConcatEmptySeq DEF Stream
<1>14. LinkInv'
  <2>1. CASE socket' = "none" /\ server' = <<>> /\ wire' = <<>> /\ hungUp' = FALSE
                /\ ToSet(o) \subseteq lost'
    BY <1>1, <1>13, <2>1, LinkNothing DEF LinkInv
  <2>2. CASE socket' = "open" /\ UNCHANGED <<server, wire, hungUp>>
    <3>1. Link(wire, server, hungUp, o, lost', cseqOf, socket, quirk)
      BY <1>4, <1>5, <1>10, <1>11
    <3> QED BY <1>1, <1>5, <1>13, <2>2, <3>1 DEF LinkInv
  <2> QED BY <1>12, <2>1, <2>2
<1>15. ReqTypeOK'
  <2>1. Len(buffer') < Room /\ buffer' \in Seq(Parts)
    BY <1>1, RoomAssumption
  <2>2. socket' \in {"none", "pending", "open"}
    BY <1>12
  <2> QED BY <1>1, <1>2, <1>5, <1>9, <1>10, <1>13, <2>1, <2>2 DEF ReqTypeOK
<1>16. Named'
  <2>1. ToSet(Stream') \subseteq ToSet(Stream)
    <3>1. ToSet(wire) \subseteq ToSet(Stream)
      BY <1>4, RestIs
    <3>2. ToSet(<<>>) = {}
      BY EmptyQueue
    <3> QED BY <1>13, <3>1, <3>2
  <2> QED BY <1>1, <1>2, <2>1, NamedStays
<1>17. Numbered' /\ Alone'
  <2>1. Waiting' \subseteq Waiting
    BY <1>9
  <2> QED BY <1>1, <1>2, <2>1, AloneStays DEF Numbered
<1>18. Placed'
  <2>1. Partition(ToSet(awaitConn), ToSet(o), ToSet(resuming), ToSet(failing),
                  Waiting \ {r}, lost')
    BY <1>2, <1>5, <1>10, PartitionTake DEF Placed
  <2> QED BY <1>1, <1>2, <1>5, <1>9, <2>1 DEF Placed
<1>19. Phases'
  <2>1. awaitConn = <<>>
    BY <1>2, <1>5 DEF Phases, ConnectingWhileQueued
  <2> QED BY <1>1, <1>3, <1>12, <2>1 DEF Phases, ConnectingWhileQueued
<1>20. Settled
  BY <1>1, <1>5, <1>9, <1>10 DEF Settled
<1>21. Spared'
  <2> SUFFICES ASSUME ~closed
               PROVE  /\ lost' \subseteq exposed
                      /\ Stream' # <<>> /\ Stream'[1].kind = "tail" =>
                            Stream'[1].call \in lost' \cup Done'
    BY <1>1 DEF Spared
  <2>1. lost' \subseteq lost \cup (ToSet(awaitResp) \ {r}) /\ lost \subseteq exposed
    <3>1. LeftBehind(o, ConnAfter(m)) \subseteq ToSet(awaitResp) \ {r}
      BY <1>5 DEF LeftBehind
    <3> QED BY <1>1, <1>2, <1>7, <1>9, <3>1 DEF Spared
  <2>2. ASSUME NEW c \in ToSet(awaitResp) \ {r} PROVE c \in exposed
    BY <1>2, <1>5, <1>8, AloneTaken
  <2>3. ASSUME Stream' # <<>>, Stream'[1].kind = "tail"
        PROVE  Stream'[1].call \in lost' \cup Done'
    <3>1. Stream' = wire /\ Drop(Stream, n) # <<>>
      BY <1>4, <1>13, <2>3
    <3>2. /\ n + 1 \in DOMAIN Stream /\ Stream[n + 1].kind = "tail"
          /\ Stream'[1] = Stream[n + 1]
      BY <1>4, <2>3, <3>1, RestIs
    <3>3. n \in Answers(Stream) /\ Stream[n].call = Stream'[1].call
      <4>1. n \in DOMAIN Stream
        BY <1>4, <3>2
      <4> QED BY <1>2, <3>2, <4>1, AnswersWait
    <3>4. n <= n
      BY <1>4
    <3> QED BY <1>11, <1>9, <3>3, <3>4
  <2> QED BY <2>1, <2>2, <2>3
<1> QED BY <1>14, <1>15, <1>16, <1>17, <1>18, <1>19, <1>20, <1>21 DEF IInv

\* The request is answered, or that which the answer was taken for.
LEMMA GiveAnswerStep ==
    ASSUME IInv, GiveAnswer PROVE IInv' /\ Settled
<1> DEFINE m == buffer[1]
           r == Request(m)
           o == Others(m)
           n == IF m.kind = "head" THEN 2 ELSE 1
           a == IF m.code = "refused" THEN Error ELSE m.call
<1>1. /\ looping /\ IsAnswerPart(m) /\ m.code # "bad" /\ ~IsIncomplete
      /\ awaitResp' = o
      /\ DropConnection(ConnAfter(m))
      /\ buffer' = Extra
      /\ looping' = (Extra # <<>> /\ ~(Found(m) /\ m.code = "refused"))
      /\ again' = looping'
      /\ UNCHANGED <<awaitConn, resuming, failing, closed, quirk, resends, exposed>>
      /\ UNCHANGED <<issued, silent, cseqOf, lastCSeq>>
      /\ IF Found(m) THEN CallHandler(r, a) ELSE NoCall
      /\ lost' = lost \cup LeftBehind(o, ConnAfter(m))
                      \cup ((IF looping' THEN {m.call} ELSE CallsIn(buffer)) \ Done')
  BY DEF GiveAnswer, IsAnswer, IsAnswerPart, requestVars, Done
<1>2. ReqTypeOK /\ Numbered /\ Placed /\ Phases /\ LinkInv /\ Named /\ Alone /\ Spared
  BY DEF IInv
<1>3. buffer # <<>> /\ resuming = <<>> /\ failing = <<>>
  BY <1>1, <1>2 DEF Phases
<1>4. /\ Stream \in Seq(Parts) /\ DOMAIN Stream = 1 .. Len(Stream) /\ Len(Stream) \in Nat
      /\ 1 \in DOMAIN Stream /\ Stream[1] = m /\ 1 \in 1 .. Len(buffer)
      /\ Len(buffer) \in 0 .. Len(Stream) /\ Len(buffer) \in Nat
      /\ Len(Stream) = Len(buffer) + Len(wire) /\ Len(wire) \in Nat
      /\ buffer \in Seq(Parts) /\ wire \in Seq(Parts)
  <2>1. buffer \in Seq(Parts) /\ wire \in Seq(Parts)
    BY <1>2 DEF ReqTypeOK
  <2> QED BY <1>2, <1>3, <2>1, StreamIs
<1>5. n \in 1 .. Len(buffer) /\ n \in 0 .. Len(buffer) /\ n \in 0 .. Len(Stream) /\ n \in Nat
  <2>3. /\ Len(buffer) \in Nat /\ Len(buffer) >= 1
        /\ Len(Stream) \in Nat /\ Len(buffer) <= Len(Stream)
    BY <1>4
  <2>1. CASE m.kind = "head"
    <3>1. Len(buffer) # 1
      BY <1>1, <2>1 DEF IsIncomplete
    <3>2. n = 2
      BY <2>1
    <3>3. \A k, l \in Nat : k >= 1 /\ k <= l /\ k # 1 =>
              2 \in 1 .. k /\ 2 \in 0 .. k /\ 2 \in 0 .. l
      OBVIOUS
    <3> HIDE DEF n
    <3> QED BY <2>3, <3>1, <3>2, <3>3
  <2>2. CASE m.kind # "head"
    BY <2>2, <2>3
  <2> QED BY <2>1, <2>2
<1>6. /\ socket = "open" /\ Found(m) /\ m.call \in Waiting
      /\ r \in Waiting /\ r \in 1 .. issued /\ r \in Calls /\ r \in ToSet(awaitResp)
      /\ r = m.call \/ r \in lost
      /\ o \in Seq(Calls) /\ Once(o)
      /\ ToSet(o) \subseteq ToSet(awaitResp) \ {r}
      /\ ToSet(awaitResp) \subseteq ToSet(o) \cup {r} \cup lost
  BY <1>1, <1>2, <1>3, TakeRequest
<1>7. \A M : /\ lost \subseteq M
             /\ \A i \in Answers(Stream) : i <= n => Stream[i].call \in M \cup {r}
             => Link(Drop(Stream, n), server, hungUp, o, M, cseqOf, socket, quirk)
  BY <1>1, <1>2, <1>3, <1>5, TakeRequest
<1>8. /\ CallsIn(buffer) \subseteq 1 .. issued /\ m.call \in CallsIn(buffer)
      /\ CallsIn(buffer) \subseteq ToSet(awaitResp)
  <2>1. 1 \in Answers(Stream) /\ 1 <= Len(buffer)
    BY <1>1, <1>4 DEF Answers
  <2> QED BY <1>1, <1>2, <1>3, <1>4, <2>1, BufferCalls
<1>9. ToSet(awaitResp) \subseteq Waiting /\ Waiting \subseteq 1 .. issued /\ Waiting \subseteq Calls
      /\ Waiting \cap Done = {}
  <2>1. Waiting \cap Done = {}
    BY DEF Waiting
  <2> QED BY <1>2, <2>1, QueuedWait
<1>10. /\ m.kind = "head" => 2 \in DOMAIN Stream /\ Stream[2].kind = "tail"
       /\ m.close => m.kind = "whole" /\ Len(Stream) = 1
       /\ \A i \in DOMAIN Stream : i + 1 \in DOMAIN Stream /\ Stream[i + 1].kind = "tail" =>
             Stream[i].kind = "head"
  <2>1. Shape(Stream, server, hungUp, quirk) /\ 1 \in Answers(Stream)
    BY <1>1, <1>2, <1>4 DEF LinkInv, Link, Answers
  <2>2. m.kind = "head" => 2 \in DOMAIN Stream /\ Stream[2].kind = "tail"
    BY <1>4, <2>1 DEF Shape
  <2>3. m.close => m.kind = "whole" /\ Len(Stream) = 1
    BY <1>4, <2>1 DEF Shape
  <2> QED BY <1>2, <2>2, <2>3, AnswersWait
<1>11. buffer' = Drop(buffer, n)
  <2>1. CASE m.kind = "head"
    BY <1>1, <2>1 DEF Extra, Drop
  <2>2. CASE m.kind # "head"
    BY <1>1, <2>2 DEF Extra, Drop
  <2> QED BY <2>1, <2>2
<1>12. n \in {1, 2} /\ (n = 2 <=> m.kind = "head")
  OBVIOUS
<1>13. buffer' \in Seq(Parts) /\ Len(buffer') < Room
  <2>1. Drop(buffer, n) \in Seq(Parts) /\ Len(Drop(buffer, n)) = Len(buffer) - n
    BY <1>4, <1>5, DropIs
  <2>2. Len(buffer) < Room
    BY <1>2 DEF ReqTypeOK
  <2> QED BY <1>4, <1>5, <1>11, <2>1, <2>2, RoomAssumption
<1>14. a \in Calls \cup {Error} /\ a \in {m.call, Error}
  BY <1>6, <1>9
<1> HIDE DEF m, r, o, n, a
<1>15. /\ Done' = Done \cup {r} /\ Waiting' = Waiting \ {r} /\ r \notin Done
       /\ Done' \subseteq 1 .. issued' /\ \A d \in Done' : result'[d] \in Calls \cup {Error}
       /\ result'[r] = a /\ \A d \in Done : result'[d] = result[d]
       /\ inHandler' \in BOOLEAN
  BY <1>1, <1>2, <1>6, <1>14, Called
<1>16. /\ lost \subseteq lost' /\ lost' \subseteq 1 .. issued /\ lost' \cap Done \subseteq lost
       /\ ConnAfter(m) = "none" => ToSet(o) \subseteq lost'
       /\ m.call \in lost' \cup {r}
       /\ lost' \subseteq lost \cup (ToSet(awaitResp) \ {r})
  <2>1. LeftBehind(o, ConnAfter(m)) \subseteq ToSet(o)
    BY <1>6 DEF LeftBehind
  <2>2. lost \subseteq 1 .. issued
    BY <1>2 DEF ReqTypeOK
  <2>3. ConnAfter(m) = "none" => ToSet(o) = LeftBehind(o, ConnAfter(m))
    BY DEF LeftBehind
  <2>4. (IF looping' THEN {m.call} ELSE CallsIn(buffer)) \subseteq CallsIn(buffer)
        /\ m.call \in (IF looping' THEN {m.call} ELSE CallsIn(buffer))
    BY <1>8
  <2>5. /\ lost \subseteq lost'
        /\ lost' \subseteq lost \cup ToSet(o) \cup (CallsIn(buffer) \ Done')
        /\ m.call \in lost' \cup Done'
    BY <1>1, <2>1, <2>4
  <2>6. ConnAfter(m) = "none" => ToSet(o) \subseteq lost'
    BY <1>1, <2>3
  <2>7. m.call \in lost' \cup {r}
    BY <1>6, <1>9, <1>15, <2>5
  <2>8. lost' \subseteq 1 .. issued /\ lost' \cap Done \subseteq lost
    BY <1>6, <1>8, <1>9, <1>15, <2>2, <2>5
  <2>9. lost' \subseteq lost \cup (ToSet(awaitResp) \ {r})
    BY <1>6, <1>8, <1>15, <2>5
  <2> QED BY <2>5, <2>6, <2>7, <2>8, <2>9
<1>17. ASSUME NEW i \in Answers(Stream), i <= n PROVE Stream[i].call \in lost' \cup {r}
  <2>1. i \in 1 .. Len(Stream) /\ IsAnswerPart(Stream[i])
    BY <1>4 DEF Answers
  <2>2. i # 2
    BY <1>10, <1>12, <1>17, <2>1 DEF IsAnswerPart
  <2>3. i = 1
    BY <1>12, <1>17, <2>1, <2>2
  <2> QED BY <1>4, <1>16, <2>3
<1>18. \/ socket' = "none" /\ server' = <<>> /\ wire' = <<>> /\ hungUp' = FALSE
             /\ buffer' = <<>> /\ Stream' = <<>> /\ ToSet(o) \subseteq lost'
       \/ socket' = "open" /\ UNCHANGED <<server, wire, hungUp>> /\ Stream' = Drop(Stream, n)
  <2>1. CASE m.close
    <3>1. socket' = "none" /\ server' = <<>> /\ wire' = <<>> /\ hungUp' = FALSE
      BY <1>1, <2>1 DEF ConnAfter, DropConnection
    <3>2. n = Len(buffer)
      BY <1>4, <1>10, <1>12, <2>1
    <3>3. buffer' = <<>>
      BY <1>4, <1>11, <3>2, DropAll
    <3>4. Stream' = <<>>
      BY <3>1, <3>3, ConcatEmptySeq DEF Stream
    <3>5. ToSet(o) \subseteq lost'
      BY <1>16, <2>1 DEF ConnAfter
    <3> QED BY <3>1, <3>3, <3>4, <3>5
  <2>2. CASE ~m.close
    <3>1. socket' = "open" /\ UNCHANGED <<server, wire, hungUp>>
      BY <1>1, <1>6, <2>2 DEF ConnAfter, DropConnection
    <3>2. Drop(buffer, n) \o wire = Drop(buffer \o wire, n)
      BY <1>4, <1>5, DropOfConcat
    <3> QED BY <1>11, <3>1, <3>2 DEF Stream
  <2> QED BY <2>1, <2>2
<1>19. /\ wire' \in Seq(Parts) /\ server' \in Seq(Calls \X CSeqs) /\ hungUp' \in BOOLEAN
       /\ socket' \in {"none", "pending", "open"}
  <2>1. socket' \in {"none", "pending", "open"}
    BY <1>18
  <2>2. \/ server' = <<>> /\ wire' = <<>> /\ hungUp' = FALSE
        \/ UNCHANGED <<server, wire, hungUp>>
    BY <1>18
  <2> QED BY <1>2, <2>1, <2>2, DropTypes
<1>20. LinkInv'
  <2>1. CASE /\ socket' = "none" /\ server' = <<>> /\ hungUp' = FALSE
             /\ Stream' = <<>> /\ ToSet(o) \subseteq lost'
    BY <1>1, <2>1, LinkNothing DEF LinkInv
  <2>2. CASE socket' = "open" /\ UNCHANGED <<server, wire, hungUp>> /\ Stream' = Drop(Stream, n)
    <3>1. Link(Drop(Stream, n), server, hungUp, o, lost', cseqOf, socket, quirk)
      BY <1>7, <1>16, <1>17
    <3> QED BY <1>1, <1>6, <2>2, <3>1 DEF LinkInv
  <2> QED BY <1>18, <2>1, <2>2
<1>21. ReqTypeOK'
  <2>1. looping' \in BOOLEAN /\ again' \in BOOLEAN
    BY <1>1
  <2> QED BY <1>1, <1>2, <1>6, <1>13, <1>15, <1>16, <1>19, <2>1 DEF ReqTypeOK
<1>22. /\ ToSet(Drop(Stream, n)) \subseteq ToSet(Stream)
       /\ Drop(Stream, n) # <<>> => n + 1 \in DOMAIN Stream /\ Drop(Stream, n)[1] = Stream[n + 1]
  BY <1>4, <1>5, RestIs
<1>23. Named'
  <2>1. ToSet(Stream') \subseteq ToSet(Stream)
    BY <1>18, <1>22, EmptyQueue
  <2> QED BY <1>1, <1>2, <2>1, NamedStays
<1>24. Numbered' /\ Alone'
  <2>1. Waiting' \subseteq Waiting
    BY <1>15
  <2> QED BY <1>1, <1>2, <2>1, AloneStays DEF Numbered
<1>25. Spared'
  <2> SUFFICES ASSUME ~closed
               PROVE  /\ lost' \subseteq exposed
                      /\ ~(Stream' # <<>> /\ Stream'[1].kind = "tail")
    BY <1>1 DEF Spared
  <2>1. lost' \subseteq lost \cup (ToSet(awaitResp) \ {r}) /\ lost \subseteq exposed
    BY <1>2, <1>16 DEF Spared
  <2>2. ASSUME NEW c \in ToSet(awaitResp) \ {r} PROVE c \in exposed
    BY <1>2, <1>6, <1>9, AloneTaken
  <2>3. ASSUME Stream' # <<>>, Stream'[1].kind = "tail" PROVE FALSE
    <3>1. Stream' = Drop(Stream, n)
      BY <1>18, <2>3
    <3>2. n + 1 \in DOMAIN Stream /\ Stream[n + 1].kind = "tail" /\ n \in DOMAIN Stream
      BY <1>4, <1>5, <1>22, <2>3, <3>1
    <3>3. Stream[n].kind = "head"
      BY <1>10, <3>2
    <3>4. CASE n = 1
      BY <1>4, <1>12, <3>3, <3>4
    <3>5. CASE n = 2
      BY <1>10, <1>12, <3>3, <3>5
    <3> QED BY <1>12, <3>4, <3>5
  <2> QED BY <2>1, <2>2, <2>3
<1>26. Placed'
  <2>1. Partition(ToSet(awaitConn), ToSet(o), ToSet(resuming), ToSet(failing),
                  Waiting \ {r}, lost')
    BY <1>2, <1>6, <1>16, PartitionTake DEF Placed
  <2> QED BY <1>1, <1>2, <1>6, <1>15, <2>1 DEF Placed
<1>27. Phases'
  <2>1. awaitConn = <<>>
    BY <1>2, <1>6 DEF Phases, ConnectingWhileQueued
  <2>2. looping' => buffer' # <<>>
    BY <1>1
  <2>3. ASSUME again', IsAnswerPart(buffer'[1]), buffer'[1].code = "bad" PROVE FALSE
    <3>1. buffer' = Drop(buffer, n) /\ buffer' # <<>>
      BY <1>1, <1>11, <2>3
    <3>2. n + 1 \in DOMAIN buffer /\ buffer'[1] = buffer[n + 1]
      BY <1>4, <1>5, <3>1, RestIs
    <3>3. n + 1 \in DOMAIN Stream /\ Stream[n + 1] = buffer[n + 1]
      <4>1. n + 1 \in 1 .. Len(buffer)
        BY <1>4, <3>2, SeqIs
      <4>2. n + 1 \in 1 .. Len(Stream)
        BY <1>4, <4>1
      <4> QED BY <1>2, <1>4, <4>1, <4>2, StreamIs
    <3>4. n + 1 \in Answers(Stream)
      BY <2>3, <3>2, <3>3 DEF Answers
    <3>5. n + 1 = 1
      BY <1>2, <2>3, <3>2, <3>3, <3>4 DEF LinkInv, Link, Shape
    <3>6. n \in Nat /\ n # 0
      BY <1>5
    <3> HIDE DEF n
    <3> QED BY <3>5, <3>6
  <2> QED BY <1>1, <1>3, <1>18, <2>1, <2>2, <2>3 DEF Phases, ConnectingWhileQueued
<1>28. Settled
  <2>1. a \in {r, Error} \/ r \in lost'
    BY <1>6, <1>14, <1>16
  <2> QED BY <1>1, <1>6, <1>15, <1>16, <2>1 DEF Settled
<1> QED BY <1>20, <1>21, <1>23, <1>24, <1>25, <1>26, <1>27, <1>28 DEF IInv

\* The request is sent again, and waits under its new number.
LEMMA AskAgainStep ==
    ASSUME IInv, AskAgain PROVE IInv' /\ Settled
<1> DEFINE m == buffer[1]
           r == Request(m)
           o == Others(m)
           n == Len(buffer)
           k == IF m.code = "redirect" THEN "none" ELSE ConnAfter(m)
<1>1. /\ looping /\ IsAnswerPart(m) /\ m.code \in {"retry", "redirect"} /\ ~IsIncomplete
      /\ lastCSeq' = lastCSeq + 1
      /\ cseqOf' = [cseqOf EXCEPT ![r] = lastCSeq']
      /\ SendRequest(r, o, k)
      /\ buffer' = <<>> /\ looping' = FALSE /\ again' = FALSE
      /\ UNCHANGED <<issued, silent, resuming, failing, closed, quirk, resends, exposed>>
      /\ lost' = lost \cup LeftBehind(o, k) \cup (CallsIn(buffer) \ (Done \cup {r}))
  BY DEF AskAgain, IsAnswer, IsAnswerPart
<1>2. ReqTypeOK /\ Numbered /\ Placed /\ Phases /\ LinkInv /\ Named /\ Alone /\ Spared
  BY DEF IInv
<1>3. buffer # <<>> /\ resuming = <<>> /\ failing = <<>>
  BY <1>1, <1>2 DEF Phases
<1>4. /\ Stream \in Seq(Parts) /\ DOMAIN Stream = 1 .. Len(Stream) /\ Len(Stream) \in Nat
      /\ Drop(Stream, n) = wire /\ 1 \in DOMAIN Stream /\ Stream[1] = m
      /\ n \in 1 .. n /\ n \in 0 .. Len(Stream) /\ n \in Nat
  BY <1>2, <1>3, StreamIs
<1>5. /\ socket = "open" /\ m.call \in Waiting
      /\ r \in Waiting /\ r \in 1 .. issued /\ r \in Calls /\ r \in ToSet(awaitResp)
      /\ o \in Seq(Calls) /\ Once(o)
      /\ ToSet(o) \subseteq ToSet(awaitResp) \ {r}
      /\ ToSet(awaitResp) \subseteq ToSet(o) \cup {r} \cup lost
      /\ \A i \in Answers(Stream) : i # 1 => Stream[i].call \in ToSet(o)
      /\ \A M : /\ lost \subseteq M
                /\ \A i \in Answers(Stream) : i <= n => Stream[i].call \in M \cup {r}
                => Link(Drop(Stream, n), server, hungUp, o, M, cseqOf, socket, quirk)
  BY <1>1, <1>2, <1>3, <1>4, TakeRequest
<1>6. /\ CallsIn(buffer) \subseteq 1 .. issued
      /\ \A i \in Answers(Stream) : i <= n => Stream[i].call \in CallsIn(buffer)
      /\ CallsIn(buffer) \subseteq ToSet(awaitResp)
  BY <1>1, <1>2, <1>3, BufferCalls
<1>7. /\ ToSet(awaitResp) \subseteq Waiting /\ Waiting \subseteq 1 .. issued
      /\ Waiting \cap Done = {}
  <2>1. Waiting \cap Done = {}
    BY DEF Waiting
  <2> QED BY <1>2, <2>1, QueuedWait
<1>8. k \in {"none", "open"}
  BY <1>5 DEF ConnAfter
<1>9. /\ lost \subseteq lost' /\ lost' \subseteq 1 .. issued /\ lost' \cap Done \subseteq lost
      /\ k = "none" => ToSet(o) \subseteq lost'
      /\ lost' \subseteq lost \cup (ToSet(awaitResp) \ {r})
  <2>1. LeftBehind(o, k) \subseteq ToSet(o)
    BY DEF LeftBehind
  <2>2. lost \subseteq 1 .. issued
    BY <1>2 DEF ReqTypeOK
  <2>3. k = "none" => ToSet(o) = LeftBehind(o, k)
    BY DEF LeftBehind
  <2> HIDE DEF k, m, r, o, n
  <2>4. lost \subseteq lost' /\ lost' \subseteq 1 .. issued /\ lost' \cap Done \subseteq lost
    BY <1>1, <1>5, <1>6, <1>7, <2>1, <2>2
  <2>5. k = "none" => ToSet(o) \subseteq lost'
    BY <1>1, <2>3
  <2>6. lost' \subseteq lost \cup (ToSet(awaitResp) \ {r})
    BY <1>1, <1>5, <1>6, <2>1
  <2> QED BY <2>4, <2>5, <2>6
<1>10. IF n = 1 THEN m.kind # "head" ELSE TRUE
  BY <1>1 DEF IsIncomplete
<1> HIDE DEF m, r, o, n, k
<1>11. lastCSeq \in Nat /\ lastCSeq' \in CSeqs /\ lastCSeq' \in Nat /\ lastCSeq < lastCSeq'
  <2>1. lastCSeq \in Nat
    BY <1>2 DEF ReqTypeOK, CSeqs, NoCSeq
  <2> QED BY <1>1, <2>1 DEF CSeqs
<1>12. /\ cseqOf' \in [Calls -> CSeqs \cup {NoCSeq}] /\ cseqOf'[r] = lastCSeq'
       /\ \A c \in Calls : c # r => cseqOf'[c] = cseqOf[c]
  BY <1>1, <1>2, <1>5, <1>11 DEF ReqTypeOK
<1>13. /\ SendEnds(r, o)
       /\ socket' \in {"none", "pending", "open"}
       /\ (awaitConn' # <<>>) <=> (socket' = "pending")
       /\ socket' # "open" => wire' = <<>>
       /\ wire' \in {wire, <<>>} /\ wire' \in Seq(Parts)
       /\ server' \in Seq(Calls \X CSeqs) /\ hungUp' \in BOOLEAN
  <2>1. (awaitConn # <<>>) <=> (k = "pending")
    BY <1>2, <1>5, <1>8 DEF Phases, ConnectingWhileQueued
  <2>2. k \in {"none", "pending", "open"} /\ k # "pending" /\ cseqOf'[r] \in CSeqs
    BY <1>8, <1>11, <1>12
  <2> QED BY <1>1, <1>2, <1>5, <2>1, <2>2, SendIs
<1>14. \/ result' = result /\ inHandler' = inHandler /\ Done' = Done /\ Waiting' = Waiting
       \/ /\ Done' = Done \cup {r} /\ Waiting' = Waiting \ {r}
          /\ Done' \subseteq 1 .. issued' /\ \A d \in Done' : result'[d] \in Calls \cup {Error}
          /\ result'[r] = Error /\ \A d \in Done : result'[d] = result[d]
          /\ inHandler' \in BOOLEAN
  <2>1. CASE NoCall
    BY <1>1, <2>1, SameRequests DEF NoCall
  <2>2. CASE HandleRequestError(r)
    BY <1>1, <1>2, <1>5, <2>2, Called DEF HandleRequestError
  <2> QED BY <1>13, <2>1, <2>2 DEF SendEnds
<1>15. Waiting' = IF r \in Done' THEN Waiting \ {r} ELSE (Waiting \ {r}) \cup {r}
  <2>1. CASE Done' = Done /\ Waiting' = Waiting
    BY <1>5, <1>7, <2>1
  <2>2. CASE Done' = Done \cup {r} /\ Waiting' = Waiting \ {r}
    BY <2>2
  <2> QED BY <1>14, <2>1, <2>2
<1>16. Waiting' \subseteq Waiting
  BY <1>5, <1>15
<1>17. ReqTypeOK'
  <2>1. awaitConn' \in Seq(Calls) /\ awaitResp' \in Seq(Calls)
    BY <1>2, <1>5, <1>13, SendQueues
  <2>2. /\ Done' \subseteq 1 .. issued' /\ inHandler' \in BOOLEAN
        /\ \A d \in Done' : result'[d] \in Calls \cup {Error}
    <3>1. CASE result' = result /\ inHandler' = inHandler /\ Done' = Done
      BY <1>1, <1>2, <3>1 DEF ReqTypeOK
    <3> QED BY <1>14, <3>1
  <2>3. Len(buffer') < Room /\ buffer' \in Seq(Parts)
        /\ looping' \in BOOLEAN /\ again' \in BOOLEAN
    <3>1. Len(buffer') < Room /\ buffer' \in Seq(Parts)
      BY <1>1, RoomAssumption
    <3>2. looping' \in BOOLEAN /\ again' \in BOOLEAN
      BY <1>1
    <3> QED BY <3>1, <3>2
  <2>4. lastCSeq' \in CSeqs \cup {NoCSeq} /\ lost' \subseteq 1 .. issued'
    BY <1>1, <1>9, <1>11
  <2>5. resuming' \in Seq(Calls) /\ failing' \in Seq(Calls)
    BY <1>1, <1>2 DEF ReqTypeOK
  <2> QED BY <1>1, <1>2, <1>12, <1>13, <2>1, <2>2, <2>3, <2>4, <2>5 DEF ReqTypeOK
<1>18. Placed'
  <2>1. Partition(ToSet(awaitConn), ToSet(o), ToSet(resuming), ToSet(failing),
                  Waiting \ {r}, lost') /\ Once(resuming) /\ Once(failing) /\ Once(awaitConn)
    BY <1>2, <1>5, <1>9, PartitionTake DEF Placed
  <2>2. r \notin Waiting \ {r} /\ r \notin Done
    BY <1>5, <1>7
  <2> QED BY <1>1, <1>2, <1>5, <1>13, <1>15, <2>1, <2>2, SendPlaced
<1>19. Phases'
  BY <1>1, <1>3, <1>13 DEF Phases, ConnectingWhileQueued
<1>20. LinkInv'
  <2>1. \A c \in ToSet(o) : cseqOf'[c] = cseqOf[c]
    <3>1. \A c \in ToSet(o) : c \in Calls /\ c # r
      BY <1>2, <1>5, <1>7, QueuedWait
    <3> QED BY <1>12, <3>1
  <2>2. ASSUME k = "none"
        PROVE  Link(buffer', <<>>, FALSE, o, lost', cseqOf', "none", quirk)
    BY <1>1, <1>9, <2>2, LinkNothing
  <2>3. ASSUME k # "none"
        PROVE  Link(buffer' \o wire, server, hungUp, o, lost', cseqOf', k, quirk)
    <3>1. ASSUME NEW i \in Answers(Stream), i <= n PROVE Stream[i].call \in lost' \cup {r}
      <4>1. Stream[i].call \in CallsIn(buffer) /\ Stream[i].call \notin Done
        BY <1>2, <1>6, <3>1, AnswersWait
      <4> QED BY <1>1, <4>1
    <3>2. Link(wire, server, hungUp, o, lost', cseqOf, socket, quirk)
      BY <1>4, <1>5, <1>9, <3>1
    <3>3. Link(wire, server, hungUp, o, lost', cseqOf', socket, quirk)
      BY <2>1, <3>2, LinkCs
    <3>4. buffer' \o wire = wire
      <4>1. wire \in Seq(Parts)
        BY <1>2 DEF ReqTypeOK
      <4> QED BY <1>1, <4>1, ConcatEmptySeq
    <3> QED BY <1>5, <1>8, <2>3, <3>3, <3>4
  <2>4. (awaitConn # <<>>) <=> (k = "pending")
    BY <1>2, <1>5, <1>8 DEF Phases, ConnectingWhileQueued
  <2>5. k \in {"none", "pending", "open"} /\ cseqOf'[r] \in CSeqs /\ quirk' = quirk
        /\ r \notin ToSet(o) /\ buffer' \in Seq(Parts)
    BY <1>1, <1>5, <1>8, <1>11, <1>12
  <2> QED BY <1>1, <1>2, <1>5, <2>2, <2>3, <2>4, <2>5, SendLink
<1>21. /\ Stream' = wire' /\ ToSet(wire) \subseteq ToSet(Stream)
       /\ wire # <<>> => n + 1 \in DOMAIN Stream /\ wire[1] = Stream[n + 1]
  BY <1>1, <1>4, <1>13, RestIs, ConcatEmptySeq DEF Stream
<1>22. Named'
  <2>1. ToSet(Stream') \subseteq ToSet(Stream)
    <3>1. ToSet(<<>>) = {}
      BY EmptyQueue
    <3>2. Stream' = wire \/ Stream' = <<>>
      BY <1>13, <1>21
    <3> QED BY <1>21, <3>1, <3>2
  <2> QED BY <1>1, <1>2, <2>1, NamedStays
<1>23. Alone'
  BY <1>1, <1>2, <1>16, AloneStays
<1>24. Numbered'
  <2>1. \A c \in 1 .. issued : c \in Calls /\ cseqOf[c] \in 1 .. lastCSeq
    BY <1>2, QueuedWait DEF Numbered
  <2>2. ASSUME NEW c \in 1 .. issued
        PROVE  /\ cseqOf'[c] \in 1 .. lastCSeq'
               /\ c # r => cseqOf'[c] = cseqOf[c] /\ cseqOf'[c] # lastCSeq'
    <3>1. lastCSeq' \in 1 .. lastCSeq'
      BY <1>11
    <3>2. CASE c = r
      BY <1>12, <3>1, <3>2
    <3>3. CASE c # r
      <4>1. cseqOf'[c] = cseqOf[c] /\ cseqOf[c] \in 1 .. lastCSeq
        BY <1>12, <2>1, <3>3
      <4>2. cseqOf[c] \in 1 .. lastCSeq' /\ cseqOf[c] # lastCSeq'
        BY <1>11, <4>1
      <4> QED BY <3>3, <4>1, <4>2
    <3> QED BY <3>2, <3>3
  <2>3. ASSUME NEW c \in 1 .. issued, NEW d \in 1 .. issued, cseqOf'[c] = cseqOf'[d]
        PROVE  c = d
    <3>1. CASE c # r /\ d # r
      BY <1>2, <2>2, <2>3, <3>1 DEF Numbered
    <3>2. CASE c = r \/ d = r
      BY <1>12, <2>2, <2>3, <3>2
    <3> QED BY <3>1, <3>2
  <2> QED BY <1>1, <2>2, <2>3 DEF Numbered
<1>25. Spared'
  <2> SUFFICES ASSUME ~closed
               PROVE  /\ lost' \subseteq exposed
                      /\ Stream' # <<>> /\ Stream'[1].kind = "tail" =>
                            Stream'[1].call \in lost'
    BY <1>1 DEF Spared
  <2>1. lost' \subseteq lost \cup (ToSet(awaitResp) \ {r}) /\ lost \subseteq exposed
    BY <1>2, <1>9 DEF Spared
  <2>2. ASSUME NEW c \in ToSet(awaitResp) \ {r} PROVE c \in exposed
    BY <1>2, <1>5, <1>7, AloneTaken
  <2>3. ASSUME Stream' # <<>>, Stream'[1].kind = "tail"
        PROVE  Stream'[1].call \in lost'
    <3> DEFINE c == Stream[n].call
    <3>1. /\ n + 1 \in DOMAIN Stream /\ Stream[n + 1].kind = "tail" /\ n \in DOMAIN Stream
          /\ Stream'[1] = Stream[n + 1]
      <4>1. Stream' = wire /\ wire # <<>>
        BY <1>13, <1>21, <2>3
      <4>2. n + 1 \in DOMAIN Stream /\ Stream'[1] = Stream[n + 1]
        BY <1>21, <4>1
      <4>3. n \in DOMAIN Stream
        BY <1>4, <4>2
      <4> QED BY <2>3, <4>2, <4>3
    <3>2. n \in Answers(Stream) /\ Stream[n].kind = "head" /\ Stream'[1].call = c
      BY <1>2, <3>1, AnswersWait
    <3>3. n # 1
      BY <1>4, <1>10, <3>2
    <3>4. c \in ToSet(o) /\ c \in CallsIn(buffer) /\ c \notin Done
      <4>1. n <= n
        BY <1>4
      <4> QED BY <1>2, <1>5, <1>6, <3>2, <3>3, <4>1, AnswersWait
    <3>5. c \in lost'
      BY <1>1, <1>5, <3>4
    <3> QED BY <3>2, <3>5
  <2> QED BY <2>1, <2>2, <2>3
<1>26. Settled
  BY <1>1, <1>5, <1>9, <1>14 DEF Settled
<1> QED BY <1>17, <1>18, <1>19, <1>20, <1>22, <1>23, <1>24, <1>25, <1>26 DEF IInv

-----------------------------------------------------------------------------
(* The theorems.                                                            *)

LEMMA ReqInitInv == ReqInit => IInv
<1> SUFFICES ASSUME ReqInit PROVE IInv
  OBVIOUS
<1>1. /\ issued = 0 /\ silent = {} /\ lastCSeq = 0 /\ cseqOf = [c \in Calls |-> NoCSeq]
      /\ awaitConn = <<>> /\ awaitResp = <<>> /\ resuming = <<>> /\ failing = <<>>
      /\ inHandler = FALSE /\ closed = FALSE /\ looping = FALSE /\ again = FALSE
      /\ socket = "none" /\ buffer = <<>> /\ quirk \in Quirks
      /\ server = <<>> /\ hungUp = FALSE /\ wire = <<>> /\ resends = 0
      /\ result = [c \in {} |-> Error] /\ lost = {} /\ exposed = {}
  BY DEF ReqInit
<1>2. Done = {} /\ Waiting = {} /\ 1 .. issued = {}
  BY <1>1 DEF Done, Waiting
<1>3. Stream = <<>> /\ ToSet(Stream) = {}
  BY <1>1, EmptyQueue, ConcatEmptySeq DEF Stream
<1>4. ReqTypeOK
  <2>1. issued \in 0 .. MaxCalls /\ resends \in 0 .. MaxResends /\ Len(buffer) < Room
    BY <1>1, BoundsAssumption, RoomAssumption
  <2>2. lastCSeq \in CSeqs \cup {NoCSeq} /\ cseqOf \in [Calls -> CSeqs \cup {NoCSeq}]
    BY <1>1 DEF NoCSeq
  <2>3. server \in Seq(Calls \X CSeqs) /\ wire \in Seq(Parts) /\ buffer \in Seq(Parts)
    BY <1>1
  <2>4. \A q \in {awaitConn, awaitResp, resuming, failing} : q \in Seq(Calls)
    BY <1>1, EmptyQueue
  <2> QED BY <1>1, <1>2, <2>1, <2>2, <2>3, <2>4 DEF ReqTypeOK
<1>5. Numbered /\ Named /\ Alone
  BY <1>2, <1>3 DEF Numbered, Named, Alone
<1>6. Placed
  <2>1. Partition({}, {}, {}, {}, {}, lost)
    BY DEF Partition
  <2> QED BY <1>1, <1>2, <2>1, EmptyQueue DEF Placed
<1>7. Phases
  BY <1>1 DEF Phases, ConnectingWhileQueued
<1>8. LinkInv
  <2>1. ToSet(awaitResp) \subseteq lost
    BY <1>1, EmptyQueue
  <2> QED BY <1>1, <1>3, <2>1, LinkNothing DEF LinkInv
<1>9. Spared
  BY <1>1, <1>3 DEF Spared
<1> QED BY <1>4, <1>5, <1>6, <1>7, <1>8, <1>9 DEF IInv

LEMMA QuirkStays == [ReqNext]_reqVars => quirk' = quirk
  BY DEF ReqNext, ReqLoopStep, LookAtBuffer, reqVars, Issue, Destroy, HandlerReturns, Resume,
         FailNext, WaitForBody, NotAnAnswer, BadAnswer, AskAgain, GiveAnswer, ConnectionOpens,
         ConnectionFails, Read, Truncated, ReadFails, Answer, Skip, Ask

LEMMA ReqStutterInv == ASSUME IInv, UNCHANGED reqVars PROVE IInv' /\ Settled
<1>1. /\ UNCHANGED <<inHandler, closed, socket, buffer, looping, again, quirk, result, lost,
                     exposed>>
      /\ UNCHANGED <<issued, silent, cseqOf, lastCSeq, awaitConn, awaitResp, resuming, failing,
                     server, hungUp, wire, resends>>
  BY DEF reqVars, requestVars, queueVars, serverVars
<1>2. Done' = Done /\ Waiting' = Waiting /\ Stream' = Stream
  BY <1>1 DEF Done, Waiting, Stream
<1>3. ReqTypeOK'
  BY <1>1, <1>2 DEF IInv, ReqTypeOK
<1>4. Numbered' /\ Placed' /\ LinkInv' /\ Named' /\ Alone' /\ Spared'
  BY <1>1, <1>2 DEF IInv, Numbered, Placed, LinkInv, Named, Alone, Spared
<1>5. Phases'
  BY <1>1 DEF IInv, Phases, ConnectingWhileQueued
<1>6. Settled
  BY <1>1, <1>2 DEF Settled, IInv, ReqTypeOK
<1> QED BY <1>3, <1>4, <1>5, <1>6 DEF IInv

\* Every step keeps the invariant, and issues a request or settles some.
LEMMA ReqStepInv ==
    ASSUME IInv, Orderly, [ReqNext]_reqVars
    PROVE  IInv' /\ (Started \/ Settled)
<1>1. CASE Issue
  BY <1>1, IssueStep
<1>2. CASE Destroy
  BY <1>2, DestroyStep
<1>3. CASE HandlerReturns
  BY <1>3, HandlerReturnsStep
<1>4. CASE Resume
  BY <1>4, ResumeStep
<1>5. CASE FailNext
  BY <1>5, FailNextStep
<1>6. CASE WaitForBody
  BY <1>6, WaitForBodyStep
<1>7. CASE NotAnAnswer
  BY <1>7, NotAnAnswerStep
<1>8. CASE BadAnswer
  BY <1>8, BadAnswerStep
<1>9. CASE AskAgain
  BY <1>9, AskAgainStep
<1>10. CASE GiveAnswer
  BY <1>10, GiveAnswerStep
<1>11. CASE ConnectionOpens \/ ConnectionFails
  BY <1>11, ConnectionStep
<1>12. CASE Read
  BY <1>12, ReadStep
<1>13. CASE Truncated
  BY <1>13, TruncatedStep
<1>14. CASE ReadFails
  BY <1>14, ReadFailsStep
<1>15. CASE Answer
  BY <1>15, AnswerStep
<1>16. CASE Skip
  BY <1>16, SkipStep
<1>17. CASE Ask
  BY <1>17, AskStep
<1>18. CASE UNCHANGED reqVars
  BY <1>18, ReqStutterInv
<1> QED BY <1>1, <1>2, <1>3, <1>4, <1>5, <1>6, <1>7, <1>8, <1>9, <1>10, <1>11, <1>12, <1>13,
           <1>14, <1>15, <1>16, <1>17, <1>18 DEF ReqNext, ReqLoopStep, LookAtBuffer

LEMMA ReqInvariance == ReqSpec => [](Orderly => IInv)
<1>1. ReqInit => (Orderly => IInv)
  BY ReqInitInv
<1>2. (Orderly => IInv) /\ [ReqNext]_reqVars => (Orderly => IInv)'
  BY ReqStepInv, QuirkStays DEF Orderly
<1> QED BY <1>1, <1>2, PTL DEF ReqSpec

\* Two queues that share nothing, one behind the other.
LEMMA OnceConcat ==
    ASSUME NEW s \in Seq(Calls), NEW t \in Seq(Calls), Once(s), Once(t),
           ToSet(s) \cap ToSet(t) = {}
    PROVE  /\ s \o t \in Seq(Calls) /\ Once(s \o t)
           /\ ToSet(s \o t) = ToSet(s) \cup ToSet(t)
<1> DEFINE u == s \o t
           k == Len(s)
           l == Len(t)
<1>1. /\ u \in Seq(Calls) /\ Len(u) = k + l
      /\ \A i \in 1 .. k : u[i] = s[i]
      /\ \A i \in 1 .. l : u[k + i] = t[i]
      /\ ToSet(u) = ToSet(s) \cup ToSet(t)
  BY ConcatIs
<1>2. /\ k \in Nat /\ DOMAIN s = 1 .. k /\ ToSet(s) = {s[i] : i \in 1 .. k}
      /\ l \in Nat /\ DOMAIN t = 1 .. l /\ ToSet(t) = {t[i] : i \in 1 .. l}
  BY SeqIs
<1> HIDE DEF u, k, l
<1>3. DOMAIN u = 1 .. k + l
  <2>1. DOMAIN u = 1 .. Len(u)
    BY <1>1, SeqIs
  <2> QED BY <1>1, <2>1
<1>4. ASSUME NEW i \in DOMAIN u
      PROVE  \/ i \in 1 .. k /\ u[i] = s[i] /\ u[i] \in ToSet(s)
             \/ i - k \in 1 .. l /\ u[i] = t[i - k] /\ u[i] \in ToSet(t) /\ i \in Int
  <2>1. CASE i <= k
    <3>1. i \in 1 .. k
      BY <1>2, <1>3, <2>1
    <3> QED BY <1>1, <1>2, <3>1
  <2>2. CASE ~(i <= k)
    <3>1. i - k \in 1 .. l /\ k + (i - k) = i /\ i \in Int
      BY <1>2, <1>3, <2>2
    <3>2. u[i] = t[i - k]
      BY <1>1, <3>1
    <3> QED BY <1>2, <3>1, <3>2
  <2> QED BY <2>1, <2>2
<1>5. ASSUME NEW i \in DOMAIN u, NEW j \in DOMAIN u, u[i] = u[j] PROVE i = j
  <2>1. CASE i \in 1 .. k /\ u[i] = s[i] /\ u[i] \in ToSet(s)
    <3>1. j \in 1 .. k /\ u[j] = s[j]
      BY <1>4, <1>5, <2>1
    <3> QED BY <1>2, <1>5, <2>1, <3>1 DEF Once
  <2>2. CASE i - k \in 1 .. l /\ u[i] = t[i - k] /\ u[i] \in ToSet(t) /\ i \in Int
    <3>1. j - k \in 1 .. l /\ u[j] = t[j - k] /\ j \in Int
      BY <1>4, <1>5, <2>2
    <3>2. i - k = j - k
      BY <1>2, <1>5, <2>2, <3>1 DEF Once
    <3> QED BY <1>2, <2>2, <3>1, <3>2
  <2> QED BY <1>4, <2>1, <2>2
<1>6. Once(u)
  BY <1>5 DEF Once
<1> QED BY <1>1, <1>6 DEF u

LEMMA QueuedOnce ==
    ASSUME ReqTypeOK, Apart
    PROVE  /\ InOnePlace
           /\ ToSet(Queued) = ToSet(awaitConn) \cup ToSet(awaitResp) \cup ToSet(resuming)
                                 \cup ToSet(failing)
<1> DEFINE a == awaitConn
           b == awaitResp
           r == resuming
           f == failing
<1>1. a \in Seq(Calls) /\ b \in Seq(Calls) /\ r \in Seq(Calls) /\ f \in Seq(Calls)
  BY DEF ReqTypeOK
<1>2. /\ Once(a) /\ Once(b) /\ Once(r) /\ Once(f)
      /\ ToSet(a) \cap ToSet(b) = {} /\ ToSet(a) \cap ToSet(r) = {} /\ ToSet(a) \cap ToSet(f) = {}
      /\ ToSet(b) \cap ToSet(r) = {} /\ ToSet(b) \cap ToSet(f) = {} /\ ToSet(r) \cap ToSet(f) = {}
      /\ ToSet(a) \cup ToSet(b) \cup ToSet(r) \cup ToSet(f) \subseteq Waiting
  BY DEF Apart, Partition
<1> DEFINE ab == a \o b
           abr == ab \o r
           abrf == abr \o f
<1>3. abrf = Queued
  BY DEF Queued
<1> HIDE DEF a, b, r, f
<1>4. ab \in Seq(Calls) /\ Once(ab) /\ ToSet(ab) = ToSet(a) \cup ToSet(b)
  BY <1>1, <1>2, OnceConcat
<1> HIDE DEF ab
<1>5. abr \in Seq(Calls) /\ Once(abr) /\ ToSet(abr) = ToSet(ab) \cup ToSet(r)
  <2>1. ToSet(ab) \cap ToSet(r) = {}
    BY <1>2, <1>4
  <2> QED BY <1>1, <1>2, <1>4, <2>1, OnceConcat
<1> HIDE DEF abr
<1>6. Once(abrf) /\ ToSet(abrf) = ToSet(abr) \cup ToSet(f)
  <2>1. ToSet(abr) \cap ToSet(f) = {}
    BY <1>2, <1>4, <1>5
  <2> QED BY <1>1, <1>2, <1>5, <2>1, OnceConcat
<1> QED BY <1>2, <1>3, <1>4, <1>5, <1>6 DEF InOnePlace, IsInjective, Once, a, b, r, f

\* In particular the queues are apart.
LEMMA PlacedApart == Placed => Apart
  BY DEF Placed, Apart, Partition

LEMMA QueuedFound == ASSUME IInv PROVE NotForgotten
<1>1. ReqTypeOK /\ Placed /\ LinkInv
  BY DEF IInv
<1> SUFFICES ASSUME NEW c \in Waiting \ lost
             PROVE  /\ c \in ToSet(Queued)
                    /\ c \in ToSet(awaitResp) =>
                         /\ socket = "open"
                         /\ \/ hungUp
                            \/ <<c, cseqOf[c]>> \in ToSet(server)
                            \/ \E p \in ToSet(buffer \o wire) :
                                  p.call = c /\ p.cseq \in {cseqOf[c], NoCSeq}
  BY DEF NotForgotten
<1>2. c \in ToSet(Queued)
  BY <1>1, PlacedApart, QueuedOnce DEF Placed, Partition
<1>3. ASSUME c \in ToSet(awaitResp)
      PROVE  /\ socket = "open"
             /\ \/ hungUp
                \/ <<c, cseqOf[c]>> \in ToSet(server)
                \/ \E p \in ToSet(buffer \o wire) :
                      p.call = c /\ p.cseq \in {cseqOf[c], NoCSeq}
  <2>1. /\ Order(Stream, server, awaitResp, cseqOf)
        /\ Kept(Stream, server, hungUp, awaitResp, lost)
        /\ socket # "open" => ToSet(awaitResp) \subseteq lost
    BY <1>1 DEF LinkInv, Link, Cut
  <2>2. socket = "open"
    BY <1>3, <2>1
  <2>3. ASSUME NEW i \in Answers(Stream), Stream[i].call = c
        PROVE  \E p \in ToSet(buffer \o wire) : p.call = c /\ p.cseq \in {cseqOf[c], NoCSeq}
    <3>1. Stream[i].cseq \in {cseqOf[c], NoCSeq}
      BY <2>1, <2>3 DEF Order
    <3>2. Stream[i] \in ToSet(buffer \o wire)
      <4>1. Stream \in Seq(Parts) /\ i \in 1 .. Len(Stream)
        BY <1>1, StreamIs DEF Answers
      <4>2. Stream[i] \in ToSet(Stream)
        BY <4>1, SeqIs
      <4> QED BY <4>2 DEF Stream
    <3> QED BY <2>3, <3>1, <3>2
  <2>4. ASSUME NEW j \in DOMAIN server, server[j][1] = c
        PROVE  <<c, cseqOf[c]>> \in ToSet(server)
    <3>1. server \in Seq(Calls \X CSeqs)
      BY <1>1 DEF ReqTypeOK
    <3>2. server[j] \in Calls \X CSeqs /\ server[j] \in ToSet(server)
      BY <3>1, SeqIs
    <3>3. server[j][2] = cseqOf[c]
      BY <2>1, <2>4 DEF Order
    <3>4. server[j] = <<c, cseqOf[c]>>
      BY <2>4, <3>2, <3>3
    <3> QED BY <3>2, <3>4
  <2> QED BY <1>3, <2>1, <2>2, <2>3, <2>4 DEF Kept
<1> QED BY <1>2, <1>3

-----------------------------------------------------------------------------
(* The types, whatever the server does.                                    *)

\* Parts that belong to one of n requests, or to none if the server asks.
PartsOfCalls(n) ==
    {p \in Parts : p.call \in 0 .. n /\ (p.kind # "alien" => p.call # 0)}

\* Whatever is in a queue, at the server or on its way belongs to a request that
\* was issued and has a CSeq; there is something to look at while the loop over
\* answers goes on.
TypesInv ==
    /\ issued \in 0 .. MaxCalls
    /\ silent \subseteq 1 .. issued
    /\ cseqOf \in [Calls -> CSeqs \cup {NoCSeq}] /\ \A c \in 1 .. issued : cseqOf[c] \in CSeqs
    /\ lastCSeq \in Nat
    /\ awaitConn \in Seq(1 .. issued) /\ awaitResp \in Seq(1 .. issued)
    /\ resuming \in Seq(1 .. issued) /\ failing \in Seq(1 .. issued)
    /\ socket \in {"none", "pending", "open"}
    /\ buffer \in Seq(PartsOfCalls(issued)) /\ Len(buffer) < Room
    /\ looping => buffer # <<>>
    /\ inHandler \in BOOLEAN /\ closed \in BOOLEAN /\ looping \in BOOLEAN
    /\ again \in BOOLEAN
    /\ quirk \in Quirks
    /\ server \in Seq((1 .. issued) \X CSeqs) /\ hungUp \in BOOLEAN
    /\ wire \in Seq(PartsOfCalls(issued))
    /\ resends \in 0 .. MaxResends
    /\ Done \subseteq 1 .. issued /\ \A c \in Done : result[c] \in Calls \cup {Error}
    /\ lost \subseteq 1 .. issued
    /\ exposed \subseteq 1 .. issued

\* A sequence of some things is one of more things.
LEMMA SeqGrows ==
    ASSUME NEW S, NEW T, S \subseteq T, NEW s \in Seq(S)
    PROVE  s \in Seq(T)
  BY SeqMonotonic

LEMMA TypesEnough == TypesInv => ReqTypeOK
<1> SUFFICES ASSUME TypesInv PROVE ReqTypeOK
  OBVIOUS
<1>1. 1 .. issued \subseteq Calls /\ issued \in Nat
  BY BoundsAssumption DEF TypesInv, Calls
<1>2. \A q \in {awaitConn, awaitResp, resuming, failing} : q \in Seq(Calls)
  <2>1. \A q \in Seq(1 .. issued) : q \in Seq(Calls)
    BY <1>1, SeqGrows
  <2> QED BY <2>1 DEF TypesInv
<1>3. buffer \in Seq(Parts) /\ wire \in Seq(Parts)
  <2>1. PartsOfCalls(issued) \subseteq Parts
    BY DEF PartsOfCalls
  <2> QED BY <2>1, SeqGrows DEF TypesInv
<1>4. server \in Seq(Calls \X CSeqs)
  <2>1. (1 .. issued) \X CSeqs \subseteq Calls \X CSeqs
    BY <1>1
  <2> QED BY <2>1, SeqGrows DEF TypesInv
<1>5. lastCSeq \in CSeqs \cup {NoCSeq}
  BY DEF TypesInv, CSeqs, NoCSeq
<1> QED BY <1>2, <1>3, <1>4, <1>5 DEF TypesInv, ReqTypeOK

\* The rest of a sequence.
LEMMA RestOfSeq ==
    ASSUME NEW S, NEW s \in Seq(S), NEW a \in Nat, a >= 1
    PROVE  SubSeq(s, a, Len(s)) \in Seq(S) /\ Len(SubSeq(s, a, Len(s))) <= Len(s)
<1>1. Len(s) \in Nat /\ \A i \in a .. Len(s) : s[i] \in S
  BY SeqIs
<1>2. /\ SubSeq(s, a, Len(s)) \in Seq(S)
      /\ Len(SubSeq(s, a, Len(s))) = IF a <= Len(s) THEN Len(s) - a + 1 ELSE 0
  BY <1>1, SubSeqProperties
<1> QED BY <1>1, <1>2

\* The place where a request is looked for.
LEMMA FoundAtIs ==
    ASSUME TypesInv, NEW m \in Parts
    PROVE  /\ FoundAt(awaitResp, m) \in 1 .. Len(awaitResp) + 1
           /\ Others(m) \in Seq(1 .. issued)
           /\ SubSeq(awaitResp, FoundAt(awaitResp, m), Len(awaitResp)) \in Seq(1 .. issued)
           /\ Found(m) => Request(m) \in 1 .. issued
<1> DEFINE q == awaitResp
           T == {i \in DOMAIN q : cseqOf[q[i]] >= m.cseq}
           f == FoundAt(q, m)
<1>1. /\ q \in Seq(1 .. issued) /\ Len(q) \in Nat /\ DOMAIN q = 1 .. Len(q)
      /\ \A i \in 1 .. Len(q) : q[i] \in 1 .. issued
  BY SeqIs DEF TypesInv
<1>2. f \in 1 .. Len(q) + 1
  <2>1. CASE m.cseq = NoCSeq
    BY <1>1, <2>1 DEF FoundAt
  <2>2. CASE m.cseq # NoCSeq /\ T = {}
    BY <1>1, <2>2 DEF FoundAt
  <2>3. CASE m.cseq # NoCSeq /\ T # {}
    <3>1. \E i \in T : \A j \in T : i <= j
      <4>1. T \subseteq Nat
        BY <1>1
      <4> HIDE DEF T
      <4> QED BY <2>3, <4>1, LeastOf
    <3> DEFINE i == CHOOSE i \in T : \A j \in T : i <= j
    <3>2. i \in T
      BY <3>1
    <3>3. f = IF cseqOf[q[i]] = m.cseq THEN i ELSE i + 1
      BY <2>3 DEF FoundAt
    <3>4. i \in 1 .. Len(q)
      BY <1>1, <3>2
    <3> HIDE DEF i
    <3> QED BY <1>1, <3>3, <3>4
  <2> QED BY <2>1, <2>2, <2>3
<1>3. Others(m) \in Seq(1 .. issued)
  <2>1. f + 1 \in Nat /\ f + 1 >= 1
    BY <1>1, <1>2
  <2> QED BY <1>1, <2>1, RestOfSeq DEF Others
<1>4. SubSeq(q, f, Len(q)) \in Seq(1 .. issued)
  <2>1. f \in Nat /\ f >= 1
    BY <1>1, <1>2
  <2> QED BY <1>1, <2>1, RestOfSeq
<1>5. Found(m) => Request(m) \in 1 .. issued
  <2> SUFFICES ASSUME f <= Len(q) PROVE q[f] \in 1 .. issued
    BY DEF Found, Request
  <2> QED BY <1>1, <1>2
<1> QED BY <1>2, <1>3, <1>4, <1>5

\* A handler is called, or not, when n requests were issued.
LEMMA CallTypes ==
    ASSUME TypesInv, NEW n \in Nat, issued <= n, NEW c \in 1 .. n,
           NEW r \in Calls \cup {Error}, CallHandler(c, r) \/ NoCall
    PROVE  /\ Done' \subseteq 1 .. n /\ \A d \in Done' : result'[d] \in Calls \cup {Error}
           /\ inHandler' \in BOOLEAN
<1>1. /\ Done \subseteq 1 .. issued /\ \A d \in Done : result[d] \in Calls \cup {Error}
      /\ inHandler \in BOOLEAN /\ issued \in Nat
  BY DEF TypesInv
<1>2. Done \subseteq 1 .. n
  BY <1>1
<1>3. CASE NoCall
  BY <1>1, <1>2, <1>3 DEF NoCall, Done
<1>4. CASE CallHandler(c, r)
  <2>1. /\ result' = [d \in Done \cup {c} |-> IF d = c THEN r ELSE result[d]]
        /\ inHandler' = (inHandler \/ c \notin silent')
    BY <1>4 DEF CallHandler, WithResult
  <2>2. Done' = Done \cup {c}
    BY <2>1 DEF Done
  <2>3. \A d \in Done' : result'[d] \in Calls \cup {Error}
    BY <1>1, <2>1, <2>2
  <2>4. inHandler' \in BOOLEAN
    BY <2>1
  <2> QED BY <1>2, <2>2, <2>3, <2>4
<1> QED BY <1>3, <1>4

\* A request is sent when n were issued.
LEMMA SendTypes ==
    ASSUME TypesInv, NEW n \in Nat, issued <= n, NEW c \in 1 .. n, NEW q \in Seq(1 .. n),
           NEW k \in {"none", "pending", "open"}, cseqOf'[c] \in CSeqs, SendRequest(c, q, k)
    PROVE  /\ awaitConn' \in Seq(1 .. n) /\ awaitResp' \in Seq(1 .. n)
           /\ socket' \in {"none", "pending", "open"}
           /\ server' \in Seq((1 .. n) \X CSeqs) /\ hungUp' \in BOOLEAN
           /\ wire' \in Seq(PartsOfCalls(n))
           /\ Done' \subseteq 1 .. n /\ \A d \in Done' : result'[d] \in Calls \cup {Error}
           /\ inHandler' \in BOOLEAN
<1>1. /\ awaitConn \in Seq(1 .. n) /\ server \in Seq((1 .. n) \X CSeqs)
      /\ wire \in Seq(PartsOfCalls(n)) /\ hungUp \in BOOLEAN
  <2>1. 1 .. issued \subseteq 1 .. n /\ issued \in Nat
    BY DEF TypesInv
  <2>2. (1 .. issued) \X CSeqs \subseteq (1 .. n) \X CSeqs
    BY <2>1
  <2>3. PartsOfCalls(issued) \subseteq PartsOfCalls(n)
    BY <2>1 DEF PartsOfCalls
  <2> QED BY <2>1, <2>2, <2>3, SeqGrows DEF TypesInv
<1>2. Error \in Calls \cup {Error}
  OBVIOUS
<1>3. /\ CallHandler(c, Error) \/ NoCall =>
            /\ Done' \subseteq 1 .. n /\ \A d \in Done' : result'[d] \in Calls \cup {Error}
            /\ inHandler' \in BOOLEAN
      /\ HandleRequestError(c) <=> CallHandler(c, Error)
  BY <1>2, CallTypes DEF HandleRequestError
<1>4. /\ Append(q, c) \in Seq(1 .. n) /\ Append(awaitConn, c) \in Seq(1 .. n)
      /\ <<c>> \in Seq(1 .. n) /\ <<>> \in Seq(1 .. n)
  BY <1>1, AppendProperties
<1>5. /\ <<c, cseqOf'[c]>> \in (1 .. n) \X CSeqs
      /\ <<<<c, cseqOf'[c]>>>> \in Seq((1 .. n) \X CSeqs)
      /\ <<>> \in Seq((1 .. n) \X CSeqs)
      /\ Append(server, <<c, cseqOf'[c]>>) \in Seq((1 .. n) \X CSeqs)
  <2>1. <<c, cseqOf'[c]>> \in (1 .. n) \X CSeqs
    OBVIOUS
  <2> QED BY <1>1, <2>1, AppendProperties
<1>6. <<>> \in Seq(PartsOfCalls(n))
  OBVIOUS
<1>7. CASE awaitConn # <<>> /\ awaitConn' = Append(awaitConn, c) /\ awaitResp' = q
           /\ socket' = k /\ NoCall /\ UNCHANGED <<server, hungUp, wire>>
  BY <1>1, <1>3, <1>4, <1>7
<1>8. CASE OpenConnection(c, q)
  BY <1>3, <1>4, <1>5, <1>6, <1>8 DEF OpenConnection
<1>9. CASE SendNow(c, q)
  BY <1>1, <1>3, <1>4, <1>5, <1>9 DEF SendNow
<1> QED BY <1>7, <1>8, <1>9 DEF SendRequest

\* A connection is dropped, or not.
LEMMA DropTypesKept ==
    ASSUME TypesInv, NEW m \in Parts, DropConnection(ConnAfter(m))
    PROVE  /\ socket' \in {"none", "pending", "open"} /\ hungUp' \in BOOLEAN
           /\ server' \in Seq((1 .. issued) \X CSeqs) /\ wire' \in Seq(PartsOfCalls(issued))
<1>1. ConnAfter(m) \in {"none", "pending", "open"}
  BY DEF ConnAfter, TypesInv
<1>2. <<>> \in Seq((1 .. issued) \X CSeqs) /\ <<>> \in Seq(PartsOfCalls(issued))
  OBVIOUS
<1>3. /\ server \in Seq((1 .. issued) \X CSeqs) /\ wire \in Seq(PartsOfCalls(issued))
      /\ hungUp \in BOOLEAN
  BY DEF TypesInv
<1> QED BY <1>1, <1>2, <1>3 DEF DropConnection

\* The requests of parts were issued.
LEMMA CallsInKnown ==
    ASSUME NEW n \in Nat, NEW s \in Seq(PartsOfCalls(n))
    PROVE  CallsIn(s) \subseteq 1 .. n
<1>1. ToSet(s) \subseteq PartsOfCalls(n)
  BY SeqIs
<1> QED BY <1>1 DEF CallsIn, PartsOfCalls

LEMMA EmptyFits == ASSUME NEW s, s = <<>> PROVE Len(s) < Room
<1>1. Len(s) = 0
  OBVIOUS
<1>2. 0 < Room
  BY RoomAssumption
<1> QED BY <1>1, <1>2

LEMMA TypesInit == ReqInit => TypesInv
<1> SUFFICES ASSUME ReqInit PROVE TypesInv
  OBVIOUS
<1>1. /\ issued = 0 /\ silent = {} /\ lastCSeq = 0 /\ cseqOf = [c \in Calls |-> NoCSeq]
      /\ awaitConn = <<>> /\ awaitResp = <<>> /\ resuming = <<>> /\ failing = <<>>
      /\ inHandler = FALSE /\ closed = FALSE /\ looping = FALSE /\ again = FALSE
      /\ socket = "none" /\ buffer = <<>> /\ quirk \in Quirks
      /\ server = <<>> /\ hungUp = FALSE /\ wire = <<>> /\ resends = 0
      /\ result = [c \in {} |-> Error] /\ lost = {} /\ exposed = {}
  BY DEF ReqInit
<1>2. Len(buffer) < Room /\ issued \in 0 .. MaxCalls /\ resends \in 0 .. MaxResends
  BY <1>1, EmptyFits, BoundsAssumption
<1>3. Done = {} /\ 1 .. issued = {}
  BY <1>1 DEF Done
<1>4. /\ awaitConn \in Seq(1 .. issued) /\ awaitResp \in Seq(1 .. issued)
      /\ resuming \in Seq(1 .. issued) /\ failing \in Seq(1 .. issued)
      /\ buffer \in Seq(PartsOfCalls(issued)) /\ wire \in Seq(PartsOfCalls(issued))
      /\ server \in Seq((1 .. issued) \X CSeqs)
  BY <1>1
<1>5. /\ cseqOf \in [Calls -> CSeqs \cup {NoCSeq}] /\ \A c \in 1 .. issued : cseqOf[c] \in CSeqs
      /\ \A c \in Done : result[c] \in Calls \cup {Error}
      /\ silent \subseteq 1 .. issued /\ Done \subseteq 1 .. issued
      /\ lost \subseteq 1 .. issued /\ exposed \subseteq 1 .. issued
  BY <1>1, <1>3
<1>6. /\ lastCSeq \in Nat /\ socket \in {"none", "pending", "open"} /\ ~looping
      /\ inHandler \in BOOLEAN /\ closed \in BOOLEAN /\ looping \in BOOLEAN
      /\ again \in BOOLEAN /\ hungUp \in BOOLEAN /\ quirk \in Quirks
  BY <1>1
<1> QED BY <1>2, <1>4, <1>5, <1>6 DEF TypesInv

LEMMA TypesIssue == ASSUME TypesInv, Issue PROVE TypesInv'
<1> DEFINE n == issued + 1
<1>1. /\ issued < MaxCalls /\ issued' = n /\ silent' \in {silent, silent \cup {n}}
      /\ lastCSeq' = lastCSeq + 1 /\ cseqOf' = [cseqOf EXCEPT ![n] = lastCSeq']
      /\ SendRequest(n, awaitResp, socket)
      /\ exposed' = exposed \/ exposed' = exposed \cup Waiting \cup {n}
      /\ UNCHANGED <<resuming, failing, closed, buffer, looping, again, quirk, resends, lost>>
  BY DEF Issue
<1>2. /\ issued \in Nat /\ n \in Nat /\ issued <= n /\ n \in 1 .. n /\ n \in Calls
      /\ n \in 0 .. MaxCalls /\ lastCSeq' \in CSeqs /\ lastCSeq' \in Nat
  BY <1>1, BoundsAssumption DEF TypesInv, Calls, CSeqs
<1>3. /\ 1 .. issued \subseteq 1 .. n /\ PartsOfCalls(issued) \subseteq PartsOfCalls(n)
      /\ 1 .. n = (1 .. issued) \cup {n}
  BY <1>2 DEF PartsOfCalls
<1>4. /\ cseqOf' \in [Calls -> CSeqs \cup {NoCSeq}] /\ \A c \in 1 .. n : cseqOf'[c] \in CSeqs
  <2>1. cseqOf \in [Calls -> CSeqs \cup {NoCSeq}] /\ \A c \in 1 .. issued : cseqOf[c] \in CSeqs
    BY DEF TypesInv
  <2>2. cseqOf' \in [Calls -> CSeqs \cup {NoCSeq}]
    BY <1>1, <1>2, <2>1
  <2>3. ASSUME NEW c \in 1 .. n PROVE cseqOf'[c] \in CSeqs
    <3>1. c \in Calls /\ (c = n \/ c \in 1 .. issued)
      BY <1>2, <1>3, BoundsAssumption DEF Calls
    <3> QED BY <1>1, <1>2, <2>1, <3>1
  <2> QED BY <2>2, <2>3
<1>5. /\ awaitResp \in Seq(1 .. n) /\ resuming' \in Seq(1 .. n) /\ failing' \in Seq(1 .. n)
      /\ buffer' \in Seq(PartsOfCalls(n)) /\ Len(buffer') < Room
  BY <1>1, <1>3, SeqGrows DEF TypesInv
<1>6. /\ awaitConn' \in Seq(1 .. n) /\ awaitResp' \in Seq(1 .. n)
      /\ socket' \in {"none", "pending", "open"}
      /\ server' \in Seq((1 .. n) \X CSeqs) /\ hungUp' \in BOOLEAN
      /\ wire' \in Seq(PartsOfCalls(n))
      /\ Done' \subseteq 1 .. n /\ \A d \in Done' : result'[d] \in Calls \cup {Error}
      /\ inHandler' \in BOOLEAN
  <2>1. socket \in {"none", "pending", "open"}
    BY DEF TypesInv
  <2> HIDE DEF n
  <2>2. /\ n \in Nat /\ issued <= n /\ n \in 1 .. n /\ awaitResp \in Seq(1 .. n)
        /\ cseqOf'[n] \in CSeqs /\ SendRequest(n, awaitResp, socket)
    BY <1>1, <1>2, <1>4, <1>5
  <2> QED BY <2>1, <2>2, SendTypes
<1>7. silent' \subseteq 1 .. n /\ exposed' \subseteq 1 .. n /\ lost' \subseteq 1 .. n
  <2>1. silent \subseteq 1 .. issued /\ exposed \subseteq 1 .. issued /\ lost \subseteq 1 .. issued
    BY DEF TypesInv
  <2>2. Waiting \subseteq 1 .. issued
    BY DEF Waiting
  <2> HIDE DEF n
  <2> QED BY <1>1, <1>3, <2>1, <2>2
<1> HIDE DEF n
<1> QED BY <1>1, <1>2, <1>4, <1>5, <1>6, <1>7 DEF TypesInv

LEMMA TypesHandlerReturns == ASSUME TypesInv, HandlerReturns PROVE TypesInv'
<1>1. /\ inHandler' = FALSE
      /\ UNCHANGED <<issued, silent, cseqOf, lastCSeq, awaitConn, awaitResp, resuming, failing,
                     closed, socket, buffer, looping, again, quirk, server, hungUp, wire,
                     resends, result, lost, exposed>>
  BY DEF HandlerReturns, requestVars, queueVars, serverVars
<1> QED BY <1>1 DEF TypesInv, Done

LEMMA TypesDestroy == ASSUME TypesInv, Destroy PROVE TypesInv'
<1>1. /\ closed' = TRUE /\ socket' = "none" /\ buffer' = <<>> /\ ~looping
      /\ server' = <<>> /\ hungUp' = FALSE /\ wire' = <<>>
      /\ awaitConn' = <<>> /\ awaitResp' = <<>> /\ lost' = lost \cup Waiting
      /\ UNCHANGED <<issued, silent, cseqOf, lastCSeq, resuming, failing, inHandler, looping,
                     again, quirk, resends, result, exposed>>
  BY DEF Destroy, requestVars, Idle
<1>2. Len(buffer') < Room /\ lost' \subseteq 1 .. issued
  <2>1. lost \subseteq 1 .. issued /\ Waiting \subseteq 1 .. issued
    BY DEF TypesInv, Waiting
  <2>2. Len(buffer') < Room
    BY <1>1, EmptyFits
  <2> QED BY <1>1, <2>1, <2>2
<1>3. /\ buffer' \in Seq(PartsOfCalls(issued)) /\ wire' \in Seq(PartsOfCalls(issued))
      /\ server' \in Seq((1 .. issued) \X CSeqs)
      /\ awaitConn' \in Seq(1 .. issued) /\ awaitResp' \in Seq(1 .. issued)
  BY <1>1
<1> QED BY <1>1, <1>2, <1>3 DEF TypesInv, Done

LEMMA TypesConnection == ASSUME TypesInv, ConnectionOpens \/ ConnectionFails PROVE TypesInv'
<1>1. /\ socket' \in {"open", "none"} /\ awaitConn' = <<>>
      /\ resuming' \in {resuming, awaitConn} /\ failing' \in {failing, awaitConn}
      /\ UNCHANGED <<issued, silent, cseqOf, lastCSeq, awaitResp, inHandler, closed, buffer,
                     looping, again, quirk, server, hungUp, wire, resends, result, lost,
                     exposed>>
  BY DEF ConnectionOpens, ConnectionFails, requestVars, serverVars
<1> QED BY <1>1 DEF TypesInv, Done

LEMMA TypesReadFails == ASSUME TypesInv, ReadFails PROVE TypesInv'
<1>1. /\ socket' = "none" /\ buffer' = <<>> /\ ~looping
      /\ server' = <<>> /\ hungUp' = FALSE /\ wire' = <<>>
      /\ failing' = awaitResp /\ awaitResp' = <<>>
      /\ UNCHANGED <<issued, silent, cseqOf, lastCSeq, awaitConn, resuming, inHandler, closed,
                     looping, again, quirk, resends, result, lost, exposed>>
  BY DEF ReadFails, requestVars, Idle
<1>2. Len(buffer') < Room
  <2>1. buffer' = <<>>
    BY <1>1
  <2> QED BY <2>1, EmptyFits
<1>3. /\ buffer' \in Seq(PartsOfCalls(issued)) /\ wire' \in Seq(PartsOfCalls(issued))
      /\ server' \in Seq((1 .. issued) \X CSeqs)
      /\ awaitResp' \in Seq(1 .. issued)
  BY <1>1
<1> QED BY <1>1, <1>2, <1>3 DEF TypesInv, Done

LEMMA TypesResume == ASSUME TypesInv, Resume PROVE TypesInv'
<1> DEFINE c == Head(resuming)
<1>1. /\ resuming # <<>> /\ resuming' = Tail(resuming)
      /\ SendRequest(c, awaitResp, socket)
      /\ UNCHANGED <<issued, silent, cseqOf, lastCSeq, failing, closed, buffer, looping, again,
                     quirk, resends, lost, exposed>>
  BY DEF Resume, requestVars
<1>2. c \in 1 .. issued /\ resuming' \in Seq(1 .. issued)
  BY <1>1, HeadTailProperties DEF TypesInv
<1>3. issued \in Nat /\ issued <= issued /\ cseqOf'[c] \in CSeqs
  BY <1>1, <1>2 DEF TypesInv
<1>4. /\ awaitResp \in Seq(1 .. issued) /\ socket \in {"none", "pending", "open"}
  BY DEF TypesInv
<1> HIDE DEF c
<1>5. /\ awaitConn' \in Seq(1 .. issued) /\ awaitResp' \in Seq(1 .. issued)
      /\ socket' \in {"none", "pending", "open"}
      /\ server' \in Seq((1 .. issued) \X CSeqs) /\ hungUp' \in BOOLEAN
      /\ wire' \in Seq(PartsOfCalls(issued))
      /\ Done' \subseteq 1 .. issued /\ \A d \in Done' : result'[d] \in Calls \cup {Error}
      /\ inHandler' \in BOOLEAN
  BY <1>1, <1>2, <1>3, <1>4, SendTypes
<1> QED BY <1>1, <1>2, <1>5 DEF TypesInv

LEMMA TypesFailNext == ASSUME TypesInv, FailNext PROVE TypesInv'
<1> DEFINE c == Head(failing)
<1>1. /\ failing # <<>> /\ failing' = Tail(failing) /\ CallHandler(c, Error)
      /\ UNCHANGED <<issued, silent, cseqOf, lastCSeq, awaitConn, awaitResp, resuming, closed,
                     socket, buffer, looping, again, quirk, server, hungUp, wire, resends,
                     lost, exposed>>
  BY DEF FailNext, requestVars, serverVars, HandleRequestError
<1>2. c \in 1 .. issued /\ failing' \in Seq(1 .. issued)
  BY <1>1, HeadTailProperties DEF TypesInv
<1>3. issued \in Nat /\ issued <= issued /\ Error \in Calls \cup {Error}
  BY DEF TypesInv
<1> HIDE DEF c
<1>4. /\ Done' \subseteq 1 .. issued /\ \A d \in Done' : result'[d] \in Calls \cup {Error}
      /\ inHandler' \in BOOLEAN
  BY <1>1, <1>2, <1>3, CallTypes
<1> QED BY <1>1, <1>2, <1>4 DEF TypesInv

\* Some of what is on the wire.
LEMMA SomeOfWire ==
    ASSUME TypesInv, NEW k \in 1 .. Len(wire)
    PROVE  /\ SubSeq(wire, 1, k) \in Seq(PartsOfCalls(issued)) /\ Len(SubSeq(wire, 1, k)) = k
           /\ SubSeq(wire, k + 1, Len(wire)) \in Seq(PartsOfCalls(issued))
           /\ buffer \o SubSeq(wire, 1, k) \in Seq(PartsOfCalls(issued))
           /\ Len(buffer \o SubSeq(wire, 1, k)) = Len(buffer) + k
           /\ k \in Nat /\ k >= 1 /\ Len(buffer) \in Nat
<1>1. /\ wire \in Seq(PartsOfCalls(issued)) /\ buffer \in Seq(PartsOfCalls(issued))
      /\ Len(wire) \in Nat /\ Len(buffer) \in Nat
      /\ \A i \in 1 .. Len(wire) : wire[i] \in PartsOfCalls(issued)
  BY SeqIs DEF TypesInv
<1>2. k \in Nat /\ k >= 1 /\ \A i \in 1 .. k : wire[i] \in PartsOfCalls(issued)
  BY <1>1
<1>3. SubSeq(wire, 1, k) \in Seq(PartsOfCalls(issued)) /\ Len(SubSeq(wire, 1, k)) = k
  BY <1>1, <1>2, SubSeqProperties
<1>4. SubSeq(wire, k + 1, Len(wire)) \in Seq(PartsOfCalls(issued))
  BY <1>1, <1>2, RestOfSeq
<1> QED BY <1>1, <1>2, <1>3, <1>4, ConcatProperties

LEMMA TypesRead == ASSUME TypesInv, Read PROVE TypesInv'
<1>1. PICK k \in 1 .. Len(wire) :
          /\ Fits(Len(buffer) + k) /\ buffer' = buffer \o SubSeq(wire, 1, k)
          /\ wire' = SubSeq(wire, k + 1, Len(wire))
  BY DEF Read
<1>2. /\ looping' = TRUE /\ again' = FALSE
      /\ UNCHANGED <<issued, silent, cseqOf, lastCSeq, awaitConn, awaitResp, resuming, failing,
                     inHandler, closed, socket, quirk, server, hungUp, resends, result, lost,
                     exposed>>
  BY DEF Read, requestVars, queueVars
<1>3. /\ buffer' \in Seq(PartsOfCalls(issued)) /\ wire' \in Seq(PartsOfCalls(issued))
      /\ Len(buffer') < Room /\ buffer' # <<>>
  <2>1. /\ buffer' \in Seq(PartsOfCalls(issued)) /\ wire' \in Seq(PartsOfCalls(issued))
        /\ Len(buffer') = Len(buffer) + k /\ Len(buffer') < Room
        /\ k >= 1 /\ k \in Nat /\ Len(buffer) \in Nat
    BY <1>1, SomeOfWire DEF Fits
  <2>2. Len(buffer') # 0
    BY <2>1
  <2> QED BY <2>1, <2>2, EmptySeq
<1> QED BY <1>2, <1>3 DEF TypesInv, Done

LEMMA TypesTruncated == ASSUME TypesInv, Truncated PROVE TypesInv'
<1>1. PICK k \in 1 .. Len(wire) :
          /\ wire' = SubSeq(wire, k + 1, Len(wire))
          /\ \/ awaitResp' = awaitResp /\ NoCall
             \/ /\ awaitResp # <<>> /\ awaitResp' = Tail(awaitResp)
                /\ CallHandler(Head(awaitResp), Error)
          /\ lost' = lost \cup (CallsIn(buffer \o SubSeq(wire, 1, k)) \ DOMAIN result')
  BY DEF Truncated, HandleRequestError
<1>2. /\ buffer' = <<>> /\ ~looping
      /\ UNCHANGED <<issued, silent, cseqOf, lastCSeq, awaitConn, resuming, failing, closed,
                     socket, looping, again, quirk, server, hungUp, resends, exposed>>
  BY DEF Truncated, Idle, requestVars
<1>3. /\ wire' \in Seq(PartsOfCalls(issued))
      /\ CallsIn(buffer \o SubSeq(wire, 1, k)) \subseteq 1 .. issued
  <2>1. issued \in Nat
    BY DEF TypesInv
  <2> QED BY <1>1, <2>1, SomeOfWire, CallsInKnown
<1>4. /\ awaitResp' \in Seq(1 .. issued)
      /\ Done' \subseteq 1 .. issued /\ \A d \in Done' : result'[d] \in Calls \cup {Error}
      /\ inHandler' \in BOOLEAN
  <2>1. issued \in Nat /\ issued <= issued /\ Error \in Calls \cup {Error}
        /\ awaitResp \in Seq(1 .. issued)
    BY DEF TypesInv
  <2>2. CASE awaitResp' = awaitResp /\ NoCall
    BY <2>1, <2>2 DEF TypesInv, NoCall, Done
  <2>3. CASE /\ awaitResp # <<>> /\ awaitResp' = Tail(awaitResp)
             /\ CallHandler(Head(awaitResp), Error)
    <3>1. Head(awaitResp) \in 1 .. issued /\ awaitResp' \in Seq(1 .. issued)
      BY <2>1, <2>3, HeadTailProperties
    <3> QED BY <2>1, <2>3, <3>1, CallTypes
  <2> QED BY <1>1, <2>2, <2>3
<1>5. Len(buffer') < Room /\ lost' \subseteq 1 .. issued
  BY <1>1, <1>2, <1>3, EmptyFits DEF TypesInv
<1> QED BY <1>2, <1>3, <1>4, <1>5 DEF TypesInv

\* The first part in the buffer, while the loop over it goes on.
LEMMA FirstPart ==
    ASSUME TypesInv, looping
    PROVE  /\ buffer[1] \in Parts /\ buffer[1].call \in 0 .. issued
           /\ buffer[1].kind # "alien" => buffer[1].call # 0
           /\ buffer \in Seq(PartsOfCalls(issued)) /\ Len(buffer) \in Nat /\ Len(buffer) >= 1
           /\ Tail(buffer) \in Seq(PartsOfCalls(issued))
           /\ CallsIn(buffer) \subseteq 1 .. issued /\ CallsIn(Tail(buffer)) \subseteq 1 .. issued
           /\ issued \in Nat
<1>1. /\ buffer \in Seq(PartsOfCalls(issued)) /\ buffer # <<>> /\ issued \in Nat
  BY DEF TypesInv
<1>2. Len(buffer) \in Nat /\ Len(buffer) >= 1 /\ Tail(buffer) \in Seq(PartsOfCalls(issued))
  BY <1>1, EmptySeq, HeadTailProperties
<1>3. buffer[1] \in PartsOfCalls(issued)
  BY <1>1, <1>2, SeqIs
<1>4. CallsIn(buffer) \subseteq 1 .. issued /\ CallsIn(Tail(buffer)) \subseteq 1 .. issued
  BY <1>1, <1>2, CallsInKnown
<1> QED BY <1>1, <1>2, <1>3, <1>4 DEF PartsOfCalls

LEMMA TypesWaitForBody == ASSUME TypesInv, WaitForBody PROVE TypesInv'
<1> DEFINE m == buffer[1]
<1>1. /\ looping /\ awaitResp' = SubSeq(awaitResp, FoundAt(awaitResp, m), Len(awaitResp))
      /\ DropConnection(ConnAfter(m))
      /\ lost' \subseteq lost \cup ToSet(awaitResp)
      /\ looping' = FALSE /\ again' = FALSE
      /\ UNCHANGED <<issued, silent, cseqOf, lastCSeq, awaitConn, resuming, failing, inHandler,
                     closed, buffer, quirk, resends, result, exposed>>
  BY DEF WaitForBody, requestVars
<1>2. m \in Parts
  BY <1>1, FirstPart
<1> HIDE DEF m
<1>3. awaitResp' \in Seq(1 .. issued)
  BY <1>1, <1>2, FoundAtIs
<1>4. /\ socket' \in {"none", "pending", "open"} /\ hungUp' \in BOOLEAN
      /\ server' \in Seq((1 .. issued) \X CSeqs) /\ wire' \in Seq(PartsOfCalls(issued))
  BY <1>1, <1>2, DropTypesKept
<1>5. lost' \subseteq 1 .. issued
  <2>1. ToSet(awaitResp) \subseteq 1 .. issued
    BY SeqIs DEF TypesInv
  <2> QED BY <1>1, <2>1 DEF TypesInv
<1> QED BY <1>1, <1>3, <1>4, <1>5 DEF TypesInv, Done

LEMMA TypesNotAnAnswer == ASSUME TypesInv, NotAnAnswer PROVE TypesInv'
<1>1. /\ looping /\ looping' = FALSE /\ again' = FALSE
      /\ \/ /\ buffer' = <<>> /\ lost' = lost \cup (CallsIn(Tail(buffer)) \ Done)
            /\ exposed' = exposed \cup (CallsIn(Tail(buffer)) \ Done)
         \/ buffer' = buffer /\ lost' = lost /\ exposed' = exposed
      /\ UNCHANGED <<issued, silent, cseqOf, lastCSeq, awaitConn, awaitResp, resuming, failing,
                     inHandler, closed, socket, quirk, server, hungUp, wire, resends, result>>
  BY DEF NotAnAnswer, requestVars, queueVars, serverVars
<1>2. /\ buffer' \in Seq(PartsOfCalls(issued)) /\ Len(buffer') < Room
      /\ lost' \subseteq 1 .. issued /\ exposed' \subseteq 1 .. issued
  <2>1. /\ CallsIn(Tail(buffer)) \subseteq 1 .. issued /\ lost \subseteq 1 .. issued
        /\ exposed \subseteq 1 .. issued
        /\ buffer \in Seq(PartsOfCalls(issued)) /\ Len(buffer) < Room
    BY <1>1, FirstPart DEF TypesInv
  <2>2. CASE /\ buffer' = <<>> /\ lost' = lost \cup (CallsIn(Tail(buffer)) \ Done)
             /\ exposed' = exposed \cup (CallsIn(Tail(buffer)) \ Done)
    <3>1. Len(buffer') < Room
      BY <2>2, EmptyFits
    <3>2. buffer' \in Seq(PartsOfCalls(issued))
      BY <2>2
    <3> QED BY <2>1, <2>2, <3>1, <3>2
  <2>3. CASE buffer' = buffer /\ lost' = lost /\ exposed' = exposed
    BY <2>1, <2>3
  <2> QED BY <1>1, <2>2, <2>3
<1> QED BY <1>1, <1>2 DEF TypesInv, Done

LEMMA TypesBadAnswer == ASSUME TypesInv, BadAnswer PROVE TypesInv'
<1> DEFINE m == buffer[1]
<1>1. /\ looping /\ awaitResp' = Others(m) /\ DropConnection(ConnAfter(m))
      /\ buffer' \in {buffer, <<>>} /\ looping' = FALSE /\ again' = FALSE
      /\ UNCHANGED <<issued, silent, cseqOf, lastCSeq, awaitConn, resuming, failing, closed,
                     quirk, resends, exposed>>
      /\ IF Found(m) THEN CallHandler(Request(m), Error) ELSE NoCall
      /\ lost' \subseteq lost \cup LeftBehind(Others(m), ConnAfter(m)) \cup CallsIn(buffer)
  BY DEF BadAnswer, IsAnswer, requestVars, HandleRequestError
<1>2. /\ m \in Parts /\ buffer \in Seq(PartsOfCalls(issued))
      /\ CallsIn(buffer) \subseteq 1 .. issued
  BY <1>1, FirstPart
<1> HIDE DEF m
<1>3. awaitResp' \in Seq(1 .. issued) /\ (Found(m) => Request(m) \in 1 .. issued)
  BY <1>1, <1>2, FoundAtIs
<1>4. /\ socket' \in {"none", "pending", "open"} /\ hungUp' \in BOOLEAN
      /\ server' \in Seq((1 .. issued) \X CSeqs) /\ wire' \in Seq(PartsOfCalls(issued))
  BY <1>1, <1>2, DropTypesKept
<1>5. buffer' \in Seq(PartsOfCalls(issued)) /\ Len(buffer') < Room
  <2>1. <<>> \in Seq(PartsOfCalls(issued))
    OBVIOUS
  <2>2. Len(buffer) < Room /\ (buffer' = <<>> => Len(buffer') < Room)
    BY EmptyFits DEF TypesInv
  <2> QED BY <1>1, <1>2, <2>1, <2>2
<1>6. lost' \subseteq 1 .. issued
  <2>1. LeftBehind(Others(m), ConnAfter(m)) \subseteq 1 .. issued
    BY <1>1, <1>3, SeqIs DEF LeftBehind
  <2> QED BY <1>1, <1>2, <2>1 DEF TypesInv
<1>7. /\ Done' \subseteq 1 .. issued /\ \A d \in Done' : result'[d] \in Calls \cup {Error}
      /\ inHandler' \in BOOLEAN
  <2>1. issued \in Nat /\ issued <= issued /\ Error \in Calls \cup {Error}
    BY DEF TypesInv
  <2>2. CASE Found(m)
    BY <1>1, <1>3, <2>1, <2>2, CallTypes
  <2>3. CASE ~Found(m)
    BY <1>1, <2>3 DEF TypesInv, NoCall, Done
  <2> QED BY <2>2, <2>3
<1> QED BY <1>1, <1>3, <1>4, <1>5, <1>6, <1>7 DEF TypesInv

LEMMA TypesGiveAnswer == ASSUME TypesInv, GiveAnswer PROVE TypesInv'
<1> DEFINE m == buffer[1]
           r == IF m.code = "refused" THEN Error ELSE m.call
<1>1. /\ looping /\ awaitResp' = Others(m) /\ DropConnection(ConnAfter(m))
      /\ buffer' = Extra /\ looping' = (Extra # <<>> /\ ~(Found(m) /\ m.code = "refused"))
      /\ again' = looping'
      /\ UNCHANGED <<issued, silent, cseqOf, lastCSeq, awaitConn, resuming, failing, closed,
                     quirk, resends, exposed>>
      /\ IF Found(m) THEN CallHandler(Request(m), r) ELSE NoCall
      /\ lost' \subseteq lost \cup LeftBehind(Others(m), ConnAfter(m))
                              \cup ((IF looping' THEN {m.call} ELSE CallsIn(buffer)) \ Done')
  BY DEF GiveAnswer, IsAnswer, requestVars, Done
<1>2. /\ m \in Parts /\ buffer \in Seq(PartsOfCalls(issued)) /\ m.call \in 0 .. issued
      /\ CallsIn(buffer) \subseteq 1 .. issued /\ m.call # 0
  <2>1. m.kind # "alien"
    BY DEF GiveAnswer, IsAnswer
  <2> QED BY <1>1, <2>1, FirstPart
<1>3. looping' \in BOOLEAN /\ again' \in BOOLEAN /\ (looping' => buffer' # <<>>)
  BY <1>1
<1> HIDE DEF m, r
<1>4. awaitResp' \in Seq(1 .. issued) /\ (Found(m) => Request(m) \in 1 .. issued)
  BY <1>1, <1>2, FoundAtIs
<1>5. /\ socket' \in {"none", "pending", "open"} /\ hungUp' \in BOOLEAN
      /\ server' \in Seq((1 .. issued) \X CSeqs) /\ wire' \in Seq(PartsOfCalls(issued))
  BY <1>1, <1>2, DropTypesKept
<1>6. buffer' \in Seq(PartsOfCalls(issued)) /\ Len(buffer') < Room
  <2>1. PICK a \in {2, 3} : buffer' = SubSeq(buffer, a, Len(buffer))
    BY <1>1 DEF Extra
  <2>2. buffer' \in Seq(PartsOfCalls(issued)) /\ Len(buffer') <= Len(buffer)
    BY <1>2, <2>1, RestOfSeq
  <2>3. Len(buffer) < Room /\ Len(buffer) \in Nat /\ Len(buffer') \in Nat /\ Room \in Nat
    BY <1>2, <2>2, SeqIs, RoomAssumption DEF TypesInv
  <2> QED BY <2>2, <2>3
<1>7. r \in Calls \cup {Error}
  <2>1. issued \in 0 .. MaxCalls
    BY DEF TypesInv
  <2> QED BY <1>2, <2>1, BoundsAssumption DEF r, Calls, Error
<1>8. /\ Done' \subseteq 1 .. issued /\ \A d \in Done' : result'[d] \in Calls \cup {Error}
      /\ inHandler' \in BOOLEAN
  <2>1. issued \in Nat /\ issued <= issued
    BY DEF TypesInv
  <2>2. CASE Found(m)
    BY <1>1, <1>4, <1>7, <2>1, <2>2, CallTypes
  <2>3. CASE ~Found(m)
    BY <1>1, <2>3 DEF TypesInv, NoCall, Done
  <2> QED BY <2>2, <2>3
<1>9. lost' \subseteq 1 .. issued
  <2>1. LeftBehind(Others(m), ConnAfter(m)) \subseteq 1 .. issued
    BY <1>1, <1>4, SeqIs DEF LeftBehind
  <2>2. {m.call} \subseteq 1 .. issued /\ issued \in Nat
    BY <1>2 DEF TypesInv
  <2>3. lost \subseteq 1 .. issued
    BY DEF TypesInv
  <2> QED BY <1>1, <1>2, <2>1, <2>2, <2>3
<1> QED BY <1>1, <1>3, <1>4, <1>5, <1>6, <1>8, <1>9 DEF TypesInv

LEMMA TypesAskAgain == ASSUME TypesInv, AskAgain PROVE TypesInv'
<1> DEFINE m == buffer[1]
           c == Request(m)
           k == IF m.code = "redirect" THEN "none" ELSE ConnAfter(m)
<1>1. /\ looping /\ Found(m) /\ lastCSeq' = lastCSeq + 1
      /\ cseqOf' = [cseqOf EXCEPT ![c] = lastCSeq']
      /\ SendRequest(c, Others(m), k)
      /\ buffer' = <<>> /\ looping' = FALSE /\ again' = FALSE
      /\ lost' \subseteq lost \cup LeftBehind(Others(m), k) \cup CallsIn(buffer)
      /\ UNCHANGED <<issued, silent, resuming, failing, closed, quirk, resends, exposed>>
  BY DEF AskAgain, IsAnswer
<1>2. m \in Parts /\ CallsIn(buffer) \subseteq 1 .. issued
  BY <1>1, FirstPart
<1> HIDE DEF m
<1>3. Others(m) \in Seq(1 .. issued) /\ c \in 1 .. issued
  BY <1>1, <1>2, FoundAtIs
<1>4. k \in {"none", "pending", "open"}
  BY DEF ConnAfter, TypesInv
<1> HIDE DEF c, k
<1>5. /\ issued \in Nat /\ 1 .. issued \subseteq Calls
      /\ lastCSeq' \in Nat /\ lastCSeq' \in CSeqs
  BY <1>1, BoundsAssumption DEF TypesInv, Calls, CSeqs
<1>6. /\ cseqOf' \in [Calls -> CSeqs \cup {NoCSeq}] /\ cseqOf'[c] \in CSeqs
      /\ \A d \in 1 .. issued : cseqOf'[d] \in CSeqs
  <2>1. /\ cseqOf \in [Calls -> CSeqs \cup {NoCSeq}]
        /\ \A d \in 1 .. issued : cseqOf[d] \in CSeqs
    BY DEF TypesInv
  <2> QED BY <1>1, <1>3, <1>5, <2>1
<1>7. /\ awaitConn' \in Seq(1 .. issued) /\ awaitResp' \in Seq(1 .. issued)
      /\ socket' \in {"none", "pending", "open"}
      /\ server' \in Seq((1 .. issued) \X CSeqs) /\ hungUp' \in BOOLEAN
      /\ wire' \in Seq(PartsOfCalls(issued))
      /\ Done' \subseteq 1 .. issued /\ \A d \in Done' : result'[d] \in Calls \cup {Error}
      /\ inHandler' \in BOOLEAN
  <2>1. issued \in Nat /\ issued <= issued
    BY <1>5
  <2>2. SendRequest(c, Others(m), k) /\ cseqOf'[c] \in CSeqs
    BY <1>1, <1>6
  <2> QED BY <1>3, <1>4, <2>1, <2>2, SendTypes
<1>8. lost' \subseteq 1 .. issued
  <2>1. LeftBehind(Others(m), k) \subseteq 1 .. issued
    BY <1>3, SeqIs DEF LeftBehind
  <2> QED BY <1>1, <1>2, <2>1 DEF TypesInv
<1>9. buffer' \in Seq(PartsOfCalls(issued)) /\ Len(buffer') < Room
  <2>1. buffer' = <<>>
    BY <1>1
  <2> QED BY <2>1, EmptyFits
<1> QED BY <1>1, <1>5, <1>6, <1>7, <1>8, <1>9 DEF TypesInv

\* A request at the server.
LEMMA FirstAtServer ==
    ASSUME TypesInv, server # <<>>
    PROVE  /\ Head(server)[1] \in 1 .. issued /\ Head(server)[2] \in CSeqs
           /\ Tail(server) \in Seq((1 .. issued) \X CSeqs)
           /\ <<>> \in Seq((1 .. issued) \X CSeqs)
           /\ issued \in Nat /\ 1 .. issued \subseteq Calls
<1>1. server \in Seq((1 .. issued) \X CSeqs) /\ issued \in Nat /\ issued <= MaxCalls
  BY BoundsAssumption DEF TypesInv
<1>2. /\ Head(server) \in (1 .. issued) \X CSeqs
      /\ Tail(server) \in Seq((1 .. issued) \X CSeqs)
  BY <1>1, HeadTailProperties
<1>3. 1 .. issued \subseteq Calls
  BY <1>1, BoundsAssumption DEF Calls
<1> QED BY <1>1, <1>2, <1>3

LEMMA TypesAnswer == ASSUME TypesInv, Answer PROVE TypesInv'
<1>1. PICK code \in Codes, close \in BOOLEAN, split \in BOOLEAN, hide \in BOOLEAN : LET
          m == [kind |-> IF split THEN "head" ELSE "whole", call |-> Head(server)[1],
                cseq |-> IF hide THEN NoCSeq ELSE Head(server)[2],
                code |-> code, close |-> close]
          IN /\ hide => quirk = "noCSeq"
             /\ code = "bad" => \/ quirk = "bad" /\ buffer \o wire = <<>>
                                \/ quirk = "badLate"
             /\ close /\ split => quirk = "splitClose"
             /\ code \in {"retry", "redirect"} => resends < MaxResends
             /\ resends' = IF code \in {"retry", "redirect"} THEN resends + 1 ELSE resends
             /\ wire' = wire \o IF split THEN <<m, [m EXCEPT !.kind = "tail"]>> ELSE <<m>>
             /\ server' = IF close THEN <<>> ELSE Tail(server)
             /\ hungUp' = close
  BY DEF Answer
<1>2. /\ server # <<>>
      /\ UNCHANGED <<issued, silent, cseqOf, lastCSeq, awaitConn, awaitResp, resuming, failing,
                     inHandler, closed, socket, buffer, looping, again, quirk, result, lost,
                     exposed>>
  BY DEF Answer, requestVars, queueVars
<1> DEFINE m == [kind |-> IF split THEN "head" ELSE "whole", call |-> Head(server)[1],
                 cseq |-> IF hide THEN NoCSeq ELSE Head(server)[2],
                 code |-> code, close |-> close]
           t == [m EXCEPT !.kind = "tail"]
           new == IF split THEN <<m, t>> ELSE <<m>>
<1>3. m \in PartsOfCalls(issued) /\ t \in PartsOfCalls(issued)
  <2>1. /\ Head(server)[1] \in 1 .. issued /\ Head(server)[2] \in CSeqs
        /\ 1 .. issued \subseteq Calls /\ issued \in Nat
    BY <1>2, FirstAtServer
  <2>2. m \in Parts /\ t \in Parts
    BY <2>1 DEF Parts, Kinds
  <2>3. m.call \in 0 .. issued /\ m.call # 0 /\ t.call = m.call
    BY <2>1
  <2> QED BY <2>2, <2>3 DEF PartsOfCalls
<1> HIDE DEF m, t
<1>4. new \in Seq(PartsOfCalls(issued))
  BY <1>3
<1> HIDE DEF new
<1>5. wire' \in Seq(PartsOfCalls(issued))
  <2>1. wire' = wire \o new
    BY <1>1 DEF new, m, t
  <2>2. wire \in Seq(PartsOfCalls(issued))
    BY DEF TypesInv
  <2> QED BY <1>4, <2>1, <2>2, ConcatProperties
<1>6. server' \in Seq((1 .. issued) \X CSeqs) /\ hungUp' \in BOOLEAN
  BY <1>1, <1>2, FirstAtServer
<1>7. resends' \in 0 .. MaxResends
  BY <1>1, BoundsAssumption DEF TypesInv
<1> QED BY <1>2, <1>5, <1>6, <1>7 DEF TypesInv, Done

LEMMA TypesSkip == ASSUME TypesInv, Skip PROVE TypesInv'
<1>1. /\ server # <<>> /\ server' = Tail(server) /\ lost' \subseteq lost \cup {Head(server)[1]}
      /\ exposed' = exposed \cup {Head(server)[1]}
      /\ UNCHANGED <<issued, silent, cseqOf, lastCSeq, awaitConn, awaitResp, resuming, failing,
                     inHandler, closed, socket, buffer, looping, again, quirk, hungUp, wire,
                     resends, result>>
  BY DEF Skip, requestVars, queueVars
<1>2. /\ server' \in Seq((1 .. issued) \X CSeqs) /\ lost' \subseteq 1 .. issued
      /\ exposed' \subseteq 1 .. issued
  <2>1. lost \subseteq 1 .. issued /\ exposed \subseteq 1 .. issued
    BY DEF TypesInv
  <2> QED BY <1>1, <2>1, FirstAtServer
<1> QED BY <1>1, <1>2 DEF TypesInv, Done

LEMMA TypesAsk == ASSUME TypesInv, Ask PROVE TypesInv'
<1> DEFINE p == [kind |-> "alien", call |-> 0, cseq |-> NoCSeq, code |-> "ok",
                 close |-> FALSE]
<1>1. /\ wire' = Append(wire, p)
      /\ UNCHANGED <<issued, silent, cseqOf, lastCSeq, awaitConn, awaitResp, resuming, failing,
                     inHandler, closed, socket, buffer, looping, again, quirk, server, hungUp,
                     resends, result, lost, exposed>>
  BY DEF Ask, requestVars, queueVars
<1>2. p \in PartsOfCalls(issued)
  <2>1. issued \in Nat
    BY DEF TypesInv
  <2> QED BY <2>1 DEF PartsOfCalls, Parts, Kinds, Codes
<1> HIDE DEF p
<1>3. wire' \in Seq(PartsOfCalls(issued))
  <2>1. wire \in Seq(PartsOfCalls(issued))
    BY DEF TypesInv
  <2> QED BY <1>1, <1>2, <2>1, AppendProperties
<1> QED BY <1>1, <1>3 DEF TypesInv, Done

LEMMA TypesStep == TypesInv /\ [ReqNext]_reqVars => TypesInv'
<1> SUFFICES ASSUME TypesInv, [ReqNext]_reqVars PROVE TypesInv'
  OBVIOUS
<1>1. CASE Issue
  BY <1>1, TypesIssue
<1>2. CASE Destroy
  BY <1>2, TypesDestroy
<1>3. CASE ReqLoopStep
  BY <1>3, TypesHandlerReturns, TypesResume, TypesFailNext, TypesWaitForBody,
     TypesNotAnAnswer, TypesBadAnswer, TypesAskAgain, TypesGiveAnswer, TypesConnection,
     TypesRead, TypesTruncated, TypesReadFails
  DEF ReqLoopStep, LookAtBuffer
<1>4. CASE Answer
  BY <1>4, TypesAnswer
<1>5. CASE Skip
  BY <1>5, TypesSkip
<1>6. CASE Ask
  BY <1>6, TypesAsk
<1>7. CASE UNCHANGED reqVars
  BY <1>7 DEF reqVars, requestVars, queueVars, serverVars, TypesInv, Done
<1> QED BY <1>1, <1>2, <1>3, <1>4, <1>5, <1>6, <1>7 DEF ReqNext

LEMMA TypesInvariance == ReqSpec => []TypesInv
<1> QED BY TypesInit, TypesStep, PTL DEF ReqSpec

-----------------------------------------------------------------------------
(* The queues, whatever the server does.                                   *)

\* No request is issued, and handlers are called of requests that waited.
Served ==
    /\ issued' = issued /\ Done \subseteq Done' /\ Done' \ Done \subseteq Waiting
    /\ \A d \in Done : result'[d] = result[d]

\* What is behind a place in a queue, or behind its end.
LEMMA Behind ==
    ASSUME NEW q \in Seq(Calls), Once(q), NEW d \in 0 .. Len(q) + 1
    PROVE  /\ SubSeq(q, d + 1, Len(q)) \in Seq(Calls) /\ Once(SubSeq(q, d + 1, Len(q)))
           /\ ToSet(SubSeq(q, d + 1, Len(q))) \subseteq ToSet(q)
           /\ d \in 1 .. Len(q) => /\ q[d] \in ToSet(q) /\ q[d] \in Calls
                                   /\ q[d] \notin ToSet(SubSeq(q, d + 1, Len(q)))
<1> DEFINE s == SubSeq(q, d + 1, Len(q))
<1>1. Len(q) \in Nat
  BY SeqIs
<1>2. CASE d \in 0 .. Len(q)
  <2>1. /\ Drop(q, d) \in Seq(Calls) /\ Once(Drop(q, d))
        /\ \A c : c \in ToSet(Drop(q, d)) <=> c \in ToSet(q) /\ Pos(q, c) > d
    BY <1>2, PosDrop
  <2>2. Drop(q, d) = s
    BY DEF Drop
  <2>3. ASSUME d \in 1 .. Len(q) PROVE q[d] \in ToSet(q) /\ q[d] \in Calls /\ q[d] \notin ToSet(s)
    <3>1. q[d] \in ToSet(q) /\ Pos(q, q[d]) = d /\ q[d] \in Calls
      BY <2>3, PosIs, SeqIs
    <3>2. ~(d > d)
      BY <1>1, <2>3
    <3> QED BY <2>1, <2>2, <3>1, <3>2
  <2> QED BY <2>1, <2>2, <2>3
<1>3. CASE d = Len(q) + 1
  <2>1. s = <<>>
    <3>1. d + 1 > Len(q) /\ d + 1 \in Nat /\ d + 1 >= 1
      BY <1>1, <1>3
    <3>2. s \in Seq(Calls) /\ Len(s) = 0
      <4>1. \A i \in d + 1 .. Len(q) : q[i] \in Calls
        BY <1>1, <3>1
      <4> QED BY <1>1, <3>1, <4>1, SubSeqProperties
    <3> QED BY <3>2, SeqIs
  <2>2. d \notin 1 .. Len(q)
    BY <1>1, <1>3
  <2> QED BY <2>1, <2>2, EmptyQueue
<1> QED BY <1>1, <1>2, <1>3

\* The queues are as they were, and no handler is called.
LEMMA ApartStays ==
    ASSUME Apart, UNCHANGED <<issued, result, awaitConn, awaitResp, resuming, failing>>
    PROVE  Apart' /\ Served
<1>1. Done' = Done /\ Waiting' = Waiting
  BY SameRequests
<1> QED BY <1>1 DEF Apart, Served

\* A request is taken from a queue and its handler called, or not; others may
\* be forgotten.
LEMMA ApartCall ==
    ASSUME ReqTypeOK, Apart, NEW c \in Waiting, NEW r \in Calls \cup {Error}, CallHandler(c, r),
           issued' = issued, Once(awaitResp'), Once(failing'),
           UNCHANGED <<awaitConn, resuming>>,
           ToSet(awaitResp') \subseteq ToSet(awaitResp) \ {c},
           ToSet(failing') \subseteq ToSet(failing) \ {c},
           c \in ToSet(awaitResp) \cup ToSet(failing)
    PROVE  Apart' /\ Served
<1>1. /\ Done' = Done \cup {c} /\ Waiting' = Waiting \ {c}
      /\ \A d \in Done : result'[d] = result[d]
  BY Called
<1>2. Partition(ToSet(awaitConn), ToSet(awaitResp'), ToSet(resuming), ToSet(failing'),
                Waiting \ {c}, Waiting \ {c})
  BY DEF Apart, Partition
<1> QED BY <1>1, <1>2 DEF Apart, Served

\* Requests are taken from a queue, and no handler is called.
LEMMA ApartForget ==
    ASSUME Apart, UNCHANGED <<issued, result, awaitConn, resuming, failing>>,
           Once(awaitResp'), ToSet(awaitResp') \subseteq ToSet(awaitResp)
    PROVE  Apart' /\ Served
<1>1. Done' = Done /\ Waiting' = Waiting
  BY SameRequests
<1> QED BY <1>1 DEF Apart, Served, Partition

\* Where an answer is looked for, in any queue.
LEMMA FoundApart ==
    ASSUME TypesInv, Apart, NEW m \in Parts
    PROVE  /\ Others(m) \in Seq(Calls) /\ Once(Others(m))
           /\ ToSet(Others(m)) \subseteq ToSet(awaitResp)
           /\ Found(m) => /\ Request(m) \in ToSet(awaitResp) /\ Request(m) \in Waiting
                          /\ Request(m) \in Calls /\ Request(m) \notin ToSet(Others(m))
           /\ Once(SubSeq(awaitResp, FoundAt(awaitResp, m), Len(awaitResp)))
           /\ ToSet(SubSeq(awaitResp, FoundAt(awaitResp, m), Len(awaitResp))) \subseteq ToSet(awaitResp)
<1> DEFINE q == awaitResp
           f == FoundAt(awaitResp, m)
<1>1. q \in Seq(Calls) /\ Once(q) /\ ToSet(q) \subseteq Waiting /\ Len(q) \in Nat
  BY TypesEnough, SeqIs DEF Apart, Partition, ReqTypeOK
<1>2. f \in 1 .. Len(q) + 1
  BY FoundAtIs
<1>3. /\ Others(m) = SubSeq(q, f + 1, Len(q)) /\ Request(m) = q[f] /\ (Found(m) <=> f <= Len(q))
  BY DEF Others, Request, Found
<1> HIDE DEF q, f
<1>4. f \in 0 .. Len(q) + 1 /\ f - 1 \in 0 .. Len(q) + 1 /\ (f - 1) + 1 = f
      /\ (f <= Len(q) => f \in 1 .. Len(q))
  BY <1>1, <1>2
<1>5. /\ SubSeq(q, f + 1, Len(q)) \in Seq(Calls) /\ Once(SubSeq(q, f + 1, Len(q)))
      /\ ToSet(SubSeq(q, f + 1, Len(q))) \subseteq ToSet(q)
      /\ f \in 1 .. Len(q) => /\ q[f] \in ToSet(q) /\ q[f] \in Calls
                              /\ q[f] \notin ToSet(SubSeq(q, f + 1, Len(q)))
  BY <1>1, <1>4, Behind
<1>6. /\ Once(SubSeq(q, f, Len(q))) /\ ToSet(SubSeq(q, f, Len(q))) \subseteq ToSet(q)
  <2> DEFINE e == f - 1
  <2>1. e \in 0 .. Len(q) + 1 /\ e + 1 = f
    BY <1>4
  <2> HIDE DEF e
  <2>2. Once(SubSeq(q, e + 1, Len(q))) /\ ToSet(SubSeq(q, e + 1, Len(q))) \subseteq ToSet(q)
    BY <1>1, <2>1, Behind
  <2> QED BY <2>1, <2>2
<1> QED BY <1>1, <1>3, <1>4, <1>5, <1>6 DEF q, f

\* Whatever is sent is then in a queue, unless sending fails.
LEMMA SendEndsSo ==
    ASSUME NEW c, NEW q, NEW k, SendRequest(c, q, k)
    PROVE  SendEnds(c, q)
<1>1. CASE awaitConn # <<>>
  BY <1>1 DEF SendRequest, SendEnds
<1>2. CASE awaitConn = <<>> /\ OpenConnection(c, q)
  <2>1. <<c>> = Append(awaitConn, c)
    BY <1>2
  <2> QED BY <1>2, <2>1 DEF OpenConnection, SendEnds
<1>3. CASE awaitConn = <<>> /\ SendNow(c, q)
  BY <1>3 DEF SendNow, SendEnds
<1> QED BY <1>1, <1>2, <1>3 DEF SendRequest

\* A request that is in no queue is sent.
LEMMA SendApart ==
    ASSUME ReqTypeOK, NEW c \in Calls, NEW q \in Seq(Calls), NEW k, NEW W, SendRequest(c, q, k),
           Once(awaitConn), Once(q), Once(resuming'), Once(failing'), c \notin W, c \notin Done,
           Partition(ToSet(awaitConn), ToSet(q), ToSet(resuming'), ToSet(failing'), W, W),
           1 .. issued' = W \cup {c} \cup Done, Done \cap W = {}
    PROVE  /\ Apart'
           /\ \/ result' = result
              \/ Done' = Done \cup {c} /\ result'[c] = Error
           /\ \A d \in Done : result'[d] = result[d]
<1>1. SendEnds(c, q)
  BY SendEndsSo
<1>2. /\ \/ result' = result /\ Done' = Done
         \/ Done' = Done \cup {c} /\ result'[c] = Error
      /\ \A d \in Done : result'[d] = result[d]
  <2>1. CASE NoCall
    BY <2>1 DEF NoCall, Done
  <2>2. CASE HandleRequestError(c)
    <3>1. Error \in Calls \cup {Error}
      OBVIOUS
    <3> QED BY <2>2, <3>1, CallIs DEF HandleRequestError
  <2> QED BY <1>1, <2>1, <2>2 DEF SendEnds
<1>3. Waiting' = IF c \in Done' THEN W ELSE W \cup {c}
  <2>1. Waiting' = (W \cup {c} \cup Done) \ Done'
    BY DEF Waiting
  <2> QED BY <1>2, <2>1
<1>4. /\ Once(awaitConn') /\ Once(awaitResp')
      /\ Partition(ToSet(awaitConn'), ToSet(awaitResp'), ToSet(resuming'), ToSet(failing'),
                   Waiting', W)
  BY <1>1, <1>3, SendPlaces
<1>5. Apart'
  BY <1>4 DEF Apart, Partition
<1> QED BY <1>2, <1>5

\* The requests without an answer are known.
LEMMA ApartWait ==
    ASSUME TypesInv, Apart
    PROVE  /\ ReqTypeOK /\ issued \in Nat /\ 1 .. issued \subseteq Calls
           /\ Waiting \subseteq 1 .. issued /\ Waiting \cap Done = {}
           /\ 1 .. issued = Waiting \cup Done
           /\ awaitConn \in Seq(Calls) /\ awaitResp \in Seq(Calls)
           /\ resuming \in Seq(Calls) /\ failing \in Seq(Calls)
           /\ ToSet(awaitConn) \subseteq Waiting /\ ToSet(awaitResp) \subseteq Waiting
           /\ ToSet(resuming) \subseteq Waiting /\ ToSet(failing) \subseteq Waiting
<1>1. ReqTypeOK
  BY TypesEnough
<1>2. issued \in Nat /\ 1 .. issued \subseteq Calls /\ Done \subseteq 1 .. issued
  BY BoundsAssumption DEF TypesInv, Calls
<1> QED BY <1>1, <1>2 DEF Waiting, Apart, Partition, ReqTypeOK

LEMMA ApartIssue == ASSUME TypesInv, Apart, Issue PROVE Apart' /\ Started
<1> DEFINE c == issued'
<1>1. /\ issued < MaxCalls /\ issued' = issued + 1 /\ SendRequest(c, awaitResp, socket)
      /\ UNCHANGED <<resuming, failing, lost>>
  BY DEF Issue
<1>2. /\ ReqTypeOK /\ issued \in Nat /\ awaitResp \in Seq(Calls)
      /\ Waiting \cap Done = {} /\ 1 .. issued = Waiting \cup Done
  BY ApartWait
<1>3. c \in Calls /\ c \notin 1 .. issued /\ 1 .. c = (1 .. issued) \cup {c}
  BY <1>1, <1>2, BoundsAssumption DEF Calls
<1>4. c \notin Waiting /\ c \notin Done /\ 1 .. issued' = Waiting \cup {c} \cup Done
  BY <1>2, <1>3
<1>5. /\ Once(awaitConn) /\ Once(awaitResp) /\ Once(resuming') /\ Once(failing')
      /\ Partition(ToSet(awaitConn), ToSet(awaitResp), ToSet(resuming'), ToSet(failing'),
                   Waiting, Waiting)
  BY <1>1 DEF Apart
<1> HIDE DEF c
<1>6. /\ Apart'
      /\ \/ result' = result
         \/ Done' = Done \cup {c} /\ result'[c] = Error
      /\ \A d \in Done : result'[d] = result[d]
  BY <1>1, <1>2, <1>3, <1>4, <1>5, SendApart
<1> QED BY <1>1, <1>3, <1>6 DEF Started, c

\* A request that was issued before is sent.
LEMMA ApartResend ==
    ASSUME TypesInv, Apart, NEW c \in Waiting, NEW q \in Seq(Calls), NEW k,
           SendRequest(c, q, k), Once(q), Once(resuming'), UNCHANGED <<issued, failing>>,
           ToSet(q) \subseteq ToSet(awaitResp) \ {c},
           ToSet(resuming') \subseteq ToSet(resuming) \ {c},
           c \in ToSet(awaitResp) \cup ToSet(resuming)
    PROVE  Apart' /\ Served
<1> DEFINE W == Waiting \ {c}
<1>1. /\ ReqTypeOK /\ 1 .. issued \subseteq Calls /\ Waiting \cap Done = {}
      /\ 1 .. issued = Waiting \cup Done
  BY ApartWait
<1>2. /\ c \in Calls /\ c \notin W /\ c \notin Done /\ 1 .. issued' = W \cup {c} \cup Done
      /\ Done \cap W = {}
  BY <1>1
<1>3. /\ Once(awaitConn) /\ Once(failing')
      /\ Partition(ToSet(awaitConn), ToSet(q), ToSet(resuming'), ToSet(failing'), W, W)
  BY DEF Apart, Partition
<1> HIDE DEF W
<1>4. /\ Apart'
      /\ \/ result' = result
         \/ Done' = Done \cup {c} /\ result'[c] = Error
      /\ \A d \in Done : result'[d] = result[d]
  BY <1>1, <1>2, <1>3, SendApart
<1>5. Served
  <2>1. Done' = Done \/ Done' = Done \cup {c}
    BY <1>4 DEF Done
  <2> QED BY <1>4, <2>1 DEF Served
<1> QED BY <1>4, <1>5

LEMMA ApartResume == ASSUME TypesInv, Apart, Resume PROVE Apart' /\ Served
<1> DEFINE c == Head(resuming)
<1>1. /\ resuming # <<>> /\ resuming' = Tail(resuming) /\ SendRequest(c, awaitResp, socket)
      /\ UNCHANGED <<issued, failing>>
  BY DEF Resume, requestVars
<1>2. resuming \in Seq(Calls) /\ awaitResp \in Seq(Calls) /\ ToSet(resuming) \subseteq Waiting
  BY ApartWait
<1>3. Once(resuming) /\ Once(awaitResp) /\ ToSet(awaitResp) \cap ToSet(resuming) = {}
  BY DEF Apart, Partition
<1>4. /\ c \in ToSet(resuming) /\ Once(resuming') /\ ToSet(resuming') = ToSet(resuming) \ {c}
  BY <1>1, <1>2, <1>3, TailQueue
<1> HIDE DEF c
<1>5. c \in Waiting /\ ToSet(awaitResp) \subseteq ToSet(awaitResp) \ {c}
  BY <1>2, <1>3, <1>4
<1> QED BY <1>1, <1>2, <1>3, <1>4, <1>5, ApartResend

LEMMA ApartFailNext == ASSUME TypesInv, Apart, FailNext PROVE Apart' /\ Served
<1> DEFINE c == Head(failing)
<1>1. /\ failing # <<>> /\ failing' = Tail(failing) /\ CallHandler(c, Error)
      /\ UNCHANGED <<issued, awaitConn, awaitResp, resuming>>
  BY DEF FailNext, requestVars, HandleRequestError
<1>2. ReqTypeOK /\ failing \in Seq(Calls) /\ ToSet(failing) \subseteq Waiting
  BY ApartWait
<1>3. Once(failing) /\ Once(awaitResp) /\ ToSet(awaitResp) \cap ToSet(failing) = {}
  BY DEF Apart, Partition
<1>4. c \in ToSet(failing) /\ Once(failing') /\ ToSet(failing') = ToSet(failing) \ {c}
  BY <1>1, <1>2, <1>3, TailQueue
<1> HIDE DEF c
<1>5. /\ c \in Waiting /\ ToSet(awaitResp') \subseteq ToSet(awaitResp) \ {c} /\ Once(awaitResp')
      /\ Error \in Calls \cup {Error}
  BY <1>1, <1>2, <1>3, <1>4
<1> QED BY <1>1, <1>2, <1>4, <1>5, ApartCall

LEMMA ApartDestroy == ASSUME Apart, Destroy PROVE Apart' /\ Served
<1>1. /\ awaitConn' = <<>> /\ awaitResp' = <<>> /\ resuming = <<>> /\ failing = <<>>
      /\ UNCHANGED <<issued, result, resuming, failing>>
  BY DEF Destroy, Idle, requestVars
<1>2. Done' = Done /\ Waiting' = Waiting
  BY <1>1, SameRequests
<1> QED BY <1>1, <1>2, EmptyQueue DEF Apart, Partition, Served

LEMMA ApartConnection ==
    ASSUME Apart, ConnectionOpens \/ ConnectionFails \/ ReadFails
    PROVE  Apart' /\ Served
<1>1. /\ resuming = <<>> /\ failing = <<>> /\ UNCHANGED <<issued, result>>
      /\ \/ /\ resuming' = awaitConn /\ awaitConn' = <<>> /\ UNCHANGED <<awaitResp, failing>>
         \/ /\ failing' = awaitConn /\ awaitConn' = <<>> /\ UNCHANGED <<awaitResp, resuming>>
         \/ /\ failing' = awaitResp /\ awaitResp' = <<>> /\ UNCHANGED <<awaitConn, resuming>>
  BY DEF ConnectionOpens, ConnectionFails, ReadFails, Idle, requestVars
<1>2. Done' = Done /\ Waiting' = Waiting
  BY <1>1, SameRequests
<1> QED BY <1>1, <1>2, EmptyQueue DEF Apart, Partition, Served

LEMMA ApartTruncated == ASSUME TypesInv, Apart, Truncated PROVE Apart' /\ Served
<1> DEFINE c == Head(awaitResp)
<1>1. /\ UNCHANGED <<issued, awaitConn, resuming, failing>>
      /\ \/ awaitResp' = awaitResp /\ NoCall
         \/ awaitResp # <<>> /\ awaitResp' = Tail(awaitResp) /\ CallHandler(c, Error)
  BY DEF Truncated, requestVars, HandleRequestError
<1>2. CASE awaitResp' = awaitResp /\ NoCall
  BY <1>1, <1>2, ApartStays DEF NoCall
<1>3. CASE awaitResp # <<>> /\ awaitResp' = Tail(awaitResp) /\ CallHandler(c, Error)
  <2>1. ReqTypeOK /\ awaitResp \in Seq(Calls) /\ ToSet(awaitResp) \subseteq Waiting
    BY ApartWait
  <2>2. Once(failing) /\ Once(awaitResp) /\ ToSet(awaitResp) \cap ToSet(failing) = {}
    BY DEF Apart, Partition
  <2>3. c \in ToSet(awaitResp) /\ Once(awaitResp') /\ ToSet(awaitResp') = ToSet(awaitResp) \ {c}
    BY <1>3, <2>1, <2>2, TailQueue
  <2> HIDE DEF c
  <2>4. /\ c \in Waiting /\ ToSet(failing') \subseteq ToSet(failing) \ {c} /\ Once(failing')
        /\ Error \in Calls \cup {Error}
    BY <1>1, <2>1, <2>2, <2>3
  <2> QED BY <1>1, <1>3, <2>1, <2>3, <2>4, ApartCall
<1> QED BY <1>1, <1>2, <1>3

LEMMA ApartWaitForBody == ASSUME TypesInv, Apart, WaitForBody PROVE Apart' /\ Served
<1> DEFINE m == buffer[1]
<1>1. /\ looping /\ awaitResp' = SubSeq(awaitResp, FoundAt(awaitResp, m), Len(awaitResp))
      /\ UNCHANGED <<issued, result, awaitConn, resuming, failing>>
  BY DEF WaitForBody, requestVars
<1>2. m \in Parts
  BY <1>1, FirstPart
<1> HIDE DEF m
<1>3. Once(awaitResp') /\ ToSet(awaitResp') \subseteq ToSet(awaitResp)
  BY <1>1, <1>2, FoundApart
<1> QED BY <1>1, <1>3, ApartForget

\* An answer is taken for a request that waits for one, if there is any.
LEMMA ApartAnswered ==
    ASSUME TypesInv, Apart, NEW m \in Parts, NEW r \in Calls \cup {Error},
           awaitResp' = Others(m), UNCHANGED <<issued, awaitConn, resuming, failing>>,
           IF Found(m) THEN CallHandler(Request(m), r) ELSE NoCall
    PROVE  Apart' /\ Served
<1> DEFINE c == Request(m)
<1>1. /\ Once(Others(m)) /\ ToSet(Others(m)) \subseteq ToSet(awaitResp)
      /\ Found(m) => c \in ToSet(awaitResp) /\ c \in Waiting /\ c \notin ToSet(Others(m))
  BY FoundApart
<1> HIDE DEF c
<1>2. CASE Found(m)
  <2>1. ReqTypeOK /\ CallHandler(c, r)
    BY <1>2, ApartWait DEF c
  <2>2. Once(failing') /\ ToSet(failing') = ToSet(failing) /\ ToSet(awaitResp) \cap ToSet(failing) = {}
    BY DEF Apart, Partition
  <2>3. /\ Once(awaitResp') /\ ToSet(awaitResp') \subseteq ToSet(awaitResp) \ {c}
        /\ ToSet(failing') \subseteq ToSet(failing) \ {c} /\ c \in Waiting
        /\ c \in ToSet(awaitResp) \cup ToSet(failing)
    BY <1>1, <1>2, <2>2
  <2> QED BY <2>1, <2>2, <2>3, ApartCall
<1>3. CASE ~Found(m)
  BY <1>1, <1>3, ApartForget DEF NoCall
<1> QED BY <1>2, <1>3

LEMMA ApartAnswer == ASSUME TypesInv, Apart, BadAnswer \/ GiveAnswer PROVE Apart' /\ Served
<1> DEFINE m == buffer[1]
<1>1. /\ looping /\ awaitResp' = Others(m) /\ m.kind # "alien"
      /\ UNCHANGED <<issued, awaitConn, resuming, failing>>
      /\ \E r \in {Error, m.call} : IF Found(m) THEN CallHandler(Request(m), r) ELSE NoCall
  BY DEF BadAnswer, GiveAnswer, IsAnswer, requestVars, HandleRequestError
<1>2. m \in Parts /\ m.call \in Calls
  <2>1. m \in Parts /\ m.call \in 0 .. issued /\ m.call # 0
    BY <1>1, FirstPart
  <2>2. issued \in Nat /\ 1 .. issued \subseteq Calls
    BY ApartWait
  <2> QED BY <2>1, <2>2
<1> HIDE DEF m
<1>3. PICK r \in {Error, m.call} : IF Found(m) THEN CallHandler(Request(m), r) ELSE NoCall
  BY <1>1
<1>4. r \in Calls \cup {Error}
  BY <1>2, <1>3
<1> QED BY <1>1, <1>2, <1>3, <1>4, ApartAnswered

LEMMA ApartAskAgain == ASSUME TypesInv, Apart, AskAgain PROVE Apart' /\ Served
<1> DEFINE m == buffer[1]
           c == Request(m)
           k == IF m.code = "redirect" THEN "none" ELSE ConnAfter(m)
<1>1. /\ looping /\ Found(m) /\ SendRequest(c, Others(m), k)
      /\ UNCHANGED <<issued, resuming, failing>>
  BY DEF AskAgain, IsAnswer
<1>2. m \in Parts
  BY <1>1, FirstPart
<1> HIDE DEF m
<1>3. /\ Others(m) \in Seq(Calls) /\ Once(Others(m))
      /\ ToSet(Others(m)) \subseteq ToSet(awaitResp)
      /\ c \in ToSet(awaitResp) /\ c \in Waiting /\ c \notin ToSet(Others(m))
  BY <1>1, <1>2, FoundApart
<1>4. Once(resuming) /\ ToSet(awaitResp) \cap ToSet(resuming) = {}
  BY DEF Apart, Partition
<1> HIDE DEF c, k
<1>5. /\ ToSet(Others(m)) \subseteq ToSet(awaitResp) \ {c} /\ Once(resuming')
      /\ ToSet(resuming') \subseteq ToSet(resuming) \ {c}
      /\ c \in ToSet(awaitResp) \cup ToSet(resuming)
  BY <1>1, <1>3, <1>4
<1> QED BY <1>1, <1>3, <1>5, ApartResend

\* Requests are in one place, and no handler is called twice, by no server.
LEMMA ApartStep ==
    ASSUME TypesInv, Apart, [ReqNext]_reqVars
    PROVE  Apart' /\ (Started \/ Served)
<1>1. CASE HandlerReturns \/ Read \/ NotAnAnswer \/ Answer \/ Skip \/ Ask \/ UNCHANGED reqVars
  <2>1. UNCHANGED <<issued, result, awaitConn, awaitResp, resuming, failing>>
    BY <1>1 DEF HandlerReturns, Read, NotAnAnswer, Answer, Skip, Ask, reqVars, requestVars, queueVars
  <2> QED BY <2>1, ApartStays
<1>2. CASE Issue
  BY <1>2, ApartIssue
<1>3. CASE Destroy
  BY <1>3, ApartDestroy
<1>4. CASE Resume \/ FailNext
  BY <1>4, ApartResume, ApartFailNext
<1>5. CASE ConnectionOpens \/ ConnectionFails \/ ReadFails
  BY <1>5, ApartConnection
<1>6. CASE Truncated \/ WaitForBody
  BY <1>6, ApartTruncated, ApartWaitForBody
<1>7. CASE BadAnswer \/ AskAgain \/ GiveAnswer
  BY <1>7, ApartAnswer, ApartAskAgain
<1> QED BY <1>1, <1>2, <1>3, <1>4, <1>5, <1>6, <1>7 DEF ReqNext, ReqLoopStep, LookAtBuffer

LEMMA ApartInvariance == ReqSpec => []Apart
<1>1. ReqInit => Apart
  <2> SUFFICES ASSUME ReqInit PROVE Apart
    OBVIOUS
  <2>1. awaitConn = <<>> /\ awaitResp = <<>> /\ resuming = <<>> /\ failing = <<>>
    BY DEF ReqInit
  <2> QED BY <2>1, EmptyQueue DEF Apart, Partition
<1>2. TypesInv /\ Apart /\ [ReqNext]_reqVars => Apart'
  BY ApartStep
<1> QED BY <1>1, <1>2, TypesInvariance, PTL DEF ReqSpec

-----------------------------------------------------------------------------
\* Whatever the server does: every variable of the requests always has its type, the
\* buffer room for more, and a request is in one queue at most, and in none once its
\* handler was called.  And the queues, the connection and what is on its way always
\* fit each other: ConnectingWhileQueued and NotForgotten hold of handleResponseBytes,
\* sendRequest and connectionHandler1, if the server is Orderly: it says "Connection:
\* Close" in no header whose body comes by itself, and answers with more than fits the
\* buffer only behind nothing else.
THEOREM RequestsSound == ReqSpec => []Sound
<1>1. IInv => ConnectingWhileQueued /\ NotForgotten
  BY QueuedFound DEF IInv, Phases
<1>2. TypesInv /\ Apart => ReqTypeOK /\ InOnePlace
  BY TypesEnough, QueuedOnce
<1>3. (Orderly => IInv) /\ TypesInv /\ Apart => Sound
  BY <1>1, <1>2 DEF Sound
<1> QED BY <1>3, ReqInvariance, TypesInvariance, ApartInvariance, PTL

\* A program that has one request at a time, at a server that is Orderly, loses
\* only a request whose answer the server leaves out, or whose answer was read
\* behind what is no answer.
THEOREM OneAtATimeIsSafeAlways == ReqSpec => []OneAtATimeIsSafe
<1>1. (Orderly => IInv) => OneAtATimeIsSafe
  BY DEF IInv, Spared, OneAtATimeIsSafe, Orderly
<1> QED BY <1>1, ReqInvariance, PTL

-----------------------------------------------------------------------------
(* The client implements ResponseHandlers.                                 *)

\* A client that was deleted does nothing more, and nothing happens to it.
Over ==
    closed => /\ ~inHandler /\ ~looping /\ resuming = <<>> /\ failing = <<>>
              /\ server = <<>> /\ socket = "none"

LEMMA OverStops == ASSUME Over, closed PROVE ~ReqNext
BY DEF Over, Idle, ReqNext, ReqLoopStep, LookAtBuffer, Issue, Destroy, HandlerReturns, Resume,
       FailNext, WaitForBody, NotAnAnswer, IsAnswer, BadAnswer, AskAgain, GiveAnswer,
       ConnectionOpens, ConnectionFails, Read, Truncated, ReadFails, Answer, Skip, Ask

\* Only Destroy deletes it.
LEMMA StaysOpen == ASSUME [ReqNext]_reqVars, ~Destroy PROVE closed' = closed
BY DEF ReqNext, ReqLoopStep, LookAtBuffer, reqVars, Issue, HandlerReturns, Resume,
       FailNext, WaitForBody, NotAnAnswer, BadAnswer, AskAgain, GiveAnswer, ConnectionOpens,
       ConnectionFails, Read, Truncated, ReadFails, Answer, Skip, Ask

LEMMA OverInv == ReqSpec => []Over
<1>1. ReqInit => Over
  BY DEF ReqInit, Over
<1>2. Over /\ [ReqNext]_reqVars => Over'
  <2> SUFFICES ASSUME Over, [ReqNext]_reqVars PROVE Over'
    OBVIOUS
  <2>1. CASE UNCHANGED reqVars
    BY <2>1 DEF Over, reqVars, queueVars, serverVars
  <2>2. CASE closed /\ ReqNext
    BY <2>2, OverStops
  <2>3. CASE Destroy
    BY <2>3 DEF Destroy, Idle, Over, queueVars, serverVars
  <2>4. CASE ~closed /\ ~Destroy
    BY <2>4, StaysOpen DEF Over
  <2> QED BY <2>1, <2>2, <2>3, <2>4
<1> QED BY <1>1, <1>2, PTL DEF ReqSpec

LEMMA PromiseSettle ==
    ASSUME NEW S \in SUBSET Calls, NEW L \in SUBSET Calls, Promise!Settle(S, L)
    PROVE  Promise!Next
BY DEF Promise!Next

LEMMA PromiseIssue ==
    ASSUME NEW c \in Calls, Promise!Issue(c)
    PROVE  Promise!Next
BY DEF Promise!Next

LEMMA PromiseRefuse ==
    ASSUME NEW c \in Calls, Promise!Refuse(c)
    PROVE  Promise!Next
BY DEF Promise!Next

LEMMA SettledKept ==
    ASSUME IInv, IInv', Orderly, Orderly', ~closed, ~closed', Settled
    PROVE  Promise!Next
<1> DEFINE S == Done' \ Done
           L == lost' \ lost
<1>1. /\ Done \subseteq 1 .. issued /\ Waiting = (1 .. issued) \ Done
      /\ Waiting' = (1 .. issued) \ Done' /\ 1 .. issued \subseteq Calls
  BY QueuedWait DEF IInv, ReqTypeOK, Waiting, Settled
<1>2. /\ Done \subseteq Done' /\ S \subseteq Waiting
      /\ \A c \in Done : result'[c] = result[c]
      /\ \A c \in S : result'[c] \in {c, Error} \/ c \in lost'
      /\ lost \subseteq lost' /\ lost' \cap Done \subseteq lost /\ lost' \subseteq 1 .. issued
  BY DEF Settled
<1>3. \A c \in S : result'[c] \in Calls \cup {Error}
  BY DEF IInv, ReqTypeOK
<1>4. /\ L \subseteq Waiting /\ lost' = lost \cup L /\ Waiting' = Waiting \ S
      /\ S \in SUBSET Calls /\ L \in SUBSET Calls
  BY <1>1, <1>2
<1>5. DOMAIN result' = DOMAIN result \cup S
  BY <1>2 DEF Done
<1>6. \A c \in S : result'[c] \in {c, Error} \/ (c \in lost' /\ result'[c] \in Calls)
  BY <1>2, <1>3
<1>7. \A c \in DOMAIN result : result'[c] = result[c]
  BY <1>2 DEF Done
<1> HIDE DEF S, L
<1>8. Promise!Settle(S, L)
  BY <1>2, <1>4, <1>5, <1>6, <1>7 DEF Promise!Settle
<1> QED BY <1>4, <1>8, PromiseSettle

LEMMA ServedKept ==
    ASSUME TypesInv, TypesInv', Apart, ~Orderly, ~Orderly', ~closed, ~closed', Served
    PROVE  Promise!Next
<1> DEFINE S == Done' \ Done
           L == {}
<1>1. /\ Done \subseteq 1 .. issued /\ 1 .. issued \subseteq Calls /\ Waiting = (1 .. issued) \ Done
      /\ Waiting' = (1 .. issued) \ Done'
  BY ApartWait DEF TypesInv, Waiting, Served
<1>2. /\ Done \subseteq Done' /\ S \subseteq Waiting /\ \A c \in Done : result'[c] = result[c]
  BY DEF Served
<1>3. /\ S \in SUBSET Calls /\ L \in SUBSET Calls /\ L \subseteq Waiting
      /\ Waiting' = Waiting \ S /\ Calls = Calls \cup L
  BY <1>1, <1>2
<1>4. /\ DOMAIN result' = DOMAIN result \cup S
      /\ \A c \in DOMAIN result : result'[c] = result[c]
  BY <1>2 DEF Done
<1>5. \A c \in S : result'[c] \in {c, Error} \/ (c \in Calls /\ result'[c] \in Calls)
  BY <1>3 DEF TypesInv
<1> HIDE DEF S, L
<1>6. Promise!Settle(S, L)
  BY <1>2, <1>3, <1>4, <1>5 DEF Promise!Settle
<1> QED BY <1>3, <1>6, PromiseSettle

LEMMA StartedKept ==
    ASSUME TypesInv, Orderly' = Orderly, ~closed, ~closed', Started
    PROVE  Promise!Next
<1> DEFINE c == issued'
<1>1. /\ Done \subseteq 1 .. issued /\ issued \in Nat /\ issued' = issued + 1
  BY BoundsAssumption DEF TypesInv, Started
<1>2. c \notin 1 .. issued /\ 1 .. c = (1 .. issued) \cup {c} /\ c \in Calls
  BY <1>1 DEF Started
<1>3. /\ lost' = lost /\ \A d \in Done : result'[d] = result[d]
      /\ Waiting = (1 .. issued) \ Done /\ Waiting' = (1 .. c) \ Done'
  BY DEF Started, Waiting
<1> HIDE DEF c
<1>4. c \notin Waiting \cup Done
  BY <1>1, <1>2, <1>3
<1>5. CASE result' = result
  <2>1. Done' = Done
    BY <1>5 DEF Done
  <2>2. Waiting' = Waiting \cup {c}
    BY <1>1, <1>2, <1>3, <2>1
  <2>3. Promise!Issue(c)
    BY <1>3, <1>4, <1>5, <2>2 DEF Promise!Issue, Done
  <2> QED BY <1>2, <2>3, PromiseIssue
<1>6. CASE Done' = Done \cup {c} /\ result'[c] = Error
  <2>1. Waiting' = Waiting
    BY <1>1, <1>2, <1>3, <1>6
  <2>2. Promise!Refuse(c)
    BY <1>3, <1>4, <1>6, <2>1 DEF Promise!Refuse, Done
  <2> QED BY <1>2, <2>2, PromiseRefuse
<1> QED BY <1>5, <1>6 DEF Started, c

LEMMA DestroyKept ==
    ASSUME TypesInv, Apart, Destroy, Orderly' = Orderly
    PROVE  Promise!Next
<1>1. ~closed /\ closed' /\ lost' = lost \cup Waiting /\ result' = result
  BY DEF Destroy, Idle
<1>2. Waiting \subseteq Calls
  BY ApartWait
<1> QED BY <1>1, <1>2 DEF Promise!Next, Promise!Delete

\* The client implements what it promises of the handlers: each is called at most
\* once, after its request was issued and before the client is deleted, whatever the
\* server does; and if it is Orderly, with the answer to its request or with an error,
\* or, if the request is lost, with the answer to another one.
THEOREM HandlersAsPromised == ReqSpec => ImplementsPromise
<1>1. ReqInit => Promise!Init
  BY DEF ReqInit, Promise!Init, Waiting, Done
<1>2. ASSUME Orderly => IInv, (Orderly => IInv)', TypesInv, TypesInv', Apart, Over,
             [ReqNext]_reqVars
      PROVE  [Promise!Next]_(Promise!vars)
  <2>1. Orderly' = Orderly
    BY <1>2, QuirkStays DEF Orderly
  <2>2. CASE closed
    <3>1. UNCHANGED reqVars
      BY <1>2, <2>2, OverStops
    <3>2. UNCHANGED <<closed, lost, result>> /\ Waiting' = Waiting
      BY <3>1 DEF reqVars, requestVars, Waiting, Done
    <3> QED BY <2>1, <3>2 DEF Promise!vars
  <2>3. CASE Destroy
    BY <1>2, <2>1, <2>3, DestroyKept
  <2>4. CASE ~closed /\ ~Destroy
    <3>1. ~closed'
      BY <1>2, <2>4, StaysOpen
    <3>2. CASE Started
      BY <1>2, <2>1, <2>4, <3>1, <3>2, StartedKept
    <3>3. CASE Orderly /\ ~Started
      <4>1. IInv /\ IInv' /\ Settled
        BY <1>2, <2>1, <3>3, ReqStepInv
      <4> QED BY <2>1, <2>4, <3>1, <3>3, <4>1, SettledKept
    <3>4. CASE ~Orderly /\ ~Started
      <4>1. Served
        BY <1>2, <3>4, ApartStep
      <4> QED BY <1>2, <2>1, <2>4, <3>1, <3>4, <4>1, ServedKept
    <3> QED BY <3>2, <3>3, <3>4
  <2> QED BY <2>2, <2>3, <2>4
<1>3. (Orderly => IInv) /\ (Orderly => IInv)' /\ TypesInv /\ TypesInv' /\ Apart /\ Over
         /\ [ReqNext]_reqVars => [Promise!Next]_(Promise!vars)
  BY <1>2
<1> QED BY <1>1, <1>3, ReqInvariance, TypesInvariance, ApartInvariance, OverInv, PTL
       DEF ReqSpec, ImplementsPromise, Promise!Spec
=============================================================================
