--------------------------- MODULE DownloadClient ---------------------------
(***************************************************************************)
(* The download client of subsys/net/lib/download_client: the download     *)
(* thread, the HTTP(S) requests and responses, and the API calls that      *)
(* share the client's state with the thread. The application's callback is *)
(* a step of its own between EvtSend and the thread's next step; the       *)
(* module that uses the client supplies it.                                *)
(***************************************************************************)
EXTENDS DfuTarget

CONSTANTS
    PROTO,          \* IPPROTO_TLS_1_2 ("TLS") or IPPROTO_TCP ("TCP")
    BUF_SIZE,       \* CONFIG_DOWNLOAD_CLIENT_BUF_SIZE
    FRAG_SIZE,      \* CONFIG_DOWNLOAD_CLIENT_HTTP_FRAG_SIZE
    FragOverrides,  \* frag_size_override of the configurations used; 0: none
    MAX_REQS        \* bounds the requests repeated while the answer is late

ASSUME ClientAssumption ==
    /\ PROTO \in {"TLS", "TCP"}
    /\ FRAG_SIZE \in Nat \ {0} /\ BUF_SIZE \in Nat /\ BUF_SIZE >= FRAG_SIZE
    /\ FragOverrides \subseteq 0..BUF_SIZE
    /\ MAX_REQS \in Nat

VARIABLES
    sock,       \* the socket and its connection, see NoSock
    cl,         \* struct download_client: what a download works on
    suspended,  \* the thread is suspended
    pc,         \* where the thread is
    at,         \* which callback of the thread runs or has run
    evt,        \* the event given to the callback
    rc          \* what the callback returned

clientVars == <<sock, cl, suspended, pc, at, evt, rc>>

\* A connection: requests the server has not answered, the answers on their
\* way to the client, and whether the server keeps it open.
NoSock  == [fd |-> FALSE, reqs |-> <<>>, rx |-> <<>>, open |-> FALSE]
NewSock == [fd |-> TRUE, reqs |-> <<>>, rx |-> <<>>, open |-> TRUE]

\* An answer on the wire: a header in two pieces, then data.
HdrStart == [k |-> "hdr"]
HdrEnd(ok, size, close) == [k |-> "end", ok |-> ok, size |-> size, close |-> close]
Payload(units) == [i \in DOMAIN units |-> [k |-> "data", unit |-> units[i]]]

\* What the application gets: a header that is taken for data is no unit of a file.
Junk == [file |-> CHOOSE f \in File : TRUE, at |-> DIRTY_IMAGE]
Units(items) == [i \in DOMAIN items |->
                    IF items[i].k = "data" THEN items[i].unit ELSE Junk]

NoEvt == [id |-> "NONE"]

\* download_client_init() starts the thread, which suspends itself.
ClientInit ==
    /\ sock = NoSock
    /\ cl = [file |-> CHOOSE f \in File : TRUE, frag |-> 0, file_size |-> 0,
             progress |-> 0, buf |-> <<>>, has_header |-> FALSE,
             connection_close |-> FALSE, len |-> 1]
    /\ suspended = TRUE
    /\ pc = "recv"
    /\ at = "none"
    /\ evt = NoEvt
    /\ rc = "OK"

-----------------------------------------------------------------------------
(* Connection *)

\* download_client_disconnect(): close() may fail and leave the descriptor.
Disconnected(s) ==
    IF ~ s.fd THEN {[s |-> s, err |-> "EINVAL"]}
    ELSE {[s |-> NoSock, err |-> "OK"]} \cup May("close", {[s |-> s, err |-> "ECLOSE"]})

\* download_client_connect(): nothing to do with an open descriptor; host
\* lookup or connection may fail, and so may setting the socket timeout, which
\* leaves the descriptor open.
Connected(s) ==
    IF s.fd THEN {[s |-> s, err |-> "OK"]}
    ELSE {[s |-> NewSock, err |-> "OK"]}
         \cup May("connect", {[s |-> NoSock, err |-> "ECONN"], [s |-> NewSock, err |-> "ETIMEO"]})

\* reconnect()
Reconnected(s) ==
    UNION {IF d.err # "OK" THEN {d} ELSE Connected(d.s) : d \in Disconnected(s)}

\* http_get_request_send(): HTTPS asks for a range, HTTP for all that is left.
\* A request on a connection the server has closed is lost or refused.
RequestEnd(c) ==
    LET off == c.progress + (IF c.frag # 0 THEN c.frag ELSE FRAG_SIZE) - 1
    IN  IF c.file_size # 0 /\ c.file_size < off THEN c.file_size ELSE off

Request(c) == [file |-> c.file, from |-> c.progress,
               to |-> IF PROTO = "TLS" THEN RequestEnd(c) ELSE DIRTY_IMAGE]

RequestSent(s, c) ==
    LET sent == [s EXCEPT !.reqs = IF s.open THEN Append(@, Request(c)) ELSE @]
    IN  IF ~ s.fd THEN {[s |-> s, err |-> "EBADF"]}
        ELSE {[s |-> sent, err |-> "OK"]} \cup May("send", {[s |-> s, err |-> "ESEND"]})

-----------------------------------------------------------------------------
(* API *)

\* download_client_start(): the request is sent by the caller, then the thread
\* is resumed. Resuming a thread that is not suspended does nothing.
StartedClient(c, file, from) ==
    [c EXCEPT !.file = file, !.file_size = 0, !.progress = from, !.buf = <<>>,
              !.has_header = FALSE]

-----------------------------------------------------------------------------
(* The thread *)

\* At "stuck" the thread stays, until the device is reset.
Running(label) == ~ suspended /\ pc = label
Goto(label) == pc' = label

\* k_thread_suspend() at restart_and_suspend.
ThreadSuspend ==
    /\ Running("suspend")
    /\ suspended' = TRUE
    /\ Goto("recv")
    /\ at' = "none" /\ rc' = "OK"
    /\ UNCHANGED <<sock, cl, evt>>

\* The callback is called: at names the place of the call.
EvtSend(e, place) ==
    /\ evt' = e
    /\ at' = place
    /\ Goto("callback")

Fragment(c) == [id |-> "FRAGMENT", data |-> Units(c.buf)]
Error(e)    == [id |-> "ERROR", error |-> e]

\* http_header_parse() finds the end of a header, whatever comes before it.
HdrEnds(buf) == {i \in DOMAIN buf : buf[i].k = "end"}
FirstEnd(buf) == CHOOSE i \in HdrEnds(buf) : \A j \in HdrEnds(buf) : i <= j

HeaderParsed(c, hdr) ==
    [c EXCEPT !.file_size = IF c.file_size = 0 THEN hdr.size ELSE @,
              !.connection_close = @ \/ hdr.close,
              !.has_header = TRUE]

\* A mutant: the header is counted, too.
HeaderCounted(offset, n) == n

\* The part of the last n items that is data.
Counted(offset, n) == IF offset < n THEN offset ELSE n

\* http_parse() of the client after more items were received: "more" to come, a
\* whole "fragment", or "bad". The end of the header is searched for in the
\* whole buffer, where the request, or what a longer answer left, still follows
\* the items received: a first piece that ends before the end of the request has
\* the request's end taken for its own. What is missing then (the status, the
\* size) is an error; a piece that has it all is shorter than its header, the
\* length of the copy wraps around, and the thread is "stuck" in it.
http_parse(c, items) ==
    LET all    == c.buf \o items
        h      == FirstEnd(all)
        parsed == HeaderParsed(c, all[h])
        body(q, b) ==
            LET offset == Len(b)
                new    == [q EXCEPT !.buf = b,
                                    !.progress = @ + Counted(offset, Len(items))]
            IN  [c |-> new,
                 rc |-> IF offset < FRAG_SIZE /\ new.progress # new.file_size
                        THEN "more" ELSE "fragment"]
        ends(r) == [c |-> [c EXCEPT !.buf = all], rc |-> r]
    IN  IF c.has_header THEN {body(c, all)}
        ELSE IF HdrEnds(all) = {}
        THEN {ends("more")} \cup May("stale", {ends("bad"), ends("stuck")})
        ELSE IF ~ all[h].ok THEN {ends("bad")}
        ELSE {body(parsed, SubSeq(all, h + 1, Len(all)))}

\* The buffer is full and holds no header.
RecvNoRoom ==
    /\ Running("recv")
    /\ Len(cl.buf) = BUF_SIZE
    /\ EvtSend(Error("E2BIG"), "stop")
    /\ UNCHANGED <<sock, cl, suspended, rc>>

\* recv() returns n items.
RecvData ==
    /\ Running("recv")
    /\ sock.fd
    /\ \E n \in 1..Len(sock.rx) :
        /\ Len(cl.buf) + n <= BUF_SIZE
        /\ \E p \in http_parse(cl, SubSeq(sock.rx, 1, n)) :
            /\ cl' = [p.c EXCEPT !.len = 1]
            /\ sock' = [sock EXCEPT !.rx = SubSeq(@, n + 1, Len(@))]
            /\ CASE p.rc = "more"     -> Goto("recv") /\ UNCHANGED <<evt, at>>
                 [] p.rc = "stuck"    -> Goto("stuck") /\ UNCHANGED <<evt, at>>
                 [] p.rc = "bad"      -> EvtSend(Error("EBADMSG"), "stop")
                 [] p.rc = "fragment" -> EvtSend(Fragment(p.c), "fragment")
    /\ UNCHANGED <<suspended, rc>>

\* recv() fails (-1), finds the connection closed (0) or times out. A partial
\* fragment goes to the application first.
RecvFailed(len) ==
    /\ Running("recv")
    /\ Len(cl.buf) < BUF_SIZE
    /\ cl' = [cl EXCEPT !.len = len]
    /\ IF cl.buf # <<>> /\ cl.has_header
       THEN EvtSend(Fragment(cl), IF len = -2 THEN "partial_timeout" ELSE "partial")
       ELSE IF len = -2
       THEN Goto("send_again") /\ UNCHANGED <<evt, at>>
       ELSE EvtSend(Error("ECONNRESET"), "reset")
    /\ UNCHANGED <<sock, suspended, rc>>

RecvClosed  == sock.fd /\ sock.rx = <<>> /\ ~ sock.open /\ RecvFailed(0)
RecvError   == (~ sock.fd \/ "recv" \in Faults) /\ RecvFailed(-1)

\* The socket times out when nothing is on its way; with late answers, also
\* when the answer takes longer than CONFIG_DOWNLOAD_CLIENT_SOCK_TIMEOUT_MS.
RecvTimeout ==
    /\ sock.fd /\ sock.open
    /\ \/ sock.rx = <<>> /\ sock.reqs = <<>>
       \/ "late_answer" \in Faults /\ Len(sock.reqs) < MAX_REQS
    /\ RecvFailed(-2)

\* The callback has returned: where the thread goes on.
AfterFragment ==
    /\ Running("return")
    /\ at \in {"fragment", "partial", "partial_timeout"}
    /\ CASE rc # "OK" -> Goto("suspend") /\ UNCHANGED <<sock, cl, evt, at>>
         [] rc = "OK" /\ at = "partial" ->
                EvtSend(Error("ECONNRESET"), "reset") /\ UNCHANGED <<sock, cl>>
         [] rc = "OK" /\ at = "partial_timeout" ->
                Goto("send_again") /\ UNCHANGED <<sock, cl, evt, at>>
         [] rc = "OK" /\ at = "fragment" /\ cl.progress = cl.file_size ->
                EvtSend([id |-> "DONE"], "stop") /\ UNCHANGED <<sock, cl>>
         [] OTHER ->
                /\ Goto("send_again")
                /\ cl' = [cl EXCEPT !.connection_close = FALSE]
                /\ IF cl.connection_close
                   THEN \E r \in Reconnected(sock) : sock' = r.s
                   ELSE UNCHANGED sock
                /\ UNCHANGED <<evt, at>>
    /\ UNCHANGED <<suspended, rc>>

\* After ECONNRESET: the application decides whether to reconnect.
AfterReset ==
    /\ Running("return")
    /\ at = "reset"
    /\ IF rc # "OK" THEN Goto("suspend") /\ UNCHANGED <<sock, evt, at>>
       ELSE \E r \in Reconnected(sock) :
                /\ sock' = r.s
                /\ IF r.err = "OK" THEN Goto("send_again") /\ UNCHANGED <<evt, at>>
                   ELSE EvtSend(Error("EHOSTDOWN"), "stop")
    /\ UNCHANGED <<cl, suspended, rc>>

\* After the last event of a download.
AfterStop ==
    /\ Running("return")
    /\ at = "stop"
    /\ Goto("suspend")
    /\ UNCHANGED <<sock, cl, suspended, at, evt, rc>>

\* A mutant: the next fragment is requested on a new connection only.
AsksOnReconnect(c) == c.len = 0

\* HTTPS requests the next fragment; HTTP only after a closed connection.
Asks(c) == PROTO # "TCP" \/ c.len = 0

\* send_again
SendAgain ==
    /\ Running("send_again")
    /\ LET ask == Asks(cl)
           c   == [cl EXCEPT !.buf = <<>>, !.has_header = IF ask THEN FALSE ELSE @]
       IN  /\ cl' = c
           /\ IF ~ ask THEN Goto("recv") /\ UNCHANGED <<sock, evt, at>>
              ELSE \E r \in RequestSent(sock, c) :
                       /\ sock' = r.s
                       /\ IF r.err = "OK" THEN Goto("recv") /\ UNCHANGED <<evt, at>>
                          ELSE EvtSend(Error("ECONNRESET"), "reset")
    /\ UNCHANGED <<suspended, rc>>

Thread ==
    \/ ThreadSuspend \/ RecvNoRoom \/ RecvData \/ RecvClosed \/ RecvError
    \/ RecvTimeout \/ AfterFragment \/ AfterReset \/ AfterStop \/ SendAgain

-----------------------------------------------------------------------------
(* The server and the network *)

\* HTTPS answers with the size of the file in Content-Range; HTTP with the
\* length of what follows in Content-Length.
Answer(q, close) ==
    LET last == IF q.to < Size[q.file] THEN q.to + 1 ELSE Size[q.file]
        size == IF PROTO = "TLS" THEN Size[q.file] ELSE Size[q.file] - q.from
    IN  IF q.from >= Size[q.file]
        THEN <<HdrStart, HdrEnd(FALSE, 0, close)>>
        ELSE <<HdrStart, HdrEnd(TRUE, size, close)>> \o Payload(Part(q.file, q.from, last))

\* The server answers the oldest request, and may close the connection after.
ServerAnswers ==
    /\ sock.fd /\ sock.open /\ sock.reqs # <<>>
    /\ \E close \in {FALSE} \cup May("server_close", {TRUE}) :
        sock' = [sock EXCEPT !.rx = @ \o Answer(Head(sock.reqs), close),
                             !.reqs = IF close THEN <<>> ELSE Tail(@),
                             !.open = ~ close]
    /\ UNCHANGED <<cl, suspended, pc, at, evt, rc>>

\* It answers with another status, or with a header that does not fit.
ServerRefuses ==
    /\ "bad_answer" \in Faults
    /\ sock.fd /\ sock.open /\ sock.reqs # <<>>
    /\ \E bad \in {<<HdrStart, HdrEnd(FALSE, 0, FALSE)>>, [i \in 1..BUF_SIZE |-> HdrStart]} :
        sock' = [sock EXCEPT !.rx = @ \o bad, !.reqs = Tail(@)]
    /\ UNCHANGED <<cl, suspended, pc, at, evt, rc>>

\* It does not answer a request, or closes the connection.
ServerFails ==
    /\ sock.fd /\ sock.open
    /\ \/ /\ "drop" \in Faults /\ sock.reqs # <<>>
          /\ sock' = [sock EXCEPT !.reqs = Tail(@)]
       \/ /\ "server_close" \in Faults
          /\ sock' = [sock EXCEPT !.reqs = <<>>, !.open = FALSE]
    /\ UNCHANGED <<cl, suspended, pc, at, evt, rc>>

Network == ServerAnswers \/ ServerRefuses \/ ServerFails
=============================================================================
