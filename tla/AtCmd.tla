-------------------------------- MODULE AtCmd --------------------------------
(***************************************************************************)
(* The AT command interface (lib/at_cmd, with the shutdown of lib/bsdlib): *)
(* threads that share one socket to the modem.  A command is queued and    *)
(* written by whichever thread finds no other command pending; the socket  *)
(* thread receives, copies and dispatches answers and passes notifications *)
(* on.  The socket thread reads current_cmd without its mutex, so its pass *)
(* over a message is several steps here.                                   *)
(***************************************************************************)
EXTENDS Integers, Sequences, Functions

CONSTANTS
    Callers,        \* application threads
    Socket,         \* the socket thread
    None,
    QUEUE_LEN,      \* CONFIG_AT_CMD_QUEUE_LEN
    MAX_CALLS,      \* bound on the number of commands
    Environments    \* sets of what may happen, of Troubles

Troubles == {"notify",      \* notifications
             "stray",       \* messages that are empty or too long
             "alike",       \* notifications that read like an answer
             "read",        \* recv() fails, and the socket is opened again
             "dead",        \* recv() fails, and so does opening the socket
             "down",        \* bsdlib is shut down and started again
             "noopen",      \* the socket cannot be opened after a restart
             "write",       \* send() fails
             "short",       \* send() takes a part of the command
             "chain"}       \* handlers send commands of their own

ASSUME AtCmdAssumption ==
    /\ Socket \notin Callers /\ None \notin Callers \cup {Socket}
    /\ QUEUE_LEN \in Nat \ {0} /\ MAX_CALLS \in Nat
    /\ Environments \subseteq SUBSET Troubles

VARIABLES
    commands, response_sync,                \* message queues
    current_cmd_mutex, response_sync_get,   \* owners of the mutexes
    current_cmd,    \* [loaded, item]: the item stays when cmd is set to NULL
    shutdown_mode, notification_handler,
    pc, calls,      \* of every thread: where it is, how many commands it has made
    rx,             \* the message the socket thread works on
    ret,            \* what at_cmd_write() has returned last, for every caller
    buf,            \* the answer in the response buffer of every caller
    handed,         \* the callback run for this message, and the command it answers
    open,           \* the socket is open at both ends
    modem, inbox,   \* commands at the modem, and its messages
    bsdlib, env

queues == <<commands, response_sync>>
locks == <<current_cmd_mutex, response_sync_get>>
results == <<ret, buf, handed>>
network == <<open, modem, inbox, bsdlib>>
settings == <<shutdown_mode, notification_handler, env>>
vars == <<queues, locks, current_cmd, settings, pc, calls, rx, results, network>>

Threads == Callers \cup {Socket}

May(trouble) == trouble \in env

(* A command is known by the thread that made it and a number. *)
Ids == Threads \X Nat

NoId == <<None, 0>>

Cmd(t, n, sync) == [id |-> <<t, n>>, sync |-> sync]

Response(code, of) == [code |-> code, of |-> of]

Nothing == Response("none", NoId)

MoreCalls == SumFunction(calls) < MAX_CALLS

Goto(t, label) == pc' = [pc EXCEPT ![t] = label]

-----------------------------------------------------------------------------
(* The modem and the BSD library (external). *)

(* Commands are answered once and in order. *)
ModemAnswers ==
    /\ modem # <<>>
    /\ inbox' = Append(inbox, Response("answer", Head(modem))) /\ modem' = Tail(modem)
    /\ UNCHANGED <<queues, locks, current_cmd, settings, pc, calls, rx, results, open, bsdlib>>

(* Messages nobody has asked for. *)
ModemSends ==
    /\ open /\ inbox = <<>>
    /\ \E kind \in {"notify", "stray", "alike"} :
          /\ May(kind)
          /\ inbox' = <<Response(kind, NoId)>>
    /\ UNCHANGED <<queues, locks, current_cmd, settings, pc, calls, rx, results, open, modem, bsdlib>>

(* Sockets end with the library. *)
bsdlib_shutdown ==
    /\ May("down") /\ bsdlib = "fresh"
    /\ bsdlib' = "off" /\ open' = FALSE /\ modem' = <<>> /\ inbox' = <<>>
    /\ UNCHANGED <<queues, locks, current_cmd, settings, pc, calls, rx, results>>

(* Wakes the socket thread if it already waits. *)
bsdlib_init ==
    /\ bsdlib = "off"
    /\ bsdlib' = "on"
    /\ IF pc[Socket] = "sleep" THEN Goto(Socket, "wake") ELSE UNCHANGED pc
    /\ UNCHANGED <<queues, locks, current_cmd, settings, calls, rx, results, open, modem, inbox>>

-----------------------------------------------------------------------------
(* load_cmd_and_write(), called by every thread. *)

(* Where a thread goes on after it. *)
AfterLoad(t) ==
    CASE t = Socket /\ pc[t] = "load" -> "recv"
      [] t = Socket /\ pc[t] = "chain" -> "dispatch"
      [] t # Socket /\ pc[t] = "load" -> "await"
      [] t # Socket /\ pc[t] = "chain" -> "idle"

Loads(t) == pc[t] \in {"load", "chain"}

(* A failed write keeps the mutex.  A command that was sent in part counts *)
(* as sent, and the modem waits for the rest of it.                        *)
at_write(t, cmd) ==
    \/ /\ open /\ (modem' = Append(modem, cmd.id) \/ (May("short") /\ UNCHANGED modem))
       /\ current_cmd_mutex' = None /\ Goto(t, AfterLoad(t))
    \/ /\ ~open \/ May("write")
       /\ current_cmd_mutex' = t /\ UNCHANGED <<modem, pc>>

(* Mutant: a command is loaded although another one is pending. *)
NothingToLoadUnchecked == commands = <<>>
NothingToLoad == current_cmd.loaded \/ commands = <<>>

load_cmd_and_write(t) ==
    /\ Loads(t)
    /\ current_cmd_mutex = None \/ (current_cmd_mutex = t /\ ~current_cmd.loaded)
    /\ IF NothingToLoad
       THEN /\ current_cmd_mutex' = None /\ Goto(t, AfterLoad(t))
            /\ UNCHANGED <<commands, current_cmd, modem>>
       ELSE /\ current_cmd' = [loaded |-> TRUE, item |-> Head(commands)]
            /\ commands' = Tail(commands)
            /\ at_write(t, Head(commands))
    /\ UNCHANGED <<response_sync, response_sync_get, settings, calls, rx, results, open, inbox, bsdlib>>

complete_cmd == current_cmd' = [current_cmd EXCEPT !.loaded = FALSE]

(* k_msgq_put(&response_sync, ..., K_FOREVER): one response at a time. *)
Respond(response) == response_sync = <<>> /\ response_sync' = <<response>>

(* A write that failed is answered here.  Mutant: it is not. *)
WriteUnanswered == UNCHANGED response_sync
WriteAnswered ==
    IF current_cmd.item.sync THEN Respond(Response("WRITE", current_cmd.item.id))
                             ELSE UNCHANGED response_sync

write_failed(t) ==
    /\ Loads(t) /\ current_cmd_mutex = t /\ current_cmd.loaded
    /\ WriteAnswered
    /\ complete_cmd
    /\ UNCHANGED <<commands, locks, settings, pc, calls, rx, results, network>>

-----------------------------------------------------------------------------
(* The calls. *)

(* k_msgq_put(&commands, ..., K_FOREVER).  Mutant: the queue is not asked  *)
(* whether it has room.                                                    *)
EnqueueAnyway(cmd) == commands' = Append(commands, cmd)
Enqueue(cmd) ==
    /\ Len(commands) < QUEUE_LEN
    /\ commands' = Append(commands, cmd)

(* A call that is refused (-EHOSTDOWN during a shutdown, -EINVAL without a *)
(* command, -ENOMEM without room for its copy) changes nothing.            *)
Call(c, label) ==
    /\ pc[c] = "idle" /\ ~shutdown_mode /\ MoreCalls
    /\ calls' = [calls EXCEPT ![c] = @ + 1]
    /\ ret' = [ret EXCEPT ![c] = Nothing] /\ buf' = [buf EXCEPT ![c] = NoId]
    /\ Goto(c, label)
    /\ UNCHANGED <<queues, locks, current_cmd, settings, rx, handed, network>>

at_cmd_write(c) == Call(c, "lock")

at_cmd_write_with_callback(c) == Call(c, "put_async")

(* "Ensure we get our own AT response".  Mutant: without the mutex. *)
lock_response_unlocked(c) ==
    /\ pc[c] = "lock"
    /\ Goto(c, "put_sync")
    /\ UNCHANGED <<queues, locks, current_cmd, settings, calls, rx, results, network>>
lock_response(c) ==
    /\ pc[c] = "lock" /\ response_sync_get = None
    /\ response_sync_get' = c /\ Goto(c, "put_sync")
    /\ UNCHANGED <<queues, current_cmd_mutex, current_cmd, settings, calls, rx, results, network>>

(* The socket thread comes here from a handler. *)
put_command(t) ==
    /\ \/ pc[t] = "put_sync" /\ Enqueue(Cmd(t, calls[t], TRUE)) /\ Goto(t, "load")
       \/ pc[t] = "put_async" /\ Enqueue(Cmd(t, calls[t], FALSE)) /\ Goto(t, "chain")
    /\ UNCHANGED <<response_sync, locks, current_cmd, settings, calls, rx, results, network>>

await_response(c) ==
    /\ pc[c] = "await" /\ response_sync # <<>>
    /\ ret' = [ret EXCEPT ![c] = Head(response_sync)] /\ response_sync' = <<>>
    /\ response_sync_get' = None /\ Goto(c, "idle")
    /\ UNCHANGED <<commands, current_cmd_mutex, current_cmd, settings, calls, rx, buf, handed, network>>

(* Only when it makes a difference. *)
at_cmd_set_notification_handler ==
    /\ May("notify") /\ ~notification_handler
    /\ notification_handler' = TRUE
    /\ UNCHANGED <<queues, locks, current_cmd, shutdown_mode, env, pc, calls, rx, results, network>>

-----------------------------------------------------------------------------
(* socket_thread_fn() *)

Received(msg, label) == rx' = msg /\ Goto(Socket, label)

(* A message is an answer if it ends with OK or ERROR, or has +CMS ERROR   *)
(* or +CME ERROR anywhere.                                                 *)
get_return_code(msg) == IF msg.code = "alike" THEN [msg EXCEPT !.code = "answer"] ELSE msg

(* A message that is empty or not terminated is taken as a failed answer. *)
recv_message ==
    /\ pc[Socket] = "recv" /\ open /\ inbox # <<>>
    /\ inbox' = Tail(inbox) /\ handed' = <<NoId, NoId>>
    /\ IF Head(inbox).code = "stray" THEN Received(Response("READ", NoId), "dispatch")
                                     ELSE Received(get_return_code(Head(inbox)), "handle")
    /\ UNCHANGED <<queues, locks, current_cmd, settings, calls, ret, buf, open, modem, bsdlib>>

(* What was under way is lost with the socket. *)
recv_error ==
    /\ pc[Socket] = "recv" /\ open
    /\ \/ May("read") /\ Received(Response("READ", NoId), "dispatch") /\ UNCHANGED open
       \/ May("dead") /\ Goto(Socket, "dead") /\ open' = FALSE /\ UNCHANGED rx
    /\ inbox' = <<>> /\ modem' = <<>>
    /\ UNCHANGED <<queues, locks, current_cmd, settings, calls, results, bsdlib>>

(* EHOSTDOWN, with bsdlib_shutdown_wait(): the thread registers, sleeps,    *)
(* and opens the socket when it is woken up.  Without a socket it goes on  *)
(* all the same, and ends at the next recv().                              *)
recv_host_down ==
    /\ \/ /\ pc[Socket] = "recv" /\ ~open /\ bsdlib # "nosocket"
          /\ Goto(Socket, "down") /\ shutdown_mode' = TRUE /\ UNCHANGED <<open, bsdlib>>
       \/ /\ pc[Socket] = "down"
          /\ Goto(Socket, "sleep") /\ UNCHANGED <<shutdown_mode, open, bsdlib>>
       \/ /\ pc[Socket] = "wake"
          /\ Goto(Socket, "load") /\ shutdown_mode' = FALSE
          /\ \/ open' = TRUE /\ UNCHANGED bsdlib
             \/ May("noopen") /\ bsdlib' = "nosocket" /\ UNCHANGED open
       \/ /\ pc[Socket] = "recv" /\ bsdlib = "nosocket"
          /\ Goto(Socket, "dead") /\ UNCHANGED <<shutdown_mode, open, bsdlib>>
    /\ UNCHANGED <<queues, locks, current_cmd, notification_handler, env, calls, rx, results,
                   modem, inbox>>

(* A handler may send a command with a callback. *)
Handler ==
    \/ Goto(Socket, "dispatch") /\ UNCHANGED calls
    \/ /\ May("chain") /\ MoreCalls
       /\ calls' = [calls EXCEPT ![Socket] = @ + 1] /\ Goto(Socket, "put_async")

(* current_cmd.callback is that of the last command, pending or not. *)
CallbackGets(id) ==
    IF current_cmd.item # Nothing /\ ~current_cmd.item.sync
    THEN Handler /\ handed' = <<current_cmd.item.id, id>>
    ELSE Goto(Socket, "dispatch") /\ UNCHANGED <<calls, handed>>

handle_notification ==
    /\ pc[Socket] = "handle" /\ rx.code = "notify"
    /\ IF notification_handler THEN Handler /\ UNCHANGED handed ELSE CallbackGets(NoId)
    /\ UNCHANGED <<queues, locks, current_cmd, settings, rx, ret, buf, network>>

(* The answer goes to the buffer of a synchronous command, if it fits. *)
handle_answer ==
    /\ pc[Socket] = "handle" /\ rx.code = "answer"
    /\ IF current_cmd.loaded /\ current_cmd.item.sync
       THEN /\ \/ buf' = [buf EXCEPT ![current_cmd.item.id[1]] = rx.of] /\ UNCHANGED rx
               \/ rx' = [rx EXCEPT !.code = "EMSGSIZE"] /\ UNCHANGED buf
            /\ Goto(Socket, "dispatch") /\ UNCHANGED <<calls, handed>>
       ELSE CallbackGets(rx.of) /\ UNCHANGED <<buf, rx>>
    /\ UNCHANGED <<queues, locks, current_cmd, settings, ret, network>>

dispatch ==
    /\ pc[Socket] = "dispatch"
    /\ IF current_cmd.loaded /\ current_cmd.item.sync /\ rx.code # "notify"
       THEN Respond(rx) ELSE UNCHANGED response_sync
    /\ Goto(Socket, IF rx.code = "notify" THEN "load" ELSE "complete")
    /\ UNCHANGED <<commands, locks, current_cmd, settings, calls, rx, results, network>>

complete ==
    /\ pc[Socket] = "complete" /\ current_cmd_mutex = None
    /\ complete_cmd
    /\ Goto(Socket, "load") /\ rx' = Nothing
    /\ UNCHANGED <<queues, locks, settings, calls, results, network>>

SocketThread ==
    \/ recv_message \/ recv_host_down
    \/ handle_notification \/ handle_answer \/ dispatch \/ complete

-----------------------------------------------------------------------------
Init ==
    /\ commands = <<>> /\ response_sync = <<>>
    /\ current_cmd_mutex = None /\ response_sync_get = None
    /\ current_cmd = [loaded |-> FALSE, item |-> Nothing]
    /\ shutdown_mode = FALSE /\ notification_handler = FALSE
    /\ pc = [t \in Threads |-> IF t = Socket THEN "load" ELSE "idle"]
    /\ calls = [t \in Threads |-> 0]
    /\ rx = Nothing
    /\ ret = [c \in Callers |-> Nothing] /\ buf = [c \in Callers |-> NoId] /\ handed = <<NoId, NoId>>
    /\ open = TRUE /\ modem = <<>> /\ inbox = <<>> /\ bsdlib = "fresh"
    /\ env \in Environments

Works(t) == load_cmd_and_write(t) \/ write_failed(t) \/ put_command(t)

Waits(c) == lock_response(c) \/ await_response(c)

Next ==
    \/ ModemAnswers \/ ModemSends \/ bsdlib_shutdown \/ bsdlib_init
    \/ \E c \in Callers : at_cmd_write(c) \/ at_cmd_write_with_callback(c) \/ Waits(c)
    \/ \E t \in Threads : Works(t)
    \/ at_cmd_set_notification_handler
    \/ SocketThread \/ recv_error

Spec == Init /\ [][Next]_vars

(* Every thread runs, the modem answers and a shutdown ends. *)
Fairness ==
    /\ WF_vars(ModemAnswers) /\ WF_vars(bsdlib_init) /\ WF_vars(SocketThread)
    /\ \A t \in Threads : WF_vars(Works(t))
    /\ \A c \in Callers : WF_vars(Waits(c))

FairSpec == Spec /\ Fairness

-----------------------------------------------------------------------------
(* Types; no queue holds more than its length. *)
TypeOK ==
    /\ commands \in Seq([id : Ids, sync : BOOLEAN]) /\ Len(commands) <= QUEUE_LEN
    /\ response_sync \in Seq([code : {"answer", "EMSGSIZE", "READ", "WRITE"}, of : Ids \cup {NoId}])
    /\ Len(response_sync) <= 1
    /\ current_cmd_mutex \in Threads \cup {None} /\ response_sync_get \in Callers \cup {None}
    /\ current_cmd.loaded \in BOOLEAN
    /\ shutdown_mode \in BOOLEAN /\ notification_handler \in BOOLEAN /\ open \in BOOLEAN
    /\ pc \in [Threads -> {"idle", "lock", "put_sync", "put_async", "load", "chain", "await", "recv",
                           "handle", "dispatch", "complete", "down", "sleep", "wake", "dead"}]
    /\ calls \in [Threads -> Nat]
    /\ modem \in Seq(Ids) /\ buf \in [Callers -> Ids \cup {NoId}]

(* A message that is no answer may be taken for one. *)
Mistaken == env \cap {"stray", "read", "alike"} # {}

(* "Ensure we get our own AT response, not an old one": an at_cmd_write    *)
(* that has returned has the answer to its own command, in its buffer if   *)
(* the answer fits, or the error of its own write; a callback gets the     *)
(* answer to its own command (or a notification, while there is no         *)
(* handler for these).  A message that is not an answer and is taken for   *)
(* one moves all later answers to the next command.                        *)
OwnResponse ==
    ~Mistaken =>
        /\ \A c \in Callers :
              pc[c] = "idle" /\ ret[c] # Nothing =>
                 /\ ret[c].of = <<c, calls[c]>>
                 /\ ret[c].code = "answer" => buf[c] = <<c, calls[c]>>
        /\ handed[1] = handed[2] \/ (handed[2] = NoId /\ May("notify"))

(* "Any subsequent writes from other threads are queued until all the data *)
(* from the previous write is returned": the modem has at most one         *)
(* command, and when it has one that command is current_cmd.               *)
OneAtATime ==
    LET answers == {i \in DOMAIN inbox : inbox[i].code = "answer"}
    IN  ~Mistaken =>
           /\ Len(modem) <= 1 /\ (modem # <<>> => answers = {})
           /\ modem # <<>> => current_cmd.loaded /\ current_cmd.item.id = modem[1]
           /\ \A i \in answers : current_cmd.loaded /\ current_cmd.item.id = inbox[i].of

(* Every call returns, also when writes fail and notifications come.  It   *)
(* does not when a message nobody has asked for completes a command that   *)
(* was written in the meantime, when a command was sent in part, and after *)
(* a shutdown with a command pending or without a socket to open again; a  *)
(* handler that sends a command waits for itself when the queue is full.   *)
CallsReturn ==
    env \subseteq {"notify", "write"} =>
        \A c \in Callers : pc[c] # "idle" ~> pc[c] = "idle"
=============================================================================
