----------------------------- MODULE AtCmdProofs -----------------------------
(***************************************************************************)
(* Theorems about the AT command interface, for every number of calling    *)
(* threads, every queue length and every combination of troubles.          *)
(***************************************************************************)
EXTENDS AtCmd, TLAPS

(* Types that TypeOK leaves out, and where each kind of thread may be. *)
Commands == [id : Ids, sync : BOOLEAN]

Codes == {"none", "notify", "stray", "alike", "answer", "EMSGSIZE", "READ", "WRITE"}

Responses == [code : Codes, of : Ids \cup {NoId}]

CallerLabels == {"idle", "lock", "put_sync", "put_async", "load", "chain", "await"}

SocketLabels == {"load", "recv", "handle", "put_async", "chain", "dispatch", "complete",
                 "down", "sleep", "wake", "dead"}

(* The socket thread works on a message. *)
Working == pc[Socket] \in {"handle", "put_async", "chain", "dispatch", "complete"}

Labels == SocketLabels \cup CallerLabels

(* What the modem sends, and what response_sync may hold. *)
Messages == [code : {"notify", "stray", "alike", "answer"}, of : Ids \cup {NoId}]

Answers == [code : {"answer", "EMSGSIZE", "READ", "WRITE"}, of : Ids \cup {NoId}]

QueueTypes ==
    /\ commands \in Seq(Commands) /\ Len(commands) <= QUEUE_LEN
    /\ response_sync \in Seq(Answers) /\ Len(response_sync) <= 1
    /\ modem \in Seq(Ids) /\ inbox \in Seq(Messages)

LockTypes ==
    /\ current_cmd_mutex \in Threads \cup {None} /\ response_sync_get \in Callers \cup {None}
    /\ shutdown_mode \in BOOLEAN /\ notification_handler \in BOOLEAN /\ open \in BOOLEAN

ThreadTypes ==
    /\ pc \in [Threads -> Labels] /\ calls \in [Threads -> Nat]
    /\ \A c \in Callers : pc[c] \in CallerLabels
    /\ pc[Socket] \in SocketLabels
    /\ Working => rx.code \in {"notify", "answer", "EMSGSIZE", "READ"}
    /\ pc[Socket] = "handle" => rx.code \in {"notify", "answer"}

DataTypes ==
    /\ current_cmd \in [loaded : BOOLEAN, item : Commands \cup {Nothing}]
    /\ current_cmd.loaded => current_cmd.item \in Commands
    /\ rx \in Responses /\ ret \in [Callers -> Responses]
    /\ buf \in [Callers -> Ids \cup {NoId}]
    /\ handed \in (Ids \cup {NoId}) \X (Ids \cup {NoId})

TypeInv == QueueTypes /\ LockTypes /\ ThreadTypes /\ DataTypes

(* No message is mistaken for an answer. *)
Quiet == env \cap {"stray", "read", "alike"} = {}

(* The command that is pending is in one place: at a thread whose write    *)
(* failed (it holds the mutex), at the modem, or its answer is on the way  *)
(* or at the socket thread - or it is lost, and stays pending.             *)
AtSocket == rx.code \in {"answer", "EMSGSIZE"}

Answering(i) == inbox[i].code = "answer"

OnePlace ==
    /\ Len(modem) <= 1
    /\ modem # <<>> =>
          /\ current_cmd.loaded /\ current_cmd.item.id = modem[1]
          /\ current_cmd_mutex = None /\ ~AtSocket
          /\ \A i \in 1 .. Len(inbox) : ~Answering(i)
    /\ \A i \in 1 .. Len(inbox) : Answering(i) =>
          /\ current_cmd.loaded /\ current_cmd.item.id = inbox[i].of
          /\ current_cmd_mutex = None /\ ~AtSocket
          /\ \A j \in 1 .. Len(inbox) : Answering(j) => i = j
    /\ AtSocket =>
          /\ current_cmd.loaded /\ current_cmd.item.id = rx.of
          /\ current_cmd_mutex = None
    /\ Working => rx.code = "notify" \/ AtSocket
    /\ pc[Socket] = "complete" => AtSocket

(* A synchronous command and its response belong to the thread that owns   *)
(* response_sync_get, which waits for it.                                  *)
Owned(id) ==
    /\ response_sync_get \in Callers
    /\ pc[response_sync_get] \in {"load", "await"}
    /\ id = <<response_sync_get, calls[response_sync_get]>>

PendingSync == current_cmd.loaded /\ current_cmd.item.sync /\ pc[Socket] # "complete"

Owners ==
    /\ \A c \in Callers : pc[c] \in {"put_sync", "load", "await"} <=> response_sync_get = c
    /\ \A c \in Callers : pc[c] # "idle" => ret[c] = Nothing
    /\ \A i \in 1 .. Len(commands) : commands[i].sync =>
          /\ Owned(commands[i].id) /\ response_sync = <<>> /\ ~PendingSync
          /\ \A j \in 1 .. Len(commands) : commands[j].sync => i = j
    /\ PendingSync => Owned(current_cmd.item.id) /\ response_sync = <<>>
    /\ response_sync # <<>> =>
          /\ Owned(response_sync[1].of)
          /\ response_sync[1].code = "answer" => buf[response_sync_get] = response_sync[1].of
    /\ pc[Socket] \in {"put_async", "chain", "dispatch"} /\ rx.code = "answer"
          /\ current_cmd.item.sync => buf[current_cmd.item.id[1]] = rx.of

Noticed ==
    /\ pc[Socket] = "handle" /\ rx.code = "notify" => May("notify")
    /\ \A i \in 1 .. Len(inbox) : inbox[i].code = "notify" => May("notify")
    /\ \A i \in 1 .. Len(inbox) : inbox[i].code = "stray" => May("stray")
    /\ \A i \in 1 .. Len(inbox) : inbox[i].code = "alike" => May("alike")

IInv == TypeInv /\ Noticed /\ (Quiet => OnePlace /\ Owners /\ OwnResponse)

-----------------------------------------------------------------------------
LEMMA ThreadFacts ==
    /\ Socket \in Threads /\ Callers \subseteq Threads /\ Socket \notin Callers
    /\ None \notin Threads
    /\ \A t \in Threads : t # Socket => t \in Callers
    /\ NoId \notin Ids
    /\ \A t \in Threads, n \in Nat : <<t, n>> \in Ids
    /\ Nothing \notin Commands
BY AtCmdAssumption DEF Threads, Ids, NoId, Commands, Nothing, Response

LEMMA NothingType == Nothing \in Responses /\ Nothing.code = "none" /\ Nothing.of = NoId
BY DEF Nothing, Response, Responses, Codes

LEMMA TailFacts ==
    ASSUME NEW S, NEW s \in Seq(S), s # <<>>
    PROVE  /\ Head(s) \in S /\ Head(s) = s[1]
           /\ Tail(s) \in Seq(S) /\ Len(Tail(s)) = Len(s) - 1
           /\ Len(s) \in Nat /\ 1 \in 1 .. Len(s)
           /\ \A i \in 1 .. Len(Tail(s)) : i + 1 \in 1 .. Len(s) /\ Tail(s)[i] = s[i + 1]
OBVIOUS

LEMMA AppendFacts ==
    ASSUME NEW S, NEW s \in Seq(S), NEW e \in S
    PROVE  /\ Append(s, e) \in Seq(S) /\ Len(Append(s, e)) = Len(s) + 1 /\ Len(s) \in Nat
           /\ Append(s, e)[Len(s) + 1] = e
           /\ \A i \in 1 .. Len(s) : Append(s, e)[i] = s[i]
OBVIOUS

LEMMA EmptyFacts ==
    ASSUME NEW S
    PROVE  <<>> \in Seq(S) /\ Len(<<>>) = 0
OBVIOUS

LEMMA SingleFacts ==
    ASSUME NEW S, NEW e \in S
    PROVE  <<e>> \in Seq(S) /\ Len(<<e>>) = 1 /\ <<e>>[1] = e /\ <<e>> # <<>>
OBVIOUS

LEMMA GotoMoves ==
    ASSUME ThreadTypes, NEW t \in Threads, NEW label \in Labels, Goto(t, label)
    PROVE  /\ pc' \in [Threads -> Labels] /\ pc'[t] = label
           /\ \A u \in Threads : u # t => pc'[u] = pc[u]
BY DEF Goto, ThreadTypes

(* The types of the invariant are those of TypeOK. *)
LEMMA InvTypes == TypeInv => TypeOK
<1> SUFFICES ASSUME TypeInv PROVE TypeOK
  OBVIOUS
<1>1. pc \in [Threads -> {"idle", "lock", "put_sync", "put_async", "load", "chain", "await", "recv",
                           "handle", "dispatch", "complete", "down", "sleep", "wake", "dead"}]
  BY DEF TypeInv, ThreadTypes, Labels, SocketLabels, CallerLabels
<1> QED BY <1>1 DEF TypeInv, QueueTypes, LockTypes, ThreadTypes, DataTypes, TypeOK, Commands,
           Answers

LEMMA InvInit == Init => IInv
<1> SUFFICES ASSUME Init PROVE IInv
  OBVIOUS
<1>1. /\ commands = <<>> /\ response_sync = <<>> /\ modem = <<>> /\ inbox = <<>>
      /\ current_cmd = [loaded |-> FALSE, item |-> Nothing] /\ rx = Nothing
      /\ pc[Socket] = "load" /\ \A c \in Callers : pc[c] = "idle"
  BY ThreadFacts DEF Init
<1>2. current_cmd.loaded = FALSE /\ current_cmd.item = Nothing
  BY <1>1
<1>3. QueueTypes
  BY <1>1, EmptyFacts, AtCmdAssumption DEF QueueTypes
<1>4. LockTypes
  BY DEF Init, LockTypes
<1>5. ThreadTypes
  <2>1. pc \in [Threads -> Labels]
    BY DEF Init, Labels, SocketLabels, CallerLabels
  <2>2. calls \in [Threads -> Nat]
    BY DEF Init
  <2> QED BY <1>1, <2>1, <2>2 DEF ThreadTypes, CallerLabels, SocketLabels, Working
<1>6. DataTypes
  <2>1. ret \in [Callers -> Responses] /\ buf \in [Callers -> Ids \cup {NoId}]
    BY NothingType DEF Init
  <2>2. handed \in (Ids \cup {NoId}) \X (Ids \cup {NoId})
    BY DEF Init
  <2> QED BY <1>1, <2>1, <2>2, NothingType DEF DataTypes
<1>7. Noticed
  BY <1>1 DEF Noticed
<1>8. OnePlace
  BY <1>1, NothingType DEF OnePlace, AtSocket, Working
<1>9. Owners
  BY ThreadFacts DEF Init, Owners, PendingSync
<1>10. OwnResponse
  BY DEF Init, OwnResponse
<1> QED BY <1>3, <1>4, <1>5, <1>6, <1>7, <1>8, <1>9, <1>10 DEF IInv, TypeInv

LEMMA SocketGoes ==
    ASSUME TypeInv, NEW label \in SocketLabels, Goto(Socket, label)
    PROVE  /\ pc' \in [Threads -> Labels] /\ pc'[Socket] = label
           /\ \A c \in Callers : pc'[c] = pc[c] /\ pc'[c] \in CallerLabels
BY ThreadFacts, GotoMoves DEF TypeInv, ThreadTypes, Labels

LEMMA CallerGoes ==
    ASSUME TypeInv, NEW c \in Callers, NEW label \in CallerLabels, Goto(c, label)
    PROVE  /\ pc' \in [Threads -> Labels] /\ pc'[Socket] = pc[Socket] /\ pc'[c] = label
           /\ \A d \in Callers : pc'[d] \in CallerLabels /\ (d # c => pc'[d] = pc[d])
BY ThreadFacts, GotoMoves DEF TypeInv, ThreadTypes, Labels

LEMMA ModemAnswersPreserves ==
    ASSUME IInv, ModemAnswers
    PROVE  IInv'
<1> USE DEF queues, locks, results, network, settings
<1>1. QueueTypes'
  BY DEF IInv, TypeInv, QueueTypes, ModemAnswers, Messages, Response
<1>2. LockTypes'
  BY DEF IInv, TypeInv, LockTypes, ModemAnswers
<1>3. ThreadTypes'
  BY DEF IInv, TypeInv, ThreadTypes, ModemAnswers, Working
<1>4. DataTypes'
  BY DEF IInv, TypeInv, DataTypes, ModemAnswers
<1>5. Noticed'
  BY DEF IInv, Noticed, May, ModemAnswers, Response
<1>6. ASSUME Quiet PROVE OnePlace'
  BY <1>6, AppendFacts, SingleFacts DEF IInv, OnePlace, Answering, AtSocket, Working,
     ModemAnswers, Response
<1>7. ASSUME Quiet PROVE Owners'
  BY <1>7 DEF IInv, Owners, Owned, PendingSync, ModemAnswers
<1>8. ASSUME Quiet PROVE OwnResponse'
  BY DEF IInv, OwnResponse, Mistaken, Quiet, May, ModemAnswers
<1> QED BY <1>1, <1>2, <1>3, <1>4, <1>5, <1>6, <1>7, <1>8 DEF IInv, TypeInv, Quiet, ModemAnswers

LEMMA ModemSendsPreserves ==
    ASSUME IInv, ModemSends
    PROVE  IInv'
<1> USE DEF queues, locks, results, network, settings
<1>1. QueueTypes'
  BY DEF IInv, TypeInv, QueueTypes, ModemSends, Messages, Response
<1>2. LockTypes'
  BY DEF IInv, TypeInv, LockTypes, ModemSends
<1>3. ThreadTypes'
  BY DEF IInv, TypeInv, ThreadTypes, ModemSends, Working
<1>4. DataTypes'
  BY DEF IInv, TypeInv, DataTypes, ModemSends
<1>5. Noticed'
  BY DEF IInv, Noticed, May, ModemSends, Response
<1>6. ASSUME Quiet PROVE OnePlace'
  BY <1>6 DEF IInv, OnePlace, Answering, AtSocket, Working, ModemSends, Response
<1>7. ASSUME Quiet PROVE Owners'
  BY <1>7 DEF IInv, Owners, Owned, PendingSync, ModemSends
<1>8. ASSUME Quiet PROVE OwnResponse'
  BY DEF IInv, OwnResponse, Mistaken, Quiet, May, ModemSends
<1> QED BY <1>1, <1>2, <1>3, <1>4, <1>5, <1>6, <1>7, <1>8 DEF IInv, TypeInv, Quiet, ModemSends

LEMMA BsdlibShutdownPreserves ==
    ASSUME IInv, bsdlib_shutdown
    PROVE  IInv'
<1> USE DEF queues, locks, results, network, settings
<1>1. QueueTypes'
  BY DEF IInv, TypeInv, QueueTypes, bsdlib_shutdown
<1>2. LockTypes'
  BY DEF IInv, TypeInv, LockTypes, bsdlib_shutdown
<1>3. ThreadTypes'
  BY DEF IInv, TypeInv, ThreadTypes, bsdlib_shutdown, Working
<1>4. DataTypes'
  BY DEF IInv, TypeInv, DataTypes, bsdlib_shutdown
<1>5. Noticed'
  BY DEF IInv, Noticed, May, bsdlib_shutdown
<1>6. ASSUME Quiet PROVE OnePlace'
  BY <1>6 DEF IInv, OnePlace, AtSocket, Working, bsdlib_shutdown
<1>7. ASSUME Quiet PROVE Owners'
  BY <1>7 DEF IInv, Owners, Owned, PendingSync, bsdlib_shutdown
<1>8. ASSUME Quiet PROVE OwnResponse'
  BY DEF IInv, OwnResponse, Mistaken, Quiet, May, bsdlib_shutdown
<1> QED BY <1>1, <1>2, <1>3, <1>4, <1>5, <1>6, <1>7, <1>8 DEF IInv, TypeInv, Quiet,
           bsdlib_shutdown

LEMMA BsdlibInitPreserves ==
    ASSUME IInv, bsdlib_init
    PROVE  IInv'
<1> USE DEF queues, locks, results, network, settings
<1>1. QueueTypes'
  BY DEF IInv, TypeInv, QueueTypes, bsdlib_init
<1>2. LockTypes'
  BY DEF IInv, TypeInv, LockTypes, bsdlib_init, Goto
<1>3. ThreadTypes'
  <2>1. CASE Goto(Socket, "wake")
    BY SocketGoes DEF IInv, TypeInv, ThreadTypes, bsdlib_init, SocketLabels, Working
  <2>2. CASE UNCHANGED pc
    BY <2>2 DEF IInv, TypeInv, ThreadTypes, bsdlib_init, Working
  <2> QED BY <2>1, <2>2 DEF bsdlib_init
<1>4. DataTypes'
  BY DEF IInv, TypeInv, DataTypes, bsdlib_init
<1>5. Noticed'
  BY DEF IInv, TypeInv, ThreadTypes, Noticed, May, bsdlib_init, Goto
<1>6. ASSUME Quiet PROVE OnePlace'
  BY <1>6 DEF IInv, TypeInv, ThreadTypes, OnePlace, Answering, AtSocket, Working, bsdlib_init,
     Goto
<1>7. ASSUME Quiet PROVE Owners'
  BY <1>7, ThreadFacts DEF IInv, TypeInv, ThreadTypes, Owners, Owned, PendingSync, bsdlib_init,
     Goto
<1>8. ASSUME Quiet PROVE OwnResponse'
  BY DEF IInv, Owners, OwnResponse, Mistaken, Quiet, May, bsdlib_init
<1> QED BY <1>1, <1>2, <1>3, <1>4, <1>5, <1>6, <1>7, <1>8 DEF IInv, TypeInv, Quiet, bsdlib_init

LEMMA AfterLoadLabels ==
    ASSUME NEW t \in Threads, Loads(t)
    PROVE  /\ AfterLoad(t) \in Labels
           /\ t = Socket => AfterLoad(t) \in {"recv", "dispatch"}
           /\ t = Socket => (AfterLoad(t) = "dispatch" <=> pc[t] = "chain")
           /\ t # Socket => AfterLoad(t) \in {"await", "idle"}
           /\ t # Socket => (pc[t] = "load" <=> AfterLoad(t) = "await")
<1> USE DEF Labels, SocketLabels, CallerLabels
<1>1. CASE t = Socket /\ pc[t] = "load"
  BY <1>1 DEF AfterLoad
<1>2. CASE t = Socket /\ pc[t] = "chain"
  BY <1>2 DEF AfterLoad
<1>3. CASE t # Socket /\ pc[t] = "load"
  BY <1>3 DEF AfterLoad
<1>4. CASE t # Socket /\ pc[t] = "chain"
  BY <1>4 DEF AfterLoad
<1> QED BY <1>1, <1>2, <1>3, <1>4 DEF Loads

(* A thread loads a command only when none is pending; the command then is *)
(* at the modem, or at this thread, which keeps the mutex.                 *)
LEMMA LoadCmdAndWritePreserves ==
    ASSUME IInv, NEW t \in Threads, load_cmd_and_write(t)
    PROVE  IInv'
<1> USE DEF queues, locks, results, network, settings
<1>1. /\ Loads(t) /\ UNCHANGED <<response_sync, response_sync_get, settings, calls, rx, results,
                                 open, inbox, bsdlib>>
      /\ current_cmd_mutex = None \/ (current_cmd_mutex = t /\ ~current_cmd.loaded)
  BY DEF load_cmd_and_write
<1>2. QueueTypes /\ LockTypes /\ ThreadTypes /\ DataTypes
  BY DEF IInv, TypeInv
<1>3. \/ /\ current_cmd_mutex' = None /\ Goto(t, AfterLoad(t))
         /\ UNCHANGED <<commands, current_cmd, modem>>
      \/ /\ commands # <<>> /\ ~current_cmd.loaded
         /\ current_cmd' = [loaded |-> TRUE, item |-> Head(commands)]
         /\ commands' = Tail(commands) /\ at_write(t, Head(commands))
  BY DEF load_cmd_and_write, NothingToLoad
<1>4. Goto(t, AfterLoad(t)) \/ UNCHANGED pc
  BY <1>3 DEF at_write
<1>5. /\ pc' \in [Threads -> Labels] /\ pc'[t] \in {pc[t], AfterLoad(t)}
      /\ \A u \in Threads : u # t => pc'[u] = pc[u]
  BY <1>1, <1>2, <1>4, GotoMoves, AfterLoadLabels DEF ThreadTypes
<1>6. ThreadTypes'
  BY <1>1, <1>2, <1>5, ThreadFacts, AfterLoadLabels
     DEF ThreadTypes, SocketLabels, CallerLabels, Working, Loads
<1>7. Noticed'
  BY <1>1, <1>5, ThreadFacts, AfterLoadLabels DEF IInv, Noticed, May
<1>8. /\ \A c \in Callers : pc[c] \in {"put_sync", "load", "await"} <=> pc'[c] \in {"put_sync", "load", "await"}
      /\ \A c \in Callers : pc'[c] # "idle" => pc[c] # "idle"
      /\ \A c \in Callers : pc[c] \in {"load", "await"} => pc'[c] \in {"load", "await"}
      /\ pc'[Socket] = "complete" <=> pc[Socket] = "complete"
      /\ Working' => Working
      /\ pc'[Socket] \in {"put_async", "chain", "dispatch"} => pc[Socket] \in {"put_async", "chain", "dispatch"}
  BY <1>1, <1>5, ThreadFacts, AfterLoadLabels DEF Loads, Working
<1>9. \A id : Owned(id) => Owned(id)'
  BY <1>1, <1>8 DEF Owned
<1>10. ASSUME Quiet PROVE OwnResponse'
  BY <1>1, <1>5, <1>10, ThreadFacts, AfterLoadLabels
     DEF IInv, Owners, OwnResponse, Mistaken, Quiet, May, Loads
<1>11. CASE UNCHANGED <<commands, current_cmd, modem>> /\ current_cmd_mutex' = None
  <2>1. QueueTypes' /\ LockTypes' /\ DataTypes'
    BY <1>1, <1>2, <1>11 DEF QueueTypes, LockTypes, DataTypes
  <2>2. ASSUME Quiet PROVE OnePlace'
    BY <1>1, <1>8, <1>11, <2>2 DEF IInv, OnePlace, Answering, AtSocket
  <2>3. ASSUME Quiet PROVE Owners'
    BY <1>1, <1>8, <1>9, <1>11, <2>3 DEF IInv, Owners, PendingSync
  <2> QED BY <1>1, <1>6, <1>7, <1>10, <2>1, <2>2, <2>3 DEF IInv, TypeInv, Quiet
<1>12. CASE /\ commands # <<>> /\ ~current_cmd.loaded
            /\ current_cmd' = [loaded |-> TRUE, item |-> Head(commands)]
            /\ commands' = Tail(commands) /\ at_write(t, Head(commands))
  <2>1. /\ Head(commands) \in Commands /\ Head(commands) = commands[1]
        /\ commands' \in Seq(Commands) /\ Len(commands') = Len(commands) - 1
        /\ \A i \in 1 .. Len(commands') : i + 1 \in 1 .. Len(commands) /\ commands'[i] = commands[i + 1]
        /\ 1 \in 1 .. Len(commands) /\ Len(commands) \in Nat
    BY <1>2, <1>12, TailFacts DEF QueueTypes
  <2>2. \/ /\ modem' = Append(modem, Head(commands).id) /\ current_cmd_mutex' = None
        \/ current_cmd_mutex' \in {t, None} /\ modem' = modem
    BY <1>12 DEF at_write
  <2>3. /\ current_cmd'.loaded = TRUE /\ current_cmd'.item = Head(commands)
        /\ current_cmd' \in [loaded : BOOLEAN, item : Commands \cup {Nothing}]
    BY <1>12, <2>1
  <2>4. QueueTypes'
    <3>1. Head(commands).id \in Ids
      BY <2>1 DEF Commands
    <3>2. modem' \in Seq(Ids)
      BY <1>2, <2>2, <3>1, AppendFacts DEF QueueTypes
    <3> QED BY <1>1, <1>2, <2>1, <3>2, AtCmdAssumption DEF QueueTypes
  <2>5. LockTypes' /\ DataTypes'
    BY <1>1, <1>2, <2>1, <2>2, <2>3 DEF LockTypes, DataTypes
  <2>6. ASSUME Quiet PROVE OnePlace'
    <3>1. modem = <<>> /\ ~AtSocket /\ \A i \in 1 .. Len(inbox) : ~Answering(i)
      BY <1>12, <2>6 DEF IInv, OnePlace
    <3>2. \/ modem' = <<>>
          \/ modem' = <<Head(commands).id>> /\ current_cmd_mutex' = None
      BY <2>2, <3>1
    <3>3. Len(modem') <= 1 /\ (modem' # <<>> => modem'[1] = Head(commands).id)
      <4>1. CASE modem' = <<>>
        BY <4>1
      <4>2. CASE modem' = Append(modem, Head(commands).id)
        <5>1. Head(commands).id \in Ids /\ modem \in Seq(Ids) /\ Len(modem) = 0
          BY <1>2, <2>1, <3>1 DEF QueueTypes, Commands
        <5>2. Len(modem') = 1 /\ modem'[1] = Head(commands).id
          BY <4>2, <5>1, AppendFacts
        <5> QED BY <5>2
      <4> QED BY <2>2, <3>1, <4>1, <4>2
    <3>4. ~AtSocket' /\ (Working' => rx'.code = "notify") /\ pc'[Socket] # "complete"
      BY <1>1, <1>8, <2>6, <3>1 DEF IInv, OnePlace, AtSocket
    <3> QED BY <1>1, <2>3, <3>1, <3>2, <3>3, <3>4 DEF OnePlace, Answering
  <2>7. ASSUME Quiet PROVE Owners'
    <3>1. commands[1].sync =>
            /\ Owned(commands[1].id) /\ response_sync = <<>>
            /\ \A i \in 1 .. Len(commands') : ~commands'[i].sync
      <4> SUFFICES ASSUME commands[1].sync, NEW i \in 1 .. Len(commands'), commands'[i].sync
                   PROVE  FALSE
        BY <2>1, <2>7 DEF IInv, Owners
      <4>1. i + 1 \in 1 .. Len(commands) /\ commands[i + 1].sync
        BY <2>1
      <4>2. 1 = i + 1
        BY <2>1, <2>7, <4>1 DEF IInv, Owners
      <4> QED BY <4>2
    <3>2. ~commands[1].sync => ~PendingSync'
      BY <2>1, <2>3 DEF PendingSync
    <3>3. ASSUME NEW i \in 1 .. Len(commands'), commands'[i].sync
          PROVE  /\ Owned(commands[i].id)' /\ response_sync' = <<>> /\ ~PendingSync'
                 /\ \A j \in 1 .. Len(commands') : commands'[j].sync => i = j
      <4>1. i + 1 \in 1 .. Len(commands) /\ commands'[i] = commands[i + 1] /\ commands[i + 1].sync
        BY <2>1, <3>3
      <4>2. Owned(commands[i + 1].id) /\ response_sync = <<>>
        BY <2>7, <4>1 DEF IInv, Owners
      <4>3. ASSUME NEW j \in 1 .. Len(commands'), commands'[j].sync PROVE i = j
        <5>1. j + 1 \in 1 .. Len(commands) /\ commands[j + 1].sync
          BY <2>1, <4>3
        <5>2. i + 1 = j + 1
          BY <2>7, <4>1, <5>1 DEF IInv, Owners
        <5> QED BY <5>2
      <4> QED BY <1>1, <1>9, <3>1, <3>2, <4>1, <4>2, <4>3
    <3>4. PendingSync' => Owned(current_cmd.item.id)' /\ response_sync' = <<>>
      BY <1>1, <1>9, <2>1, <2>3, <3>1, <3>2
    <3>5. ~AtSocket'
      BY <1>1, <1>12, <2>7 DEF IInv, OnePlace, AtSocket
    <3> QED BY <1>1, <1>8, <1>9, <2>7, <3>3, <3>4, <3>5 DEF IInv, Owners, AtSocket
  <2> QED BY <1>1, <1>6, <1>7, <1>10, <2>4, <2>5, <2>6, <2>7 DEF IInv, TypeInv, Quiet
<1> QED BY <1>3, <1>11, <1>12

LEMMA WriteFailedPreserves ==
    ASSUME IInv, NEW t \in Threads, write_failed(t)
    PROVE  IInv'
<1> USE DEF queues, locks, results, network, settings
<1>1. QueueTypes'
  <2>1. ASSUME current_cmd.item.sync PROVE Response("WRITE", current_cmd.item.id) \in Answers
    BY DEF IInv, TypeInv, DataTypes, write_failed, Commands, Answers, Response
  <2>2. response_sync' \in Seq(Answers) /\ Len(response_sync') <= 1
    <3>1. response_sync \in Seq(Answers) /\ Len(response_sync) <= 1
      BY DEF IInv, TypeInv, QueueTypes
    <3>2. CASE current_cmd.item.sync
      <4>1. response_sync' = <<Response("WRITE", current_cmd.item.id)>>
        BY <3>2 DEF write_failed, WriteAnswered, Respond
      <4> HIDE DEF Response
      <4> QED BY <2>1, <3>2, <4>1, SingleFacts
    <3>3. CASE ~current_cmd.item.sync
      BY <3>1, <3>3 DEF write_failed, WriteAnswered
    <3> QED BY <3>2, <3>3
  <2> QED BY <2>2 DEF IInv, TypeInv, QueueTypes, write_failed
<1>2. LockTypes'
  BY DEF IInv, TypeInv, LockTypes, write_failed
<1>3. ThreadTypes'
  BY DEF IInv, TypeInv, ThreadTypes, write_failed, Working
<1>4. DataTypes'
  BY DEF IInv, TypeInv, DataTypes, write_failed, complete_cmd
<1>5. Noticed'
  BY DEF IInv, Noticed, May, write_failed
<1>6. ASSUME Quiet PROVE OnePlace'
  BY <1>6, ThreadFacts DEF IInv, OnePlace, Answering, AtSocket, Working, write_failed
<1>7. ASSUME Quiet PROVE Owners'
  BY <1>7, ThreadFacts DEF IInv, Owners, OnePlace, Owned, PendingSync, write_failed,
     WriteAnswered, Respond, complete_cmd, Response
<1>8. ASSUME Quiet PROVE OwnResponse'
  BY DEF IInv, OwnResponse, Mistaken, Quiet, May, write_failed
<1> QED BY <1>1, <1>2, <1>3, <1>4, <1>5, <1>6, <1>7, <1>8 DEF IInv, TypeInv, Quiet, write_failed

LEMMA PutCommandPreserves ==
    ASSUME IInv, NEW t \in Threads, put_command(t)
    PROVE  IInv'
<1> USE DEF queues, locks, results, network, settings
<1>1. QueueTypes'
  <2>1. PICK sync \in BOOLEAN : Enqueue(Cmd(t, calls[t], sync))
    BY DEF put_command
  <2>2. Cmd(t, calls[t], sync) \in Commands
    BY ThreadFacts DEF IInv, TypeInv, ThreadTypes, Cmd, Commands
  <2>3. commands' \in Seq(Commands) /\ Len(commands') <= QUEUE_LEN
    BY <2>1, <2>2, AtCmdAssumption DEF IInv, TypeInv, QueueTypes, Enqueue
  <2> QED BY <2>3 DEF IInv, TypeInv, QueueTypes, put_command
<1>2. LockTypes'
  BY DEF IInv, TypeInv, LockTypes, put_command
<1>3. ThreadTypes'
  <2>1. CASE pc[t] = "put_sync"
    <3>1. t \in Callers
      BY <2>1, ThreadFacts DEF IInv, TypeInv, ThreadTypes, SocketLabels
    <3>2. Goto(t, "load")
      BY <2>1 DEF put_command
    <3> QED BY <3>1, <3>2, CallerGoes
            DEF IInv, TypeInv, ThreadTypes, put_command, CallerLabels, Working
  <2>2. CASE pc[t] = "put_async"
    <3>1. Goto(t, "chain")
      BY <2>2 DEF put_command
    <3>2. CASE t = Socket
      BY <2>2, <3>1, <3>2, SocketGoes
         DEF IInv, TypeInv, ThreadTypes, put_command, SocketLabels, Working
    <3>3. CASE t \in Callers
      BY <3>1, <3>3, CallerGoes
         DEF IInv, TypeInv, ThreadTypes, put_command, CallerLabels, Working
    <3> QED BY <3>2, <3>3, ThreadFacts
  <2> QED BY <2>1, <2>2 DEF put_command
<1>4. DataTypes'
  BY DEF IInv, TypeInv, DataTypes, put_command
<1>5. Noticed'
  BY ThreadFacts DEF IInv, TypeInv, ThreadTypes, Noticed, May, put_command, Goto
<1>6. ASSUME Quiet PROVE OnePlace'
  BY <1>6, ThreadFacts DEF IInv, TypeInv, ThreadTypes, OnePlace, Answering, AtSocket, Working,
     put_command, Goto
<1>7. ASSUME Quiet PROVE Owners'
  <2>1. PICK sync \in BOOLEAN : /\ Enqueue(Cmd(t, calls[t], sync))
                                /\ pc[t] = (IF sync THEN "put_sync" ELSE "put_async")
                                /\ Goto(t, IF sync THEN "load" ELSE "chain")
    BY DEF put_command
  <2>2. UNCHANGED <<response_sync, locks, current_cmd, calls, rx, results>>
    BY DEF put_command
  <2>3. /\ pc'[t] = (IF sync THEN "load" ELSE "chain")
        /\ \A u \in Threads : u # t => pc'[u] = pc[u]
    BY <2>1, GotoMoves DEF IInv, TypeInv, Labels, CallerLabels
  <2>4. /\ Len(commands) \in Nat /\ Len(commands') = Len(commands) + 1
        /\ commands'[Len(commands) + 1].sync = sync
        /\ commands'[Len(commands) + 1].id = <<t, calls[t]>>
        /\ \A i \in 1 .. Len(commands) : commands'[i] = commands[i]
    <3>1. Cmd(t, calls[t], sync) \in Commands
      BY ThreadFacts DEF IInv, TypeInv, ThreadTypes, Cmd, Commands
    <3>2. Cmd(t, calls[t], sync).sync = sync /\ Cmd(t, calls[t], sync).id = <<t, calls[t]>>
      BY DEF Cmd
    <3> QED BY <2>1, <3>2 DEF Enqueue
  <2>5. \A id : Owned(id) => Owned(id)'
    BY <2>1, <2>2, <2>3, ThreadFacts DEF Owned
  <2>6. PendingSync' <=> PendingSync
    BY <2>1, <2>2, <2>3, ThreadFacts DEF PendingSync
  <2>7. \A c \in Callers : /\ pc'[c] \in {"put_sync", "load", "await"} <=> pc[c] \in {"put_sync", "load", "await"}
                           /\ pc'[c] # "idle" => pc[c] # "idle"
    BY <2>1, <2>3, ThreadFacts
  <2>8. pc'[Socket] \in {"put_async", "chain", "dispatch"} <=> pc[Socket] \in {"put_async", "chain", "dispatch"}
    BY <2>1, <2>3, ThreadFacts
  <2>9. CASE sync
    <3>1. t \in Callers /\ response_sync_get = t
      BY <1>7, <2>1, <2>9, ThreadFacts DEF IInv, TypeInv, ThreadTypes, SocketLabels, Owners
    <3>2. \A id : ~Owned(id)
      BY <2>1, <2>9, <3>1 DEF Owned
    <3>3. response_sync = <<>> /\ ~PendingSync /\ \A i \in 1 .. Len(commands) : ~commands[i].sync
      BY <1>7, <3>2 DEF IInv, Owners
    <3>4. Owned(<<t, calls[t]>>)'
      BY <2>2, <2>3, <2>9, <3>1 DEF Owned
    <3>5. ASSUME NEW i \in 1 .. Len(commands'), commands'[i].sync
          PROVE  i = Len(commands) + 1
      BY <2>4, <3>3, <3>5
    <3>6. (\A i \in 1 .. Len(commands) : commands[i].sync =>
              /\ Owned(commands[i].id) /\ response_sync = <<>> /\ ~PendingSync
              /\ \A j \in 1 .. Len(commands) : commands[j].sync => i = j)'
      BY <2>2, <2>4, <2>6, <3>3, <3>4, <3>5
    <3> QED BY <1>7, <2>2, <2>6, <2>7, <2>8, <3>3, <3>6 DEF IInv, Owners
  <2>10. CASE ~sync
    <3>1. ASSUME NEW i \in 1 .. Len(commands'), commands'[i].sync
          PROVE  i \in 1 .. Len(commands) /\ commands'[i] = commands[i]
      BY <2>4, <2>10, <3>1
    <3>2. (\A i \in 1 .. Len(commands) : commands[i].sync =>
              /\ Owned(commands[i].id) /\ response_sync = <<>> /\ ~PendingSync
              /\ \A j \in 1 .. Len(commands) : commands[j].sync => i = j)'
      BY <1>7, <2>2, <2>5, <2>6, <3>1 DEF IInv, Owners
    <3> QED BY <1>7, <2>2, <2>5, <2>6, <2>7, <2>8, <3>2 DEF IInv, Owners
  <2> QED BY <2>9, <2>10
<1>8. ASSUME Quiet PROVE OwnResponse'
  BY DEF IInv, Owners, OwnResponse, Mistaken, Quiet, May, put_command
<1> QED BY <1>1, <1>2, <1>3, <1>4, <1>5, <1>6, <1>7, <1>8 DEF IInv, TypeInv, Quiet, put_command

LEMMA AtCmdWritePreserves ==
    ASSUME IInv, NEW c \in Callers, at_cmd_write(c)
    PROVE  IInv'
<1> USE DEF queues, locks, results, network, settings
<1>1. QueueTypes'
  BY DEF IInv, TypeInv, QueueTypes, at_cmd_write, Call
<1>2. LockTypes'
  BY DEF IInv, TypeInv, LockTypes, at_cmd_write, Call, Goto
<1>3. ThreadTypes'
  BY ThreadFacts DEF IInv, TypeInv, ThreadTypes, at_cmd_write, Call, Goto, Labels, CallerLabels,
     Working
<1>4. DataTypes'
  BY NothingType DEF IInv, TypeInv, DataTypes, at_cmd_write, Call
<1>5. Noticed'
  BY DEF IInv, Noticed, May, at_cmd_write, Call, Goto
<1>6. ASSUME Quiet PROVE OnePlace'
  BY <1>6 DEF IInv, OnePlace, Answering, AtSocket, Working, at_cmd_write, Call, Goto
<1>7. ASSUME Quiet PROVE Owners'
  BY <1>1, <1>3, <1>4, <1>7, SingleFacts DEF IInv, DataTypes, Owners, OnePlace, Owned,
     PendingSync, Working, at_cmd_write, Call, Goto
<1>8. ASSUME Quiet PROVE OwnResponse'
  BY DEF IInv, TypeInv, DataTypes, OwnResponse, Mistaken, Quiet, May, at_cmd_write, Call, Goto
<1> QED BY <1>1, <1>2, <1>3, <1>4, <1>5, <1>6, <1>7, <1>8 DEF IInv, TypeInv, Quiet,
           at_cmd_write, Call

LEMMA AtCmdWriteWithCallbackPreserves ==
    ASSUME IInv, NEW c \in Callers, at_cmd_write_with_callback(c)
    PROVE  IInv'
<1> USE DEF queues, locks, results, network, settings
<1>1. QueueTypes'
  BY DEF IInv, TypeInv, QueueTypes, at_cmd_write_with_callback, Call
<1>2. LockTypes'
  BY DEF IInv, TypeInv, LockTypes, at_cmd_write_with_callback, Call
<1>3. ThreadTypes'
  BY ThreadFacts DEF IInv, TypeInv, ThreadTypes, at_cmd_write_with_callback, Call, Goto, Labels,
     CallerLabels, Working
<1>4. DataTypes'
  BY NothingType DEF IInv, TypeInv, DataTypes, at_cmd_write_with_callback, Call
<1>5. Noticed'
  BY DEF IInv, Noticed, May, at_cmd_write_with_callback, Call, Goto
<1>6. ASSUME Quiet PROVE OnePlace'
  BY <1>6, ThreadFacts DEF IInv, OnePlace, Answering, AtSocket, Working,
     at_cmd_write_with_callback, Call, Goto
<1>7. ASSUME Quiet PROVE Owners'
  BY <1>1, <1>4, <1>6, <1>7, ThreadFacts, NothingType DEF IInv, DataTypes, Owners, OnePlace,
     Owned, PendingSync, Working, at_cmd_write_with_callback, Call, Goto
<1>8. ASSUME Quiet PROVE OwnResponse'
  BY DEF IInv, TypeInv, DataTypes, OwnResponse, Mistaken, Quiet, May, at_cmd_write_with_callback, Call,
     Goto
<1> QED BY <1>1, <1>2, <1>3, <1>4, <1>5, <1>6, <1>7, <1>8 DEF IInv, TypeInv, Quiet,
           at_cmd_write_with_callback, Call

LEMMA LockResponsePreserves ==
    ASSUME IInv, NEW c \in Callers, lock_response(c)
    PROVE  IInv'
<1> USE DEF queues, locks, results, network, settings
<1>1. QueueTypes'
  BY DEF IInv, TypeInv, QueueTypes, lock_response
<1>2. LockTypes'
  BY DEF IInv, TypeInv, LockTypes, lock_response, Goto
<1>3. ThreadTypes'
  BY ThreadFacts DEF IInv, TypeInv, ThreadTypes, lock_response, Goto, Labels, CallerLabels,
     Working
<1>4. DataTypes'
  BY DEF IInv, TypeInv, DataTypes, lock_response
<1>5. Noticed'
  BY DEF IInv, Noticed, May, lock_response, Goto
<1>6. ASSUME Quiet PROVE OnePlace'
  BY <1>6 DEF IInv, OnePlace, Answering, AtSocket, Working, lock_response, Goto
<1>7. ASSUME Quiet PROVE Owners'
  BY <1>7, ThreadFacts DEF IInv, TypeInv, ThreadTypes, Owners, Owned, PendingSync,
     lock_response, Goto
<1>8. ASSUME Quiet PROVE OwnResponse'
  BY DEF IInv, OwnResponse, Mistaken, Quiet, May, lock_response, Goto
<1> QED BY <1>1, <1>2, <1>3, <1>4, <1>5, <1>6, <1>7, <1>8 DEF IInv, TypeInv, Quiet,
           lock_response

LEMMA AwaitResponsePreserves ==
    ASSUME IInv, NEW c \in Callers, await_response(c)
    PROVE  IInv'
<1> USE DEF queues, locks, results, network, settings
<1>1. QueueTypes'
  BY DEF IInv, TypeInv, QueueTypes, await_response
<1>2. LockTypes'
  BY DEF IInv, TypeInv, LockTypes, await_response, Goto
<1>3. ThreadTypes'
  BY ThreadFacts DEF IInv, TypeInv, ThreadTypes, await_response, Goto, Labels, CallerLabels,
     Working
<1>4. DataTypes'
  <2>1. Head(response_sync) \in Responses
    <3>1. Head(response_sync) \in Answers
      BY DEF IInv, TypeInv, QueueTypes, await_response
    <3> QED BY <3>1 DEF Answers, Responses, Codes
  <2> QED BY <2>1 DEF IInv, TypeInv, DataTypes, await_response
<1>5. Noticed'
  BY DEF IInv, Noticed, May, await_response, Goto
<1>6. ASSUME Quiet PROVE OnePlace'
  BY <1>6 DEF IInv, OnePlace, Answering, AtSocket, Working, await_response, Goto
<1>7. ASSUME Quiet PROVE Owners'
  BY <1>7, ThreadFacts DEF IInv, TypeInv, ThreadTypes, Owners, PendingSync, await_response, Goto
<1>8. ASSUME Quiet PROVE OwnResponse'
  BY DEF IInv, Owners, Owned, OwnResponse, Mistaken, Quiet, May, await_response
<1> QED BY <1>1, <1>2, <1>3, <1>4, <1>5, <1>6, <1>7, <1>8 DEF IInv, TypeInv, Quiet,
           await_response

LEMMA AtCmdSetNotificationHandlerPreserves ==
    ASSUME IInv, at_cmd_set_notification_handler
    PROVE  IInv'
<1> USE DEF queues, locks, results, network, settings
<1>1. QueueTypes'
  BY DEF IInv, TypeInv, QueueTypes, at_cmd_set_notification_handler
<1>2. LockTypes'
  BY DEF IInv, TypeInv, LockTypes, at_cmd_set_notification_handler
<1>3. ThreadTypes'
  BY DEF IInv, TypeInv, ThreadTypes, at_cmd_set_notification_handler, Working
<1>4. DataTypes'
  BY DEF IInv, TypeInv, DataTypes, at_cmd_set_notification_handler
<1>5. Noticed'
  BY DEF IInv, Noticed, May, at_cmd_set_notification_handler
<1>6. ASSUME Quiet PROVE OnePlace'
  BY <1>6 DEF IInv, OnePlace, Answering, AtSocket, Working, at_cmd_set_notification_handler
<1>7. ASSUME Quiet PROVE Owners'
  BY <1>7 DEF IInv, Owners, Owned, PendingSync, at_cmd_set_notification_handler
<1>8. ASSUME Quiet PROVE OwnResponse'
  BY DEF IInv, OwnResponse, Mistaken, Quiet, May, at_cmd_set_notification_handler
<1> QED BY <1>1, <1>2, <1>3, <1>4, <1>5, <1>6, <1>7, <1>8 DEF IInv, TypeInv, Quiet,
           at_cmd_set_notification_handler

(* A message is taken for a notification or for an answer. *)
LEMMA ReturnCode ==
    ASSUME NEW msg \in Messages, msg.code # "stray"
    PROVE  /\ get_return_code(msg) \in Responses
           /\ get_return_code(msg).code \in {"notify", "answer"}
           /\ get_return_code(msg).code = "notify" => msg.code = "notify"
           /\ msg.code # "alike" => get_return_code(msg) = msg
BY DEF get_return_code, Messages, Responses, Codes

LEMMA RecvMessagePreserves ==
    ASSUME IInv, recv_message
    PROVE  IInv'
<1> USE DEF queues, locks, results, network, settings
<1>1. QueueTypes'
  BY DEF IInv, TypeInv, QueueTypes, recv_message
<1>2. LockTypes'
  BY DEF IInv, TypeInv, LockTypes, recv_message
<1>3. ThreadTypes'
  <2>1. Head(inbox) \in Messages
    BY DEF IInv, TypeInv, QueueTypes, recv_message
  <2>2. CASE Head(inbox).code = "stray"
    BY <2>1, <2>2, SocketGoes
       DEF IInv, TypeInv, ThreadTypes, recv_message, Received, SocketLabels, Response
  <2>3. CASE Head(inbox).code # "stray"
    BY <2>1, <2>3, SocketGoes, ReturnCode
       DEF IInv, TypeInv, ThreadTypes, recv_message, Received, SocketLabels, Working
  <2> QED BY <2>2, <2>3
<1>4. DataTypes'
  <2>1. Head(inbox) \in Messages
    BY DEF IInv, TypeInv, QueueTypes, recv_message
  <2>2. rx' \in Responses
    <3>1. Response("READ", NoId) \in Responses
      BY DEF Response, Responses, Codes
    <3> QED BY <2>1, <3>1, ReturnCode DEF recv_message, Received
  <2>3. handed' \in (Ids \cup {NoId}) \X (Ids \cup {NoId})
    BY DEF recv_message
  <2> QED BY <2>2 DEF IInv, TypeInv, DataTypes, recv_message
<1>5. Noticed'
  <2>1. Head(inbox) \in Messages /\ Head(inbox) = inbox[1] /\ 1 \in 1 .. Len(inbox)
    BY DEF IInv, TypeInv, QueueTypes, recv_message
  <2>2. rx'.code = "notify" => Head(inbox).code = "notify"
    BY <2>1, ReturnCode DEF recv_message, Received, Response
  <2>3. \A i \in 1 .. Len(inbox') : i + 1 \in 1 .. Len(inbox) /\ inbox'[i] = inbox[i + 1]
    BY DEF IInv, TypeInv, QueueTypes, recv_message
  <2> QED BY <2>1, <2>2, <2>3 DEF IInv, Noticed, May, recv_message
<1>6. ASSUME Quiet PROVE OnePlace'
  <2>1. /\ Head(inbox) \in Messages /\ Head(inbox) = inbox[1] /\ 1 \in 1 .. Len(inbox)
        /\ \A i \in 1 .. Len(inbox') : i + 1 \in 1 .. Len(inbox) /\ inbox'[i] = inbox[i + 1]
    BY DEF IInv, TypeInv, QueueTypes, recv_message
  <2>2. Head(inbox).code \in {"notify", "answer"}
    BY <1>6, <2>1 DEF IInv, Noticed, Quiet, May, Messages
  <2>3. rx' = inbox[1] /\ Goto(Socket, "handle")
    BY <2>1, <2>2, ReturnCode DEF recv_message, Received
  <2>4. pc'[Socket] = "handle"
    BY <2>3, SocketGoes DEF IInv, SocketLabels
  <2>5. \A i \in 1 .. Len(inbox') : inbox'[i].code = "answer" =>
            /\ current_cmd.loaded /\ current_cmd.item.id = inbox'[i].of
            /\ current_cmd_mutex = None /\ inbox[1].code # "answer"
            /\ \A j \in 1 .. Len(inbox') : inbox'[j].code = "answer" => i = j
    <3> SUFFICES ASSUME NEW i \in 1 .. Len(inbox'), inbox'[i].code = "answer"
                 PROVE  /\ current_cmd.loaded /\ current_cmd.item.id = inbox'[i].of
                        /\ current_cmd_mutex = None /\ inbox[1].code # "answer"
                        /\ \A j \in 1 .. Len(inbox') : inbox'[j].code = "answer" => i = j
      OBVIOUS
    <3>1. i + 1 \in 1 .. Len(inbox) /\ inbox[i + 1].code = "answer"
      BY <2>1
    <3>2. \A j \in 1 .. Len(inbox) : inbox[j].code = "answer" => j = i + 1
      BY <1>6, <3>1 DEF IInv, OnePlace, Answering
    <3>3. 1 # i + 1
      OBVIOUS
    <3>4. \A j \in 1 .. Len(inbox') : inbox'[j].code = "answer" => i = j
      BY <2>1, <3>2
    <3> QED BY <1>6, <2>1, <3>1, <3>4 DEF IInv, OnePlace, Answering
  <2>6. inbox[1].code = "answer" => current_cmd.loaded /\ current_cmd.item.id = inbox[1].of
                                    /\ current_cmd_mutex = None /\ modem = <<>>
    BY <1>6, <2>1 DEF IInv, OnePlace, Answering
  <2>7. modem # <<>> => current_cmd.loaded /\ current_cmd.item.id = modem[1] /\ current_cmd_mutex = None
                        /\ (\A i \in 1 .. Len(inbox') : inbox'[i].code # "answer")
    BY <1>6, <2>1 DEF IInv, OnePlace, Answering
  <2>8. UNCHANGED <<modem, current_cmd, current_cmd_mutex>> /\ Len(modem) <= 1
    BY <1>6 DEF recv_message, IInv, OnePlace
  <2> QED BY <2>1, <2>2, <2>3, <2>4, <2>5, <2>6, <2>7, <2>8
          DEF OnePlace, Answering, AtSocket, Working, Messages
<1>7. ASSUME Quiet PROVE Owners'
  <2>1. Head(inbox) \in Messages /\ Head(inbox) = inbox[1] /\ 1 \in 1 .. Len(inbox)
    BY DEF IInv, TypeInv, QueueTypes, recv_message
  <2>2. Head(inbox).code # "stray"
    BY <1>7, <2>1 DEF IInv, Noticed, Quiet, May
  <2>3. /\ UNCHANGED <<commands, response_sync, response_sync_get, current_cmd, calls, ret, buf>>
        /\ pc[Socket] = "recv" /\ Goto(Socket, "handle")
    BY <2>2 DEF recv_message, Received
  <2>4. pc'[Socket] = "handle" /\ \A c \in Callers : pc'[c] = pc[c]
    BY <2>3, SocketGoes DEF IInv, SocketLabels
  <2>5. \A id : Owned(id) => Owned(id)'
    BY <2>3, <2>4 DEF Owned
  <2>6. PendingSync' <=> PendingSync
    BY <2>3, <2>4 DEF PendingSync
  <2> QED BY <1>7, <2>3, <2>4, <2>5, <2>6 DEF IInv, Owners
<1>8. ASSUME Quiet PROVE OwnResponse'
  BY DEF IInv, Owners, OwnResponse, Mistaken, Quiet, recv_message
<1> QED BY <1>1, <1>2, <1>3, <1>4, <1>5, <1>6, <1>7, <1>8 DEF IInv, TypeInv, Quiet, recv_message

LEMMA RecvErrorPreserves ==
    ASSUME IInv, recv_error
    PROVE  IInv'
<1> USE DEF queues, locks, results, network, settings
<1>1. /\ UNCHANGED <<queues, locks, current_cmd, settings, calls, results, bsdlib>>
      /\ inbox' = <<>> /\ modem' = <<>>
  BY DEF recv_error
<1>2. \/ /\ May("read") /\ open' = open
         /\ rx' = Response("READ", NoId) /\ Goto(Socket, "dispatch")
      \/ rx' = rx /\ Goto(Socket, "dead") /\ open' = FALSE
  BY DEF recv_error, Received
<1>3. /\ pc' \in [Threads -> Labels]
      /\ \A c \in Callers : pc'[c] = pc[c] /\ pc'[c] \in CallerLabels
      /\ pc'[Socket] \in {"dispatch", "dead"} /\ (pc'[Socket] = "dispatch" => rx' = Response("READ", NoId))
      /\ Quiet => rx' = rx /\ pc'[Socket] = "dead"
  BY <1>2, SocketGoes DEF IInv, SocketLabels, Quiet, May
<1>4. rx' \in Responses /\ Response("READ", NoId).code = "READ"
  BY <1>2 DEF IInv, TypeInv, DataTypes, Response, Responses, Codes
<1>5. QueueTypes' /\ LockTypes'
  BY <1>1, <1>2, EmptyFacts DEF IInv, TypeInv, QueueTypes, LockTypes
<1>6. ThreadTypes' /\ DataTypes'
  BY <1>1, <1>3, <1>4 DEF IInv, TypeInv, ThreadTypes, DataTypes, SocketLabels, Working
<1>7. Noticed'
  BY <1>1, <1>3 DEF IInv, Noticed, May
<1>8. ASSUME Quiet PROVE OnePlace'
  BY <1>1, <1>3, <1>8 DEF IInv, OnePlace, AtSocket, Working
<1>9. ASSUME Quiet PROVE Owners'
  <2>1. PendingSync' => PendingSync
    BY <1>1, <1>3, <1>9 DEF recv_error, PendingSync
  <2> QED BY <1>1, <1>3, <1>9, <2>1 DEF IInv, Owners, Owned
<1>10. ASSUME Quiet PROVE OwnResponse'
  BY <1>1, <1>3, <1>10 DEF IInv, OwnResponse, Mistaken, Quiet, May
<1> QED BY <1>1, <1>5, <1>6, <1>7, <1>8, <1>9, <1>10 DEF IInv, TypeInv, Quiet

LEMMA RecvHostDownPreserves ==
    ASSUME IInv, recv_host_down
    PROVE  IInv'
<1> USE DEF queues, locks, results, network, settings
<1>1. QueueTypes'
  BY DEF IInv, TypeInv, QueueTypes, recv_host_down
<1>2. LockTypes'
  BY DEF IInv, TypeInv, LockTypes, recv_host_down, Goto
<1>3. ThreadTypes'
  <2>1. PICK label \in {"down", "sleep", "load", "dead"} : Goto(Socket, label)
    BY DEF recv_host_down
  <2> QED BY <2>1, SocketGoes
          DEF IInv, TypeInv, ThreadTypes, recv_host_down, SocketLabels, Working
<1>4. DataTypes'
  BY DEF IInv, TypeInv, DataTypes, recv_host_down
<1>5. Noticed'
  BY DEF IInv, TypeInv, ThreadTypes, Noticed, May, recv_host_down, Goto
<1>6. ASSUME Quiet PROVE OnePlace'
  BY <1>6, NothingType DEF IInv, TypeInv, ThreadTypes, OnePlace, Answering, AtSocket, Working,
     recv_host_down, Goto
<1>7. ASSUME Quiet PROVE Owners'
  BY <1>7, ThreadFacts DEF IInv, TypeInv, ThreadTypes, Owners, Owned, PendingSync,
     recv_host_down, Goto
<1>8. ASSUME Quiet PROVE OwnResponse'
  BY DEF IInv, Owners, OwnResponse, Mistaken, Quiet, May, recv_host_down
<1> QED BY <1>1, <1>2, <1>3, <1>4, <1>5, <1>6, <1>7, <1>8 DEF IInv, TypeInv, Quiet,
           recv_host_down

LEMMA HandleNotificationPreserves ==
    ASSUME IInv, handle_notification
    PROVE  IInv'
<1> USE DEF queues, locks, results, network, settings
<1>1. QueueTypes'
  BY DEF IInv, TypeInv, QueueTypes, handle_notification
<1>2. LockTypes'
  BY DEF IInv, TypeInv, LockTypes, handle_notification
<1>3. ThreadTypes'
  <2>1. PICK label \in {"dispatch", "put_async"} : Goto(Socket, label)
    BY DEF handle_notification, Handler, CallbackGets
  <2>2. calls' \in [Threads -> Nat]
    BY DEF IInv, TypeInv, ThreadTypes, handle_notification, Handler, CallbackGets
  <2>3. rx'.code \in {"notify", "answer", "EMSGSIZE"}
    BY DEF handle_notification
  <2> QED BY <2>1, <2>2, <2>3, SocketGoes DEF IInv, ThreadTypes, SocketLabels
<1>4. DataTypes'
  BY DEF IInv, TypeInv, DataTypes, handle_notification, CallbackGets, Commands
<1>5. Noticed'
  BY DEF IInv, Noticed, May, handle_notification
<1>6. ASSUME Quiet PROVE OnePlace'
  BY <1>6, ThreadFacts DEF IInv, TypeInv, ThreadTypes, OnePlace, Answering, AtSocket,
     handle_notification, Handler, CallbackGets, Goto
<1>7. ASSUME Quiet PROVE Owners'
  <2>1. PICK label \in {"dispatch", "put_async"} : Goto(Socket, label)
    BY DEF handle_notification, Handler, CallbackGets
  <2>2. /\ pc[Socket] = "handle" /\ rx.code = "notify" /\ pc'[Socket] \in {"dispatch", "put_async"}
        /\ \A c \in Callers : pc'[c] = pc[c]
        /\ UNCHANGED <<queues, locks, current_cmd, rx, ret, buf>>
    BY <2>1, SocketGoes DEF IInv, SocketLabels, handle_notification
  <2>3. \A c \in Callers : calls'[c] = calls[c]
    BY ThreadFacts DEF IInv, TypeInv, ThreadTypes, handle_notification, Handler, CallbackGets
  <2>4. \A id : Owned(id) => Owned(id)'
    BY <2>2, <2>3 DEF Owned
  <2>5. PendingSync' <=> PendingSync
    BY <2>2 DEF PendingSync
  <2> QED BY <1>7, <2>2, <2>4, <2>5 DEF IInv, Owners
<1>8. ASSUME Quiet PROVE OwnResponse'
  BY ThreadFacts DEF IInv, TypeInv, ThreadTypes, OwnResponse, Mistaken, Noticed, Quiet, May,
     handle_notification, Handler, CallbackGets, Goto
<1> QED BY <1>1, <1>2, <1>3, <1>4, <1>5, <1>6, <1>7, <1>8 DEF IInv, TypeInv, Quiet,
           handle_notification

LEMMA HandleAnswerPreserves ==
    ASSUME IInv, handle_answer
    PROVE  IInv'
<1> USE DEF queues, locks, results, network, settings
<1>1. QueueTypes'
  BY DEF IInv, TypeInv, QueueTypes, handle_answer
<1>2. LockTypes'
  BY DEF IInv, TypeInv, LockTypes, handle_answer
<1>3. ThreadTypes'
  <2>1. PICK label \in {"dispatch", "put_async"} : Goto(Socket, label)
    BY DEF handle_answer, Handler, CallbackGets
  <2>2. calls' \in [Threads -> Nat]
    BY DEF IInv, TypeInv, ThreadTypes, handle_answer, Handler, CallbackGets
  <2>3. rx'.code \in {"notify", "answer", "EMSGSIZE"}
    BY DEF IInv, TypeInv, DataTypes, Responses, handle_answer
  <2> QED BY <2>1, <2>2, <2>3, SocketGoes DEF IInv, ThreadTypes, SocketLabels
<1>4. DataTypes'
  <2>1. rx' \in Responses /\ rx.of \in Ids \cup {NoId}
    BY DEF IInv, TypeInv, DataTypes, handle_answer, Responses, Codes
  <2>2. buf' \in [Callers -> Ids \cup {NoId}]
    BY <2>1 DEF IInv, TypeInv, DataTypes, handle_answer
  <2>3. current_cmd.item # Nothing => current_cmd.item.id \in Ids
    BY DEF IInv, TypeInv, DataTypes, Commands
  <2>4. handed' \in (Ids \cup {NoId}) \X (Ids \cup {NoId})
    BY <2>1, <2>3 DEF IInv, TypeInv, DataTypes, handle_answer, CallbackGets
  <2> QED BY <2>1, <2>4 DEF IInv, TypeInv, DataTypes, handle_answer
<1>5. Noticed'
  BY ThreadFacts DEF IInv, TypeInv, ThreadTypes, Noticed, May, handle_answer, Goto
<1>6. ASSUME Quiet PROVE OnePlace'
  BY <1>6 DEF IInv, TypeInv, DataTypes, OnePlace, Answering, AtSocket, handle_answer, Responses
<1>7. ASSUME Quiet PROVE Owners'
  <2>1. PICK label \in {"dispatch", "put_async"} : Goto(Socket, label)
    BY DEF handle_answer, Handler, CallbackGets
  <2>2. /\ pc[Socket] = "handle" /\ rx.code = "answer" /\ pc'[Socket] \in {"dispatch", "put_async"}
        /\ \A c \in Callers : pc'[c] = pc[c]
        /\ UNCHANGED <<queues, locks, current_cmd, ret>>
    BY <2>1, SocketGoes DEF IInv, SocketLabels, handle_answer
  <2>3. \A c \in Callers : calls'[c] = calls[c]
    BY ThreadFacts DEF IInv, TypeInv, ThreadTypes, handle_answer, Handler, CallbackGets
  <2>4. \A id : Owned(id) => Owned(id)'
    BY <2>2, <2>3 DEF Owned
  <2>5. PendingSync' <=> PendingSync
    BY <2>2 DEF PendingSync
  <2>6. current_cmd.loaded
    BY <1>7, <2>2 DEF IInv, OnePlace, AtSocket
  <2>7. CASE current_cmd.item.sync
    <3>1. Owned(current_cmd.item.id) /\ response_sync = <<>>
      BY <1>7, <2>2, <2>6, <2>7 DEF IInv, Owners, PendingSync
    <3>2. current_cmd.item.id[1] \in Callers
      BY <3>1 DEF Owned
    <3>3. rx'.code = "answer" => buf'[current_cmd.item.id[1]] = rx'.of
      BY <2>6, <2>7, <3>2 DEF IInv, TypeInv, DataTypes, Responses, handle_answer
    <3> QED BY <1>7, <2>2, <2>4, <2>5, <3>1, <3>3 DEF IInv, Owners
  <2>8. CASE ~current_cmd.item.sync
    <3>1. UNCHANGED <<buf, rx>>
      BY <2>8 DEF handle_answer
    <3> QED BY <1>7, <2>2, <2>4, <2>5, <2>8, <3>1 DEF IInv, Owners
  <2> QED BY <2>7, <2>8
<1>8. ASSUME Quiet PROVE OwnResponse'
  <2>1. PICK label \in {"dispatch", "put_async"} : Goto(Socket, label)
    BY DEF handle_answer, Handler, CallbackGets
  <2>2. /\ rx.code = "answer" /\ ret' = ret /\ env' = env /\ pc[Socket] = "handle"
        /\ \A c \in Callers : pc'[c] = pc[c]
    BY <2>1, SocketGoes DEF IInv, SocketLabels, handle_answer
  <2>3. \A c \in Callers : calls'[c] = calls[c]
    BY ThreadFacts DEF IInv, TypeInv, ThreadTypes, handle_answer, Handler, CallbackGets
  <2>4. current_cmd.loaded /\ current_cmd.item.id = rx.of
    BY <1>8, <2>2 DEF IInv, OnePlace, AtSocket
  <2>5. ASSUME NEW c \in Callers, pc[c] = "idle" PROVE buf'[c] = buf[c]
    <3>1. CASE current_cmd.item.sync
      <4>1. Owned(current_cmd.item.id)
        BY <1>8, <2>2, <2>4, <3>1 DEF IInv, Owners, PendingSync
      <4>2. current_cmd.item.id[1] # c
        BY <2>5, <4>1 DEF Owned
      <4> QED BY <4>2 DEF IInv, TypeInv, DataTypes, handle_answer
    <3>2. CASE ~current_cmd.item.sync
      BY <3>2 DEF handle_answer
    <3> QED BY <3>1, <3>2
  <2>6. handed'[1] = handed'[2] \/ handed' = handed
    BY <2>4 DEF handle_answer, CallbackGets
  <2> QED BY <1>8, <2>2, <2>3, <2>5, <2>6 DEF IInv, OwnResponse, Mistaken, May
<1> QED BY <1>1, <1>2, <1>3, <1>4, <1>5, <1>6, <1>7, <1>8 DEF IInv, TypeInv, Quiet,
           handle_answer

LEMMA DispatchPreserves ==
    ASSUME IInv, dispatch
    PROVE  IInv'
<1> USE DEF queues, locks, results, network, settings
<1>1. QueueTypes'
  <2>1. rx.code # "notify" => rx \in Answers
    BY DEF IInv, TypeInv, DataTypes, ThreadTypes, dispatch, Working, Responses, Answers
  <2>2. response_sync' \in Seq(Answers) /\ Len(response_sync') <= 1
    <3>1. response_sync \in Seq(Answers) /\ Len(response_sync) <= 1
      BY DEF IInv, TypeInv, QueueTypes
    <3>2. CASE rx.code # "notify" /\ response_sync' = <<rx>>
      BY <2>1, <3>2, SingleFacts
    <3>3. CASE response_sync' = response_sync
      BY <3>1, <3>3
    <3> QED BY <3>2, <3>3 DEF dispatch, Respond
  <2> QED BY <2>2 DEF IInv, TypeInv, QueueTypes, dispatch
<1>2. LockTypes'
  BY DEF IInv, TypeInv, LockTypes, dispatch, Respond, Goto
<1>3. ThreadTypes'
  BY ThreadFacts DEF IInv, TypeInv, ThreadTypes, dispatch, Goto, Labels, SocketLabels, Working
<1>4. DataTypes'
  BY DEF IInv, TypeInv, DataTypes, dispatch
<1>5. Noticed'
  BY DEF IInv, Noticed, May, dispatch, Goto
<1>6. ASSUME Quiet PROVE OnePlace'
  BY <1>6 DEF IInv, OnePlace, Answering, AtSocket, Working, dispatch, Goto
<1>7. ASSUME Quiet PROVE Owners'
  BY <1>4, <1>7, ThreadFacts DEF IInv, TypeInv, ThreadTypes, Owners, OnePlace, Owned,
     PendingSync, Working, dispatch, Respond, Goto
<1>8. ASSUME Quiet PROVE OwnResponse'
  BY DEF IInv, OwnResponse, Mistaken, Quiet, May, dispatch, Goto
<1> QED BY <1>1, <1>2, <1>3, <1>4, <1>5, <1>6, <1>7, <1>8 DEF IInv, TypeInv, Quiet, dispatch

LEMMA CompletePreserves ==
    ASSUME IInv, complete
    PROVE  IInv'
<1> USE DEF queues, locks, results, network, settings
<1>1. QueueTypes'
  BY DEF IInv, TypeInv, QueueTypes, complete
<1>2. LockTypes'
  BY DEF IInv, TypeInv, LockTypes, complete
<1>3. ThreadTypes'
  BY ThreadFacts DEF IInv, TypeInv, ThreadTypes, complete, Goto, Labels, SocketLabels, Working
<1>4. DataTypes'
  BY NothingType DEF IInv, TypeInv, DataTypes, complete, complete_cmd
<1>5. Noticed'
  BY DEF IInv, Noticed, May, complete, Goto
<1>6. ASSUME Quiet PROVE OnePlace'
  BY <1>6, ThreadFacts, NothingType DEF IInv, TypeInv, ThreadTypes, OnePlace, Answering,
     AtSocket, Working, complete, Goto
<1>7. ASSUME Quiet PROVE Owners'
  BY <1>7, ThreadFacts DEF IInv, Owners, Owned, PendingSync, complete, complete_cmd, Goto
<1>8. ASSUME Quiet PROVE OwnResponse'
  BY DEF IInv, OwnResponse, Mistaken, Quiet, May, complete, Goto
<1> QED BY <1>1, <1>2, <1>3, <1>4, <1>5, <1>6, <1>7, <1>8 DEF IInv, TypeInv, Quiet, complete

LEMMA InvNext == IInv /\ [Next]_vars => IInv'
<1> SUFFICES ASSUME IInv, [Next]_vars PROVE IInv'
  OBVIOUS
<1>1. ASSUME NEW c \in Callers, at_cmd_write(c) \/ at_cmd_write_with_callback(c) \/ Waits(c)
      PROVE  IInv'
  BY <1>1, AtCmdWritePreserves, AtCmdWriteWithCallbackPreserves, LockResponsePreserves,
     AwaitResponsePreserves DEF Waits
<1>2. ASSUME NEW t \in Threads, Works(t) PROVE IInv'
  BY <1>2, LoadCmdAndWritePreserves, WriteFailedPreserves, PutCommandPreserves DEF Works
<1>3. CASE SocketThread \/ recv_error
  BY <1>3, RecvMessagePreserves, RecvErrorPreserves, RecvHostDownPreserves,
     HandleNotificationPreserves, HandleAnswerPreserves, DispatchPreserves, CompletePreserves
     DEF SocketThread
<1>4. CASE UNCHANGED vars
  <2> USE DEF vars, queues, locks, results, network, settings
  <2>1. TypeInv'
    BY <1>4 DEF IInv, TypeInv, QueueTypes, LockTypes, ThreadTypes, DataTypes, Working
  <2>2. Noticed'
    BY <1>4 DEF IInv, Noticed, May
  <2>3. ASSUME Quiet PROVE OnePlace' /\ Owners' /\ OwnResponse'
    BY <1>4, <2>3 DEF IInv, OnePlace, AtSocket, Answering, Working, Owners, Owned, PendingSync,
                      OwnResponse, Mistaken, May
  <2> QED BY <1>4, <2>1, <2>2, <2>3 DEF IInv, Quiet
<1> QED BY <1>1, <1>2, <1>3, <1>4, ModemAnswersPreserves, ModemSendsPreserves,
           BsdlibShutdownPreserves, BsdlibInitPreserves, AtCmdSetNotificationHandlerPreserves
        DEF Next

LEMMA InvHolds == Spec => []IInv
BY InvInit, InvNext, PTL DEF Spec

-----------------------------------------------------------------------------
(* Variables have their types and no queue ever holds more than its        *)
(* length, whatever fails: k_msgq_put() and the mutexes are enough.        *)
THEOREM TypeCorrect == Spec => []TypeOK
<1>1. IInv => TypeOK
  BY InvTypes DEF IInv
<1> QED BY <1>1, InvHolds, PTL

(* As long as no message is mistaken for an answer, the modem has at most  *)
(* one command, the one that is pending, for every number of threads, also *)
(* when writes fail, handlers send commands, the socket cannot be opened   *)
(* again or the library is shut down.                                      *)
THEOREM ModemHasOne == Spec => []OneAtATime
<1>1. IInv => OneAtATime
  <2> SUFFICES ASSUME IInv, Quiet PROVE
          LET answers == {i \in DOMAIN inbox : inbox[i].code = "answer"}
          IN  /\ Len(modem) <= 1 /\ (modem # <<>> => answers = {})
              /\ modem # <<>> => current_cmd.loaded /\ current_cmd.item.id = modem[1]
              /\ \A i \in answers : current_cmd.loaded /\ current_cmd.item.id = inbox[i].of
    BY DEF OneAtATime, Mistaken, Quiet
  <2>1. OnePlace /\ DOMAIN inbox = 1 .. Len(inbox)
    BY DEF IInv, Quiet, TypeInv, QueueTypes
  <2> QED BY <2>1 DEF OnePlace, Answering
<1> QED BY <1>1, InvHolds, PTL

(* "Ensure we get our own AT response, not an old one": under the same     *)
(* condition, what at_cmd_write() returns and what a callback gets is the  *)
(* answer to its own command, however the threads are scheduled.           *)
THEOREM ResponsesMatch == Spec => []OwnResponse
<1>1. IInv => OwnResponse
  BY DEF IInv, Quiet, Mistaken, OwnResponse
<1> QED BY <1>1, InvHolds, PTL
=============================================================================
