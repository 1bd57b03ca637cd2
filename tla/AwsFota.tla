------------------------------- MODULE AwsFota -------------------------------
(***************************************************************************)
(* Firmware updates as AWS IoT jobs (subsys/net/lib/aws_fota, aws_jobs):   *)
(* job documents and the answers to status updates arrive over MQTT and    *)
(* are handled by the thread that polls the MQTT socket; the events of     *)
(* the FOTA download library, here its abstract specification FotaUpdate,  *)
(* are handled by the thread of the download client.  Both threads send    *)
(* status updates and wait for the answer to the previous one; a thread    *)
(* may be interrupted between its test of `accepted' and what follows.     *)
(***************************************************************************)
EXTENDS Integers, Sequences, SequencesExt

CONSTANTS
    Jobs,           \* a job stands for its document and its image
    NoJob,
    Environments,   \* sets of what the environment may do, of Troubles
    MAX_VERSION,    \* bound on the version of a job execution
    MAX_QUEUE       \* bound on the messages on their way to the device

Troubles == {"download",    \* downloads fail
             "reboot",      \* the device restarts
             "disconnect",  \* the MQTT connection is lost
             "session",     \* the broker keeps the session for the next connection
             "early",       \* a job is created while another message is on its way
             "cancel",      \* a job is cancelled, or replaced by the next one
             "reorder",     \* messages of different topics overtake each other
             "preempt",     \* a thread is interrupted after its test of `accepted'
             "duplicate",   \* a message is delivered again (QoS 1), no PUBACK was sent
             "payload",     \* a payload cannot be read, or is no job document
             "location",    \* a job document does not say where its image is
             "publish", "subscribe", "start"}   \* calls that fail

ASSUME AwsAssumption ==
    /\ Jobs \subseteq Nat /\ NoJob \notin Jobs
    /\ Environments \subseteq SUBSET Troubles
    /\ MAX_VERSION \in Nat /\ MAX_QUEUE \in Nat

VARIABLES
    accepted, execution_state, fota_state, execution_version_number, job_id,
    update_topic,   \* the job whose update topic it is
    location,       \* hostname and file_path: the job they are of
                    \* the variables of aws_fota.c
    sending,        \* the update a thread is about to send
    done,           \* the job AWS_FOTA_EVT_DONE was sent for
    status, want, tags,
                    \* the FOTA library (FotaUpdate)
    aws,            \* the job executions of the device, as the service has them
    fetched,        \* the jobs whose image the device has downloaded
    up, down,       \* messages on their way to the service and to the device
    subs,           \* update topics the device has subscribed to, NoJob for notify-next
    connected, env

jobvars == <<job_id, update_topic, location>>
device == <<accepted, execution_state, fota_state, execution_version_number, jobvars>>
library == <<status, want, tags, fetched>>
service == <<aws, subs>>
vars == <<device, sending, done, library, service, up, down, connected, env>>

May(trouble) == trouble \in env

Active == {"QUEUED", "IN_PROGRESS"}

ServiceStates == Active \cup {"NONE", "SUCCEEDED", "FAILED", "CANCELED"}

UpdateStates == {"IN_PROGRESS", "SUCCEEDED", "FAILED"}

Msg(type, job, ver) == [type |-> type, job |-> job, ver |-> ver]

-----------------------------------------------------------------------------
(* The job service and the broker (external). *)

(* The first job execution in progress, or else the first one queued. *)
NextJob(a) ==
    LET open == {j \in Jobs : a[j].status \in Active}
        begun == {j \in open : a[j].status = "IN_PROGRESS"}
        first(S) == CHOOSE j \in S : \A k \in S : j <= k
    IN  IF begun # {} THEN first(begun) ELSE IF open # {} THEN first(open) ELSE NoJob

Doc(a) == LET j == NextJob(a) IN Msg("doc", j, IF j = NoJob THEN 0 ELSE a[j].ver)

(* notify-next is sent when the next job is another one than before. *)
Notice(a, b) ==
    IF NoJob \in subs /\ NextJob(a) # NextJob(b) THEN <<Doc(b)>> ELSE <<>>

CreateJob ==
    \E j \in Jobs :
        /\ aws[j].status = "NONE"
        /\ \A k \in Jobs : k < j => aws[k].status # "NONE"
        /\ May("early") \/ (up = <<>> /\ down = <<>>)
        /\ Len(down) < MAX_QUEUE
        /\ aws' = [aws EXCEPT ![j] = [status |-> "QUEUED", ver |-> 1]]
        /\ down' = down \o Notice(aws, aws')
        /\ UNCHANGED <<device, sending, done, library, subs, up, connected, env>>

CancelJob ==
    \E j \in Jobs :
        /\ May("cancel") /\ aws[j].status \in Active /\ Len(down) < MAX_QUEUE
        /\ aws' = [aws EXCEPT ![j].status = "CANCELED"]
        /\ down' = down \o Notice(aws, aws')
        /\ UNCHANGED <<device, sending, done, library, subs, up, connected, env>>

(* An update of an open job with the version the service expects is taken. *)
ServiceUpdates(m) ==
    LET ok == aws[m.job].status \in Active /\ aws[m.job].ver = m.ver
        answer == Msg(IF ok THEN "accepted" ELSE "rejected", m.job, 0)
    IN  /\ aws' = IF ok THEN [aws EXCEPT ![m.job] = [status |-> m.type, ver |-> m.ver + 1]]
                        ELSE aws
        /\ down' = down \o (IF m.job \in subs THEN <<answer>> ELSE <<>>) \o Notice(aws, aws')

(* A request is not answered when the subscription of its topic has failed. *)
ServiceGets ==
    /\ down' = Append(down, Doc(aws)) \/ (May("subscribe") /\ UNCHANGED down)
    /\ UNCHANGED aws

Service ==
    /\ up # <<>> /\ Len(down) < MAX_QUEUE
    /\ IF Head(up).type = "get" THEN ServiceGets ELSE ServiceUpdates(Head(up))
    /\ up' = Tail(up)
    /\ UNCHANGED <<device, sending, done, library, subs, connected, env>>

-----------------------------------------------------------------------------
(* Status updates. *)

Threads == {"mqtt", "http"}

ToSend(state) == [state |-> state, tested |-> FALSE]

(* A thread in update_job_execution() handles no message and no event. *)
Free(thread) == sending[thread] = ToSend("idle")

(* The other thread is not between its test and its update, unless threads *)
(* may be preempted there.                                                 *)
Runs(thread) == May("preempt") \/ \A t \in Threads \ {thread} : ~sending[t].tested

Sends(thread, state) == sending' = [sending EXCEPT ![thread] = ToSend(state)]

(* Mutant: no wait for the answer to the update before. *)
dont_wait_for_update_accepted(thread) ==
    /\ Runs(thread) /\ ~Free(thread) /\ ~sending[thread].tested
    /\ sending' = [sending EXCEPT ![thread].tested = TRUE]
    /\ UNCHANGED <<device, done, library, service, up, down, connected, env>>

wait_for_update_accepted(thread) ==
    /\ Runs(thread) /\ ~Free(thread) /\ ~sending[thread].tested /\ accepted
    /\ sending' = [sending EXCEPT ![thread].tested = TRUE]
    /\ UNCHANGED <<device, done, library, service, up, down, connected, env>>

(* aws_jobs_update_job_execution() sets the update topic.  A publication   *)
(* that fails is not sent, and `accepted' stays FALSE.                     *)
update_job_execution(thread) ==
    /\ sending[thread].tested
    /\ accepted' = FALSE /\ update_topic' = job_id
    /\ \/ connected /\ up' = Append(up, Msg(sending[thread].state, job_id, execution_version_number))
       \/ (~connected \/ May("publish")) /\ UNCHANGED up
    /\ Sends(thread, "idle")
    /\ UNCHANGED <<execution_state, fota_state, execution_version_number, job_id, location, done,
                   library, service, down, connected, env>>

-----------------------------------------------------------------------------
(* aws_fota_mqtt_evt_handler() *)

(* CONNACK: a new session subscribes, an old one asks for the next job; a  *)
(* call that fails is the last one.                                        *)
connack ==
    /\ ~connected /\ Free("mqtt") /\ Runs("mqtt")
    /\ connected' = TRUE
    /\ \/ /\ subs' = {NoJob}
          /\ down' = <<Msg("suback", NoJob, 0)>>
          /\ UNCHANGED up
       \/ May("subscribe") /\ subs' = {} /\ down' = <<>> /\ UNCHANGED up
       \/ /\ May("session") /\ NoJob \in subs
          /\ up' = Append(up, Msg("get", NoJob, 0)) \/ (May("publish") /\ UNCHANGED up)
          /\ UNCHANGED <<subs, down>>
    /\ UNCHANGED <<device, sending, done, library, aws, env>>

(* SUBACK: of notify-next (NoJob), or of the update topic of a job.  It    *)
(* may carry an error, and the request for the next job may fail.          *)
suback(m) ==
    /\ \/ m.job = NoJob /\ up' = Append(up, Msg("get", NoJob, 0)) /\ UNCHANGED sending
       \/ /\ m.job # NoJob /\ UNCHANGED up
          /\ IF fota_state = "DOWNLOAD_FIRMWARE" THEN Sends("mqtt", "IN_PROGRESS")
                                                 ELSE UNCHANGED sending
       \/ /\ May("subscribe") \/ (May("publish") /\ m.job = NoJob)
          /\ UNCHANGED <<up, sending>>
    /\ UNCHANGED <<device, done, library, subs>>

(* A message that is read no further changes nothing. *)
Dropped(rest) == down' = rest /\ UNCHANGED <<device, sending, done, library, up, subs>>

(* aws_fota_parse_DescribeJobExecution_rsp(): a document without a job     *)
(* changes nothing, one without a location leaves the new job_id behind.   *)
(* The subscription of the update topic is answered by a SUBACK.           *)
get_job_execution(m, rest) ==
    \/ (m.job = NoJob \/ May("payload")) /\ Dropped(rest)
    \/ /\ m.job # NoJob /\ May("location")
       /\ job_id' = m.job /\ down' = rest
       /\ UNCHANGED <<accepted, execution_state, fota_state, execution_version_number,
                      update_topic, location, sending, done, library, up, subs>>
    \/ /\ m.job # NoJob
       /\ job_id' = m.job /\ location' = m.job /\ update_topic' = m.job
       /\ execution_version_number' = m.ver
       /\ \/ /\ subs' = subs \cup {m.job}
             /\ down' = Append(rest, Msg("suback", m.job, 0))
             /\ fota_state' = "DOWNLOAD_FIRMWARE"
          \/ May("subscribe") /\ down' = rest /\ UNCHANGED <<fota_state, subs>>
       /\ UNCHANGED <<accepted, execution_state, sending, done, library, up>>

(* fota_download_start() may fail: nothing is reported then.  Mutant: the  *)
(* file is the one of the document before.                                 *)
fota_download_start_stale ==
    \/ status' = "active" /\ UNCHANGED <<want, tags, fetched>>
    \/ May("start") /\ UNCHANGED library

fota_download_start ==
    \/ status' = "active" /\ want' = location /\ UNCHANGED <<tags, fetched>>
    \/ May("start") /\ UNCHANGED library

(* What an accepted update leads to.  Mutant: any acceptance starts the    *)
(* download, also the one that follows a reconnection during it.           *)
ReadyWhileDownloading == fota_state = "DOWNLOAD_FIRMWARE"
ReadyToDownload == execution_state # "IN_PROGRESS" /\ fota_state = "DOWNLOAD_FIRMWARE"
Completed == execution_state = "IN_PROGRESS" /\ fota_state = "APPLY_UPDATE"
Reported == execution_state = "SUCCEEDED" /\ fota_state = "APPLY_UPDATE"

job_update_accepted ==
    /\ accepted' = TRUE
    /\ execution_version_number' = execution_version_number + 1
    /\ CASE ReadyToDownload ->
              /\ execution_state' = "IN_PROGRESS"
              /\ fota_download_start
              /\ UNCHANGED <<sending, done>>
         [] Completed ->
              /\ execution_state' = "SUCCEEDED"
              /\ Sends("mqtt", "SUCCEEDED")
              /\ UNCHANGED <<library, done>>
         [] OTHER ->
              /\ done' = IF Reported THEN job_id ELSE done
              /\ UNCHANGED <<execution_state, sending, library>>
    /\ UNCHANGED <<fota_state, jobvars, up, subs>>

(* The version goes down and `accepted' is left alone.  Below zero the     *)
(* uint32_t wraps around and is sent as an int: -1 here as there.          *)
job_update_rejected ==
    /\ execution_version_number' = execution_version_number - 1
    /\ UNCHANGED <<accepted, execution_state, fota_state, jobvars, sending, done, library, up, subs>>

(* Answers on another topic than update_topic are not ours.  The payload   *)
(* of an acceptance is read first, the one of a rejection last.            *)
on_publish_evt(m, rest) ==
    \/ m.type = "suback" /\ suback(m) /\ down' = rest
    \/ m.type = "doc" /\ get_job_execution(m, rest)
    \/ m.type = "accepted" /\ m.job = update_topic /\ job_update_accepted /\ down' = rest
    \/ m.type = "accepted" /\ m.job = update_topic /\ May("payload") /\ Dropped(rest)
    \/ m.type = "rejected" /\ m.job = update_topic /\ job_update_rejected /\ down' = rest
    \/ m.type \in {"accepted", "rejected"} /\ m.job # update_topic /\ Dropped(rest)

(* What is left to be delivered once a message is handled: a publication   *)
(* may come again, which it does for sure if it was not acknowledged       *)
(* because its handler failed.                                             *)
Left(i) ==
    {RemoveAt(down, i)} \cup
    IF /\ May("duplicate") /\ down[i].type # "suback"
       /\ Len(down) < MAX_QUEUE /\ execution_version_number \in 1 .. MAX_VERSION
    THEN {down} ELSE {}

(* The thread that polls the socket handles one message after the other. *)
mqtt_input ==
    /\ connected /\ Free("mqtt") /\ Runs("mqtt")
    /\ \E i \in 1 .. Len(down) :
          /\ i = 1 \/ May("reorder")
          /\ \E rest \in Left(i) : on_publish_evt(down[i], rest)
    /\ UNCHANGED <<aws, connected, env>>

-----------------------------------------------------------------------------
(* http_fota_handler(), in the thread of the download client *)

(* Mutants: success is noted before the service has it; a failed download  *)
(* leaves the state of the job, or sets the state that is reported.        *)
FinishedEarly == fota_state' = "APPLY_UPDATE" /\ execution_state' = "SUCCEEDED"
Finished == fota_state' = "APPLY_UPDATE" /\ UNCHANGED execution_state
FailedStays == fota_state' = "NONE" /\ UNCHANGED execution_state
FailedNoted == fota_state' = "NONE" /\ execution_state' = "FAILED"
Failed == fota_state' = "NONE" /\ execution_state' = "QUEUED"

DownloadFinished ==
    /\ status = "active" /\ Free("http") /\ Runs("http")
    /\ status' = "finished" /\ fetched' = fetched \cup {want}
    /\ \E kept \in SUBSET tags : tags' = kept \cup {want}
    /\ Finished
    /\ Sends("http", "IN_PROGRESS")
    /\ UNCHANGED <<accepted, execution_version_number, jobvars, done,
                   want, service, up, down, connected, env>>

DownloadFailed ==
    /\ May("download") /\ status = "active" /\ Free("http") /\ Runs("http")
    /\ status' = "error" /\ tags' \in SUBSET (tags \cup {want})
    /\ Failed
    /\ Sends("http", "FAILED")
    /\ UNCHANGED <<accepted, execution_version_number, jobvars, done,
                   want, fetched, service, up, down, connected, env>>

-----------------------------------------------------------------------------
(* Connection and power. *)

(* What was sent and not handled yet is lost with the connection; what was *)
(* coming is kept by a session only.                                       *)
Lost ==
    /\ connected' = FALSE /\ up' = <<>>
    /\ IF May("session") THEN UNCHANGED <<down, subs>> ELSE down' = <<>> /\ subs' = {}
    /\ UNCHANGED <<aws, env>>

Fresh == \A j \in Jobs : aws[j].ver < MAX_VERSION

Disconnect ==
    /\ May("disconnect") /\ connected /\ Fresh
    /\ Lost
    /\ UNCHANGED <<device, sending, done, library>>

(* A restart at any time, and by the application after DONE. *)
Reboot ==
    /\ done # NoJob \/ (May("reboot") /\ Fresh)
    /\ Lost
    /\ accepted' = TRUE /\ execution_state' = "QUEUED" /\ fota_state' = "NONE"
    /\ execution_version_number' = 0
    /\ job_id' = NoJob /\ update_topic' = NoJob /\ location' = NoJob
    /\ sending' = [t \in Threads |-> ToSend("idle")] /\ done' = NoJob
    /\ status' = "idle" /\ tags' = {}
    /\ UNCHANGED <<want, fetched>>

Init ==
    /\ accepted = TRUE /\ execution_state = "QUEUED" /\ fota_state = "NONE"
    /\ execution_version_number = 0
    /\ job_id = NoJob /\ update_topic = NoJob /\ location = NoJob
    /\ sending = [t \in Threads |-> ToSend("idle")] /\ done = NoJob
    /\ status = "idle" /\ want \in Jobs /\ tags = {} /\ fetched = {}
    /\ aws = [j \in Jobs |-> [status |-> "NONE", ver |-> 0]]
    /\ up = <<>> /\ down = <<>> /\ subs = {} /\ connected = FALSE
    /\ env \in Environments

Library == DownloadFinished \/ DownloadFailed

Next ==
    \/ CreateJob \/ CancelJob \/ Service
    \/ connack \/ mqtt_input \/ Library
    \/ \E t \in Threads : wait_for_update_accepted(t) \/ update_job_execution(t)
    \/ Disconnect \/ Reboot

Spec == Init /\ [][Next]_vars

(* Both threads run, the service answers, downloads end and a lost         *)
(* connection is made again.                                               *)
Fairness ==
    /\ WF_vars(mqtt_input) /\ WF_vars(connack) /\ WF_vars(Library) /\ WF_vars(Service)
    /\ \A t \in Threads : WF_vars(wait_for_update_accepted(t)) /\ WF_vars(update_job_execution(t))

FairSpec == Spec /\ Fairness

-----------------------------------------------------------------------------
(* Types of the variables of aws_fota.c, of the messages and of the jobs. *)
TypeOK ==
    /\ accepted \in BOOLEAN /\ done \in Jobs \cup {NoJob} /\ connected \in BOOLEAN
    /\ execution_state \in {"QUEUED", "IN_PROGRESS", "SUCCEEDED"}
    /\ fota_state \in {"NONE", "DOWNLOAD_FIRMWARE", "APPLY_UPDATE"}
    /\ execution_version_number \in Int
    /\ job_id \in Jobs \cup {NoJob} /\ update_topic \in Jobs \cup {NoJob}
    /\ location \in Jobs \cup {NoJob}
    /\ sending \in [Threads -> [state : {"idle"} \cup UpdateStates, tested : BOOLEAN]]
    /\ status \in {"idle", "active", "finished", "error"}
    /\ want \in Jobs /\ tags \subseteq Jobs /\ fetched \subseteq Jobs
    /\ aws \in [Jobs -> [status : ServiceStates, ver : Nat]]
    /\ up \in Seq([type : UpdateStates \cup {"get"}, job : Jobs \cup {NoJob}, ver : Int])
    /\ down \in Seq([type : {"suback", "doc", "accepted", "rejected"},
                     job : Jobs \cup {NoJob}, ver : Nat])
    /\ subs \subseteq Jobs \cup {NoJob} /\ env \in Environments

(* `accepted' serialises the two threads: at most one status update or its *)
(* answer is under way, so that every update carries the version of the    *)
(* one before it.  The flag is tested and set without a lock, so this      *)
(* holds as long as no thread is preempted in between; an answer that is   *)
(* delivered twice breaks it, and so does a restart that finds an answer   *)
(* in a kept session, also the one after DONE.                             *)
Updates == {i \in 1 .. Len(up) : up[i].type # "get"}

Answers ==
    {i \in 1 .. Len(down) :
        down[i].type \in {"accepted", "rejected"} /\ down[i].job = update_topic}

OneUpdateAtATime ==
    env \cap {"preempt", "session", "duplicate"} = {} =>
        /\ \A i, j \in Updates : i = j
        /\ \A i, j \in Answers : i = j
        /\ Updates = {} \/ Answers = {}

(* A job is reported SUCCEEDED only when its own image was downloaded,     *)
(* through restarts, lost connections, calls that fail, documents without  *)
(* a location and messages that come twice.  Where another job may become  *)
(* the next one during a download this fails, as get_job_execution()       *)
(* replaces job_id whatever is being downloaded: when a job is cancelled,  *)
(* when an old document comes late (also from a kept session), and when a  *)
(* failed download is reported across a reconnection.                      *)
ImageBehindSuccess ==
    env \cap {"cancel", "reorder", "session"} = {} /\ ~({"download", "disconnect"} \subseteq env)
     => \A j \in Jobs : aws[j].status = "SUCCEEDED" => j \in fetched

(* AWS_FOTA_EVT_DONE: the service has the very job it is sent for as       *)
(* SUCCEEDED, its image was downloaded, and unless another download has    *)
(* been started since, it is applied at the restart that follows.  It      *)
(* fails where an acceptance may come twice, or a document of the job a    *)
(* second time: then an acceptance of another update is taken for the one  *)
(* of SUCCEEDED.                                                           *)
DoneIsReported ==
    done # NoJob /\ env \subseteq {"download", "reboot", "preempt", "payload", "location",
                                  "publish", "subscribe", "start"} =>
        /\ aws[done].status = "SUCCEEDED" /\ done \in fetched
        /\ want = done => done \in tags

(* The FOTA library is used as its specification allows: a download is     *)
(* never started while another one is under way, whatever the messages.    *)
Update == INSTANCE FotaUpdate WITH File <- Jobs, spoilt <- FALSE

UsesFota == Update!Spec

(* Every job comes to an end, SUCCEEDED or FAILED, also when downloads     *)
(* fail, threads are preempted and the device restarts in the middle.  The *)
(* premise is: restarts end, the connection stays up, every call succeeds, *)
(* every message is delivered once and can be read, and a job is created   *)
(* only when no message is under way.  Without it the mqtt thread may wait *)
(* in update_job_execution() for the very answer it would have to read.    *)
JobsEnd ==
    env \subseteq {"download", "reboot", "preempt"} /\ <>[][~Reboot]_vars =>
        \A j \in Jobs : aws[j].status \in Active ~> aws[j].status \notin Active
=============================================================================
