---------------------------- MODULE AwsFotaProofs ----------------------------
(***************************************************************************)
(* Theorems about firmware updates as AWS IoT jobs, for every set of jobs  *)
(* and every combination of troubles.                                      *)
(***************************************************************************)
EXTENDS AwsFota, SequenceTheorems, WellFoundedInduction, TLAPS

Sending == [state : {"idle"} \cup UpdateStates, tested : BOOLEAN]

Executions == [status : ServiceStates, ver : Nat]

ToService == [type : UpdateStates \cup {"get"}, job : Jobs \cup {NoJob}, ver : Int]

ToDevice == [type : {"suback", "doc", "accepted", "rejected"}, job : Jobs \cup {NoJob}, ver : Nat]

IsUpdate(m) == m.type # "get"

(* An update is always about a job: nothing is sent, downloaded or waited  *)
(* for before the first document has come.                                 *)
AboutJobs ==
    /\ job_id = NoJob => fota_state = "NONE" /\ status # "active" /\ \A t \in Threads : Free(t)
    /\ location = NoJob => fota_state # "DOWNLOAD_FIRMWARE"
    /\ \A t \in Threads : sending[t].tested => sending[t].state \in UpdateStates
    /\ \A i \in 1 .. Len(up) : IsUpdate(up[i]) => up[i].job \in Jobs

(* During a download no acceptance starts another one. *)
Downloading ==
    status = "active" => execution_state = "IN_PROGRESS" /\ fota_state = "DOWNLOAD_FIRMWARE"

(* Only a document without a location lets job_id, its update topic and    *)
(* the place of its image fall apart.                                      *)
OneJob == ~May("location") => update_topic = job_id /\ location = job_id

(* An answer to any job, also to one that is not ours any more. *)
IsAnswer(m) == m.type \in {"accepted", "rejected"}

NoUpdate(s) == \A i \in 1 .. Len(s) : ~IsUpdate(s[i])

OneUpdate(s) == \A i, j \in 1 .. Len(s) : IsUpdate(s[i]) /\ IsUpdate(s[j]) => i = j

NoAnswer(s) == \A i \in 1 .. Len(s) : ~IsAnswer(s[i])

OneAnswer(s) == \A i, j \in 1 .. Len(s) : IsAnswer(s[i]) /\ IsAnswer(s[j]) => i = j

(* Updates and their answers are under way only while `accepted' is FALSE, *)
(* and a thread that has tested `accepted' is the only one.                *)
Serialised ==
    /\ OneUpdate(up) /\ OneAnswer(down) /\ (NoUpdate(up) \/ NoAnswer(down))
    /\ accepted => NoUpdate(up) /\ NoAnswer(down)
    /\ \A t \in Threads : sending[t].tested =>
          accepted /\ \A u \in Threads : sending[u].tested => u = t

InOrder == ~May("preempt") /\ ~May("session") /\ ~May("duplicate")

IInv == TypeOK /\ AboutJobs /\ Downloading /\ OneJob /\ (InOrder => Serialised)

-----------------------------------------------------------------------------
(* A set of numbers that is not empty has a first one. *)
LEMMA FirstExists ==
    ASSUME NEW S \in SUBSET Nat, S # {}
    PROVE  \E j \in S : \A k \in S : j <= k
<1>1. PICK j \in S : \A k \in S : ~(<<k, j>> \in OpToRel(<, Nat))
  BY NatLessThanWellFounded, WFMin, Zenon
<1>2. ASSUME NEW k \in S PROVE j <= k
  <2>1. ~(k < j)
    BY <1>1, <1>2 DEF OpToRel
  <2> QED BY <2>1
<1> QED BY <1>2

LEMMA NextJobType ==
    ASSUME NEW a
    PROVE  NextJob(a) \in Jobs \cup {NoJob}
<1> DEFINE open == {j \in Jobs : a[j].status \in Active}
           begun == {j \in open : a[j].status = "IN_PROGRESS"}
           first(S) == CHOOSE j \in S : \A k \in S : j <= k
<1>1. ASSUME NEW S \in SUBSET Jobs, S # {} PROVE first(S) \in S
  BY <1>1, FirstExists, AwsAssumption
<1>2. NextJob(a) = IF begun # {} THEN first(begun) ELSE IF open # {} THEN first(open) ELSE NoJob
  BY DEF NextJob
<1>3. begun \in SUBSET Jobs /\ open \in SUBSET Jobs
  OBVIOUS
<1> HIDE DEF open, begun, first
<1> QED BY <1>1, <1>2, <1>3

(* RemoveAt of a message: what is left was there. *)
LEMMA RemoveAtFacts ==
    ASSUME NEW S, NEW s \in Seq(S), NEW i \in 1 .. Len(s)
    PROVE  /\ RemoveAt(s, i) \in Seq(S) /\ Len(RemoveAt(s, i)) = Len(s) - 1
           /\ \A j \in 1 .. Len(s) - 1 : RemoveAt(s, i)[j] = IF j < i THEN s[j] ELSE s[j + 1]
<1> DEFINE a == SubSeq(s, 1, i - 1)
           b == SubSeq(s, i + 1, Len(s))
<1>1. Len(s) \in Nat /\ \A k \in 1 .. Len(s) : s[k] \in S
  BY LenProperties, ElementOfSeq
<1>2. /\ a \in Seq(S) /\ Len(a) = i - 1
      /\ \A j \in 1 .. i - 1 : a[j] = s[j]
  <2>1. \A k \in 1 .. i - 1 : s[k] \in S
    BY <1>1
  <2>2. /\ a \in Seq(S) /\ Len(a) = (IF 1 <= i - 1 THEN i - 1 - 1 + 1 ELSE 0)
        /\ \A j \in 1 .. i - 1 - 1 + 1 : a[j] = s[1 + j - 1]
    BY <1>1, <2>1, SubSeqProperties
  <2> HIDE DEF a
  <2> QED BY <1>1, <2>2
<1>3. /\ b \in Seq(S) /\ Len(b) = Len(s) - i
      /\ \A j \in 1 .. Len(s) - i : b[j] = s[i + j]
  <2>1. \A k \in i + 1 .. Len(s) : s[k] \in S
    BY <1>1
  <2>2. /\ b \in Seq(S) /\ Len(b) = (IF i + 1 <= Len(s) THEN Len(s) - (i + 1) + 1 ELSE 0)
        /\ \A j \in 1 .. Len(s) - (i + 1) + 1 : b[j] = s[i + 1 + j - 1]
    BY <1>1, <2>1, SubSeqProperties
  <2> HIDE DEF b
  <2> QED BY <1>1, <2>2
<1>4. RemoveAt(s, i) = a \o b
  BY DEF RemoveAt
<1> HIDE DEF a, b
<1>5. /\ a \o b \in Seq(S) /\ Len(a \o b) = Len(a) + Len(b)
      /\ \A j \in 1 .. Len(a) + Len(b) : (a \o b)[j] = IF j <= Len(a) THEN a[j] ELSE b[j - Len(a)]
  BY <1>2, <1>3, ConcatProperties
<1> QED BY <1>1, <1>2, <1>3, <1>4, <1>5

(* Messages that are not answers come in: nothing changes for the answers. *)
LEMMA ConcatFacts ==
    ASSUME NEW s \in Seq(ToDevice), NEW n \in Seq(ToDevice), NoAnswer(n)
    PROVE  /\ s \o n \in Seq(ToDevice)
           /\ NoAnswer(s) => NoAnswer(s \o n)
           /\ OneAnswer(s) => OneAnswer(s \o n)
<1>1. /\ s \o n \in Seq(ToDevice) /\ Len(s \o n) = Len(s) + Len(n)
      /\ \A i \in 1 .. Len(s) + Len(n) : (s \o n)[i] = IF i <= Len(s) THEN s[i] ELSE n[i - Len(s)]
      /\ Len(s) \in Nat /\ Len(n) \in Nat
  BY ConcatProperties, LenProperties
<1>2. ASSUME NEW i \in 1 .. Len(s \o n), IsAnswer((s \o n)[i])
      PROVE  i \in 1 .. Len(s) /\ (s \o n)[i] = s[i]
  <2>1. i > Len(s) => i - Len(s) \in 1 .. Len(n)
    BY <1>1
  <2> QED BY <1>1, <1>2, <2>1 DEF NoAnswer
<1> QED BY <1>1, <1>2 DEF NoAnswer, OneAnswer

LEMMA AppendFacts ==
    ASSUME NEW s \in Seq(ToDevice), NEW e \in ToDevice
    PROVE  /\ Append(s, e) \in Seq(ToDevice)
           /\ NoAnswer(s) => OneAnswer(Append(s, e))
           /\ NoAnswer(s) /\ ~IsAnswer(e) => NoAnswer(Append(s, e))
           /\ OneAnswer(s) /\ ~IsAnswer(e) => OneAnswer(Append(s, e))
<1>1. /\ Append(s, e) \in Seq(ToDevice) /\ Len(Append(s, e)) = Len(s) + 1 /\ Len(s) \in Nat
      /\ \A i \in 1 .. Len(s) : Append(s, e)[i] = s[i]
      /\ Append(s, e)[Len(s) + 1] = e
  BY AppendProperties, LenProperties
<1> QED BY <1>1 DEF NoAnswer, OneAnswer

LEMMA HandledFacts ==
    ASSUME NEW s \in Seq(ToDevice), NEW i \in 1 .. Len(s)
    PROVE  /\ RemoveAt(s, i) \in Seq(ToDevice)
           /\ NoAnswer(s) => NoAnswer(RemoveAt(s, i))
           /\ OneAnswer(s) => OneAnswer(RemoveAt(s, i))
           /\ OneAnswer(s) /\ IsAnswer(s[i]) => NoAnswer(RemoveAt(s, i))
<1> DEFINE r == RemoveAt(s, i)
           was(j) == IF j < i THEN j ELSE j + 1
<1>1. /\ r \in Seq(ToDevice) /\ Len(r) = Len(s) - 1 /\ Len(s) \in Nat
      /\ \A j \in 1 .. Len(s) - 1 : r[j] = IF j < i THEN s[j] ELSE s[j + 1]
  BY RemoveAtFacts, LenProperties
<1> HIDE DEF r
<1>2. \A j \in 1 .. Len(r) : was(j) \in 1 .. Len(s) /\ r[j] = s[was(j)] /\ was(j) # i
  BY <1>1
<1>3. \A j, k \in 1 .. Len(r) : was(j) = was(k) => j = k
  BY <1>1
<1> HIDE DEF was
<1>4. /\ NoAnswer(s) => NoAnswer(r)
      /\ OneAnswer(s) => OneAnswer(r)
      /\ OneAnswer(s) /\ IsAnswer(s[i]) => NoAnswer(r)
  BY <1>2, <1>3 DEF NoAnswer, OneAnswer
<1> QED BY <1>1, <1>4 DEF r

LEMMA SentFacts ==
    ASSUME NEW s \in Seq(ToService), NEW e \in ToService
    PROVE  /\ Append(s, e) \in Seq(ToService)
           /\ NoUpdate(s) => OneUpdate(Append(s, e))
           /\ NoUpdate(s) /\ ~IsUpdate(e) => NoUpdate(Append(s, e))
           /\ OneUpdate(s) /\ ~IsUpdate(e) => OneUpdate(Append(s, e))
           /\ (\A i \in 1 .. Len(s) : IsUpdate(s[i]) => s[i].job \in Jobs) /\ (IsUpdate(e) => e.job \in Jobs)
                => \A i \in 1 .. Len(Append(s, e)) : IsUpdate(Append(s, e)[i]) => Append(s, e)[i].job \in Jobs
<1>1. /\ Append(s, e) \in Seq(ToService) /\ Len(Append(s, e)) = Len(s) + 1 /\ Len(s) \in Nat
      /\ \A i \in 1 .. Len(s) : Append(s, e)[i] = s[i]
      /\ Append(s, e)[Len(s) + 1] = e
  BY AppendProperties, LenProperties
<1> QED BY <1>1 DEF NoUpdate, OneUpdate

LEMMA TakenFacts ==
    ASSUME NEW s \in Seq(ToService), s # <<>>
    PROVE  /\ Tail(s) \in Seq(ToService) /\ Head(s) \in ToService
           /\ NoUpdate(s) => NoUpdate(Tail(s)) /\ ~IsUpdate(Head(s))
           /\ OneUpdate(s) => OneUpdate(Tail(s))
           /\ OneUpdate(s) /\ IsUpdate(Head(s)) => NoUpdate(Tail(s))
           /\ (\A i \in 1 .. Len(s) : IsUpdate(s[i]) => s[i].job \in Jobs)
                => /\ IsUpdate(Head(s)) => Head(s).job \in Jobs
                   /\ \A i \in 1 .. Len(Tail(s)) : IsUpdate(Tail(s)[i]) => Tail(s)[i].job \in Jobs
<1>1. /\ Head(s) \in ToService /\ Tail(s) \in Seq(ToService) /\ Len(Tail(s)) = Len(s) - 1
      /\ \A i \in 1 .. Len(Tail(s)) : Tail(s)[i] = s[i + 1]
  BY HeadTailProperties
<1>2. Len(s) \in Nat \ {0} /\ Head(s) = s[1]
  BY EmptySeq, LenProperties
<1>3. \A i \in 1 .. Len(Tail(s)) : i + 1 \in 1 .. Len(s) /\ i + 1 # 1
  BY <1>1, <1>2
<1>4. 1 \in 1 .. Len(s)
  BY <1>2
<1>5. NoUpdate(s) => NoUpdate(Tail(s)) /\ ~IsUpdate(Head(s))
  BY <1>1, <1>2, <1>3, <1>4 DEF NoUpdate
<1>6. OneUpdate(s) => OneUpdate(Tail(s))
  <2> SUFFICES ASSUME OneUpdate(s), NEW i \in 1 .. Len(Tail(s)), NEW j \in 1 .. Len(Tail(s)),
                      IsUpdate(Tail(s)[i]), IsUpdate(Tail(s)[j])
               PROVE  i = j
    BY DEF OneUpdate
  <2>1. i + 1 = j + 1
    BY <1>1, <1>3 DEF OneUpdate
  <2> QED BY <2>1
<1>7. OneUpdate(s) /\ IsUpdate(Head(s)) => NoUpdate(Tail(s))
  BY <1>1, <1>2, <1>3, <1>4 DEF OneUpdate, NoUpdate
<1> QED BY <1>1, <1>2, <1>3, <1>4, <1>5, <1>6, <1>7

LEMMA EmptyFacts ==
    /\ <<>> \in Seq(ToDevice) /\ <<>> \in Seq(ToService)
    /\ NoUpdate(<<>>) /\ OneUpdate(<<>>) /\ NoAnswer(<<>>) /\ OneAnswer(<<>>)
BY EmptySeq DEF NoUpdate, OneUpdate, NoAnswer, OneAnswer

LEMMA SingleFacts ==
    ASSUME NEW e \in ToDevice
    PROVE  <<e>> \in Seq(ToDevice) /\ OneAnswer(<<e>>) /\ (~IsAnswer(e) => NoAnswer(<<e>>))
<1>1. <<e>> = Append(<<>>, e)
  OBVIOUS
<1> QED BY <1>1, EmptyFacts, AppendFacts

(* A document is never an answer. *)
LEMMA DocType ==
    ASSUME NEW a \in [Jobs -> Executions]
    PROVE  Doc(a) \in ToDevice /\ ~IsAnswer(Doc(a))
<1> DEFINE j == NextJob(a)
<1>1. j \in Jobs \cup {NoJob}
  BY NextJobType
<1>2. Doc(a) = Msg("doc", j, IF j = NoJob THEN 0 ELSE a[j].ver)
  BY DEF Doc
<1> HIDE DEF j
<1>3. (IF j = NoJob THEN 0 ELSE a[j].ver) \in Nat
  BY <1>1 DEF Executions
<1> QED BY <1>1, <1>2, <1>3 DEF Msg, ToDevice, IsAnswer

LEMMA NoticeType ==
    ASSUME NEW a \in [Jobs -> Executions], NEW b \in [Jobs -> Executions]
    PROVE  Notice(a, b) \in Seq(ToDevice) /\ NoAnswer(Notice(a, b))
<1>1. Notice(a, b) = <<>> \/ Notice(a, b) = <<Doc(b)>>
  BY DEF Notice
<1>2. CASE Notice(a, b) = <<>>
  BY <1>2, EmptyFacts
<1>3. CASE Notice(a, b) = <<Doc(b)>>
  BY <1>3, DocType, SingleFacts
<1> QED BY <1>1, <1>2, <1>3

-----------------------------------------------------------------------------
(* The type invariant in parts. *)
DeviceTypes ==
    /\ accepted \in BOOLEAN /\ done \in Jobs \cup {NoJob} /\ connected \in BOOLEAN
    /\ execution_state \in {"QUEUED", "IN_PROGRESS", "SUCCEEDED"}
    /\ fota_state \in {"NONE", "DOWNLOAD_FIRMWARE", "APPLY_UPDATE"}
    /\ execution_version_number \in Int
    /\ job_id \in Jobs \cup {NoJob} /\ update_topic \in Jobs \cup {NoJob}
    /\ location \in Jobs \cup {NoJob}
    /\ sending \in [Threads -> Sending]

LibraryTypes ==
    /\ status \in {"idle", "active", "finished", "error"}
    /\ want \in Jobs /\ tags \subseteq Jobs /\ fetched \subseteq Jobs

ServiceTypes ==
    aws \in [Jobs -> Executions] /\ subs \subseteq Jobs \cup {NoJob} /\ env \in Environments

MessageTypes == up \in Seq(ToService) /\ down \in Seq(ToDevice)

LEMMA TypeParts == TypeOK <=> DeviceTypes /\ LibraryTypes /\ ServiceTypes /\ MessageTypes
BY DEF TypeOK, DeviceTypes, LibraryTypes, ServiceTypes, MessageTypes, Sending, Executions,
       ToService, ToDevice

LEMMA TypeInParts == DeviceTypes' /\ LibraryTypes' /\ ServiceTypes' /\ MessageTypes' => TypeOK'
BY DEF TypeOK, DeviceTypes, LibraryTypes, ServiceTypes, MessageTypes, Sending, Executions,
       ToService, ToDevice

LEMMA CreateJobPreserves ==
    ASSUME IInv, CreateJob
    PROVE  IInv'
<1> USE DEF jobvars, device, library, service
<1>0. DeviceTypes /\ LibraryTypes /\ ServiceTypes /\ MessageTypes
  BY TypeParts DEF IInv
<1>1. DeviceTypes'
  BY <1>0 DEF DeviceTypes, CreateJob, ToSend, UpdateStates, Threads
<1>2. LibraryTypes'
  BY <1>0 DEF LibraryTypes, CreateJob
<1>3. ServiceTypes'
  BY <1>0 DEF ServiceTypes, CreateJob, Executions, ServiceStates, Active, UpdateStates
<1>4. MessageTypes'
  <2>1. UNCHANGED up /\ down' = down \o Notice(aws, aws')
    BY DEF CreateJob
  <2> QED BY <1>0, <1>3, <2>1, NoticeType, ConcatFacts DEF ServiceTypes, MessageTypes
<1>5. AboutJobs'
  BY DEF IInv, AboutJobs, MessageTypes, CreateJob, Free
<1>6. Downloading' /\ OneJob'
  BY DEF IInv, Downloading, OneJob, May, CreateJob
<1>7. env' = env
  BY DEF CreateJob
<1>8. ASSUME InOrder PROVE Serialised'
  <2>1. UNCHANGED <<accepted, sending, up>> /\ down' = down \o Notice(aws, aws')
    BY DEF CreateJob
  <2>2. NoAnswer(down) => NoAnswer(down')
    BY <1>0, <1>3, <2>1, NoticeType, ConcatFacts DEF ServiceTypes, MessageTypes
  <2>3. OneAnswer(down) => OneAnswer(down')
    BY <1>0, <1>3, <2>1, NoticeType, ConcatFacts DEF ServiceTypes, MessageTypes
  <2> QED BY <1>8, <2>1, <2>2, <2>3 DEF IInv, Serialised
<1> QED BY <1>1, <1>2, <1>3, <1>4, <1>5, <1>6, <1>7, <1>8, TypeInParts DEF IInv, InOrder, May

LEMMA CancelJobPreserves ==
    ASSUME IInv, CancelJob
    PROVE  IInv'
<1> USE DEF jobvars, device, library, service
<1>0. DeviceTypes /\ LibraryTypes /\ ServiceTypes /\ MessageTypes
  BY TypeParts DEF IInv
<1>1. DeviceTypes'
  BY <1>0 DEF DeviceTypes, CancelJob, ToSend, UpdateStates, Threads
<1>2. LibraryTypes'
  BY <1>0 DEF LibraryTypes, CancelJob
<1>3. ServiceTypes'
  BY <1>0 DEF ServiceTypes, CancelJob, Executions, ServiceStates, UpdateStates
<1>4. MessageTypes'
  <2>1. UNCHANGED up /\ down' = down \o Notice(aws, aws')
    BY DEF CancelJob
  <2> QED BY <1>0, <1>3, <2>1, NoticeType, ConcatFacts DEF ServiceTypes, MessageTypes
<1>5. AboutJobs'
  BY DEF IInv, AboutJobs, MessageTypes, CancelJob, Free
<1>6. Downloading' /\ OneJob'
  BY DEF IInv, Downloading, OneJob, May, CancelJob
<1>7. env' = env
  BY DEF CancelJob
<1>8. ASSUME InOrder PROVE Serialised'
  <2>1. UNCHANGED <<accepted, sending, up>> /\ down' = down \o Notice(aws, aws')
    BY DEF CancelJob
  <2>2. NoAnswer(down) => NoAnswer(down')
    BY <1>0, <1>3, <2>1, NoticeType, ConcatFacts DEF ServiceTypes, MessageTypes
  <2>3. OneAnswer(down) => OneAnswer(down')
    BY <1>0, <1>3, <2>1, NoticeType, ConcatFacts DEF ServiceTypes, MessageTypes
  <2> QED BY <1>8, <2>1, <2>2, <2>3 DEF IInv, Serialised
<1> QED BY <1>1, <1>2, <1>3, <1>4, <1>5, <1>6, <1>7, <1>8, TypeInParts DEF IInv, InOrder, May

(* An update of an open job is taken or not, and its answer is sent. *)
LEMMA ServicePreserves ==
    ASSUME IInv, Service
    PROVE  IInv'
<1> USE DEF jobvars, device, library, service
<1> DEFINE m == Head(up)
           ok == aws[m.job].status \in Active /\ aws[m.job].ver = m.ver
           answer == Msg(IF ok THEN "accepted" ELSE "rejected", m.job, 0)
           answers == IF m.job \in subs THEN <<answer>> ELSE <<>>
<1>0. DeviceTypes /\ LibraryTypes /\ ServiceTypes /\ MessageTypes
  BY TypeParts DEF IInv
<1>1. /\ UNCHANGED <<device, sending, done, library, subs, connected, env>>
      /\ up' = Tail(up) /\ up # <<>>
  BY DEF Service
<1>2. DeviceTypes' /\ LibraryTypes' /\ Downloading' /\ OneJob'
  BY <1>0, <1>1 DEF IInv, DeviceTypes, LibraryTypes, Downloading, OneJob, May
<1>3. up' \in Seq(ToService) /\ m \in ToService /\ (IsUpdate(m) => m.job \in Jobs)
  BY <1>0, <1>1, TakenFacts DEF IInv, AboutJobs, MessageTypes
<1>4. AboutJobs'
  <2>1. \A i \in 1 .. Len(up') : IsUpdate(up'[i]) => up'[i].job \in Jobs
    BY <1>1 DEF IInv, AboutJobs
  <2> QED BY <1>1, <2>1 DEF IInv, AboutJobs, Free
<1>5. \/ ~IsUpdate(m) /\ down' = Append(down, Doc(aws)) /\ aws' = aws
      \/ ~IsUpdate(m) /\ down' = down /\ aws' = aws
      \/ /\ IsUpdate(m)
         /\ aws' = IF ok THEN [aws EXCEPT ![m.job] = [status |-> m.type, ver |-> m.ver + 1]] ELSE aws
         /\ down' = down \o answers \o Notice(aws, aws')
  BY DEF Service, ServiceGets, ServiceUpdates, IsUpdate
<1>6. IsUpdate(m) => m.type \in ServiceStates
  BY <1>3 DEF IsUpdate, ToService, UpdateStates, ServiceStates, Active
<1>7. answer \in ToDevice
  BY <1>3 DEF Msg, ToDevice, ToService
<1> HIDE DEF m, answer
<1>8. ServiceTypes'
  <2>1. CASE aws' = aws
    BY <1>0, <1>1, <2>1 DEF ServiceTypes
  <2>2. CASE IsUpdate(m) /\ ok /\ aws' = [aws EXCEPT ![m.job] = [status |-> m.type, ver |-> m.ver + 1]]
    <3>1. m.job \in Jobs /\ m.ver \in Nat
      BY <1>0, <1>3, <2>2 DEF ServiceTypes, Executions
    <3>2. [status |-> m.type, ver |-> m.ver + 1] \in Executions
      BY <1>6, <2>2, <3>1 DEF Executions
    <3> QED BY <1>0, <1>1, <2>2, <3>1, <3>2 DEF ServiceTypes
  <2> QED BY <1>5, <2>1, <2>2
<1>9. answers \in Seq(ToDevice) /\ OneAnswer(answers)
  BY <1>7, SingleFacts, EmptyFacts
<1>10. CASE ~IsUpdate(m) /\ down' = Append(down, Doc(aws))
  <2>1. Doc(aws) \in ToDevice /\ ~IsAnswer(Doc(aws))
    BY <1>0, DocType DEF ServiceTypes
  <2>2. down' \in Seq(ToDevice)
    BY <1>0, <1>10, <2>1, AppendFacts DEF MessageTypes
  <2>3. ASSUME InOrder PROVE Serialised'
    <3>1. /\ NoAnswer(down) => NoAnswer(down')
          /\ OneAnswer(down) => OneAnswer(down')
      BY <1>0, <1>10, <2>1, AppendFacts DEF MessageTypes
    <3>2. /\ NoUpdate(up) => NoUpdate(up')
          /\ OneUpdate(up) => OneUpdate(up')
      BY <1>0, <1>1, TakenFacts DEF MessageTypes
    <3> QED BY <1>1, <2>3, <3>1, <3>2 DEF IInv, Serialised
  <2> QED BY <1>1, <1>2, <1>3, <1>4, <1>8, <2>2, <2>3, TypeInParts DEF IInv, InOrder, May,
             MessageTypes
<1>12. CASE ~IsUpdate(m) /\ down' = down
  <2>1. ASSUME InOrder PROVE Serialised'
    <3>1. /\ NoUpdate(up) => NoUpdate(up')
          /\ OneUpdate(up) => OneUpdate(up')
      BY <1>0, <1>1, TakenFacts DEF MessageTypes
    <3> QED BY <1>1, <1>12, <2>1, <3>1 DEF IInv, Serialised
  <2> QED BY <1>0, <1>1, <1>2, <1>3, <1>4, <1>8, <1>12, <2>1, TypeInParts DEF IInv, InOrder, May,
             MessageTypes
<1>11. CASE IsUpdate(m) /\ down' = down \o answers \o Notice(aws, aws')
  <2>1. Notice(aws, aws') \in Seq(ToDevice) /\ NoAnswer(Notice(aws, aws'))
    BY <1>0, <1>8, NoticeType DEF ServiceTypes
  <2>2. down \o answers \in Seq(ToDevice)
    BY <1>0, <1>9, ConcatProperties DEF MessageTypes
  <2>3. down' \in Seq(ToDevice)
    BY <1>11, <2>1, <2>2, ConcatFacts
  <2>4. ASSUME InOrder PROVE Serialised'
    <3>1. NoUpdate(up') /\ ~accepted /\ NoAnswer(down)
      <4>1. OneUpdate(up) /\ ~NoUpdate(up)
        BY <1>0, <1>1, <1>11, <2>4, TakenFacts DEF IInv, Serialised, MessageTypes, m
      <4> QED BY <1>0, <1>1, <1>11, <2>4, <4>1, TakenFacts DEF IInv, Serialised, MessageTypes, m
    <3>2. OneUpdate(up')
      BY <3>1 DEF NoUpdate, OneUpdate
    <3>3. OneAnswer(down \o answers)
      <4>1. CASE answers = <<>>
        BY <3>1 DEF NoAnswer, OneAnswer
      <4>2. CASE answers = <<answer>>
        <5>1. down \o answers = Append(down, answer)
          BY <4>2
        <5> QED BY <1>0, <1>7, <3>1, <5>1, AppendFacts DEF MessageTypes
      <4> QED BY <4>1, <4>2
    <3>4. OneAnswer(down')
      BY <1>11, <2>1, <2>2, <3>3, ConcatFacts
    <3> QED BY <1>1, <2>4, <3>1, <3>2, <3>4 DEF IInv, Serialised
  <2> QED BY <1>1, <1>2, <1>3, <1>4, <1>8, <2>3, <2>4, TypeInParts DEF IInv, InOrder, May,
             MessageTypes
<1> QED BY <1>5, <1>10, <1>11, <1>12

LEMMA ConnackPreserves ==
    ASSUME IInv, connack
    PROVE  IInv'
<1> USE DEF jobvars, device, library, service
<1>0. DeviceTypes /\ LibraryTypes /\ ServiceTypes /\ MessageTypes
  BY TypeParts DEF IInv
<1>1. DeviceTypes'
  BY <1>0 DEF DeviceTypes, connack, Sending, ToSend, UpdateStates, Threads
<1>2. LibraryTypes'
  BY <1>0 DEF LibraryTypes, connack, Runs
<1>3. ServiceTypes'
  BY <1>0 DEF ServiceTypes, connack, Active, UpdateStates
<1>4. MessageTypes'
  <2>1. Msg("suback", NoJob, 0) \in ToDevice /\ Msg("get", NoJob, 0) \in ToService
    BY DEF Msg, ToDevice, ToService
  <2> QED BY <1>0, <2>1, SingleFacts, SentFacts, EmptyFacts DEF connack, MessageTypes
<1>5. AboutJobs'
  BY DEF IInv, AboutJobs, MessageTypes, connack, Free, Msg, IsUpdate
<1>6. Downloading' /\ OneJob'
  BY DEF IInv, Downloading, OneJob, May, connack
<1>7. env' = env
  BY DEF connack, Runs
<1>8. ASSUME InOrder PROVE Serialised'
  <2>1. /\ Msg("suback", NoJob, 0) \in ToDevice /\ Msg("get", NoJob, 0) \in ToService
        /\ ~IsAnswer(Msg("suback", NoJob, 0)) /\ ~IsUpdate(Msg("get", NoJob, 0))
    BY DEF Msg, ToDevice, ToService, IsAnswer, IsUpdate
  <2>2. /\ down' = <<Msg("suback", NoJob, 0)>> \/ down' = <<>> \/ down' = down
        /\ up' = up \/ up' = Append(up, Msg("get", NoJob, 0))
    BY DEF connack
  <2>3. /\ NoAnswer(down) => NoAnswer(down')
        /\ OneAnswer(down) => OneAnswer(down')
    BY <2>1, <2>2, SingleFacts, EmptyFacts
  <2>4. /\ NoUpdate(up) => NoUpdate(up')
        /\ OneUpdate(up) => OneUpdate(up')
    BY <1>0, <2>1, <2>2, SentFacts DEF MessageTypes
  <2>5. UNCHANGED <<accepted, sending>>
    BY DEF connack
  <2> QED BY <1>8, <2>3, <2>4, <2>5 DEF IInv, Serialised
<1> QED BY <1>1, <1>2, <1>3, <1>4, <1>5, <1>6, <1>7, <1>8, TypeInParts DEF IInv, InOrder, May

LEMMA WaitForUpdateAcceptedPreserves ==
    ASSUME IInv, NEW thread \in Threads, wait_for_update_accepted(thread)
    PROVE  IInv'
<1> USE DEF jobvars, device, library, service
<1>0. DeviceTypes /\ LibraryTypes /\ ServiceTypes /\ MessageTypes
  BY TypeParts DEF IInv
<1>1. DeviceTypes'
  BY <1>0 DEF DeviceTypes, wait_for_update_accepted, Sending, ToSend, UpdateStates, Threads
<1>2. LibraryTypes'
  BY <1>0 DEF LibraryTypes, wait_for_update_accepted, Runs
<1>3. ServiceTypes'
  BY <1>0 DEF ServiceTypes, wait_for_update_accepted, Active, UpdateStates
<1>4. MessageTypes'
  BY <1>0 DEF MessageTypes, wait_for_update_accepted
<1>5. AboutJobs'
  BY <1>0 DEF IInv, AboutJobs, DeviceTypes, wait_for_update_accepted, Free, ToSend, Sending
<1>6. Downloading' /\ OneJob'
  BY DEF IInv, Downloading, OneJob, May, wait_for_update_accepted
<1>7. env' = env
  BY DEF wait_for_update_accepted, Runs
<1>8. ASSUME InOrder PROVE Serialised'
  BY <1>8 DEF IInv, InOrder, Serialised, wait_for_update_accepted, Runs
<1> QED BY <1>1, <1>2, <1>3, <1>4, <1>5, <1>6, <1>7, <1>8, TypeInParts DEF IInv, InOrder, May

LEMMA UpdateJobExecutionPreserves ==
    ASSUME IInv, NEW thread \in Threads, update_job_execution(thread)
    PROVE  IInv'
<1> USE DEF jobvars, device, library, service
<1>0. DeviceTypes /\ LibraryTypes /\ ServiceTypes /\ MessageTypes
  BY TypeParts DEF IInv
<1>1. DeviceTypes'
  BY <1>0 DEF DeviceTypes, update_job_execution, Sends, Sending, ToSend
<1>2. LibraryTypes'
  BY <1>0 DEF LibraryTypes, update_job_execution, Sends
<1>3. ServiceTypes'
  BY <1>0 DEF ServiceTypes, update_job_execution, Active, UpdateStates
<1>4. MessageTypes'
  BY <1>0, SentFacts DEF IInv, AboutJobs, MessageTypes, DeviceTypes, update_job_execution, Msg,
     ToService
<1>5. AboutJobs'
  <2> DEFINE e == Msg(sending[thread].state, job_id, execution_version_number)
  <2>1. job_id \in Jobs /\ sending[thread].state \in UpdateStates
    <3>1. ~Free(thread)
      BY DEF update_job_execution, Free, ToSend
    <3> QED BY <1>0, <3>1 DEF IInv, AboutJobs, DeviceTypes, update_job_execution
  <2>2. e \in ToService /\ e.job \in Jobs
    BY <1>0, <2>1 DEF Msg, ToService, DeviceTypes
  <2> HIDE DEF e
  <2>3. up' = up \/ up' = Append(up, e)
    BY DEF update_job_execution, e
  <2>4. \A i \in 1 .. Len(up') : IsUpdate(up'[i]) => up'[i].job \in Jobs
    BY <1>0, <2>2, <2>3, SentFacts DEF IInv, AboutJobs, MessageTypes
  <2>5. \A t \in Threads : sending'[t].tested => sending'[t].state \in UpdateStates
    BY <1>0 DEF IInv, AboutJobs, DeviceTypes, update_job_execution, Sends, ToSend
  <2> QED BY <2>1, <2>4, <2>5, AwsAssumption DEF IInv, AboutJobs, update_job_execution
<1>6. Downloading' /\ OneJob'
  BY DEF IInv, Downloading, OneJob, May, update_job_execution, Sends
<1>7. env' = env
  BY DEF update_job_execution, Sends
<1>8. ASSUME InOrder PROVE Serialised'
  <2> DEFINE e == Msg(sending[thread].state, job_id, execution_version_number)
  <2>1. e \in ToService
    BY <1>0 DEF IInv, AboutJobs, Msg, ToService, DeviceTypes, update_job_execution
  <2> HIDE DEF e
  <2>2. up' = up \/ up' = Append(up, e)
    BY DEF update_job_execution, e
  <2>3. /\ sending[thread].tested /\ accepted' = FALSE /\ down' = down
        /\ sending' = [sending EXCEPT ![thread] = ToSend("idle")]
    BY DEF update_job_execution, Sends
  <2>4. NoUpdate(up) /\ NoAnswer(down) /\ OneUpdate(up) /\ OneAnswer(down)
    BY <1>8, <2>3 DEF IInv, Serialised
  <2>5. OneUpdate(up')
    BY <1>0, <2>1, <2>2, <2>4, SentFacts DEF MessageTypes
  <2>6. \A t \in Threads : ~sending'[t].tested
    BY <1>0, <1>8, <2>3 DEF IInv, Serialised, DeviceTypes, ToSend
  <2> QED BY <2>3, <2>4, <2>5, <2>6 DEF Serialised
<1> QED BY <1>1, <1>2, <1>3, <1>4, <1>5, <1>6, <1>7, <1>8, TypeInParts DEF IInv, InOrder, May

LEMMA DownloadFinishedPreserves ==
    ASSUME IInv, DownloadFinished
    PROVE  IInv'
<1> USE DEF jobvars, device, library, service
<1>0. DeviceTypes /\ LibraryTypes /\ ServiceTypes /\ MessageTypes
  BY TypeParts DEF IInv
<1>1. DeviceTypes'
  BY <1>0 DEF DeviceTypes, DownloadFinished, Finished, Sends, Sending, ToSend, UpdateStates
<1>2. LibraryTypes'
  BY <1>0 DEF LibraryTypes, DownloadFinished
<1>3. ServiceTypes'
  BY <1>0 DEF ServiceTypes, DownloadFinished, Executions, ServiceStates, Active, UpdateStates
<1>4. MessageTypes'
  BY <1>0 DEF MessageTypes, DownloadFinished
<1>5. AboutJobs'
  BY DEF IInv, AboutJobs, MessageTypes, DownloadFinished, Finished, Sends, ToSend
<1>6. Downloading' /\ OneJob'
  BY DEF IInv, Downloading, OneJob, May, DownloadFinished
<1>7. env' = env
  BY DEF DownloadFinished, Finished, Sends, Runs
<1>8. ASSUME InOrder PROVE Serialised'
  BY <1>8 DEF IInv, Serialised, DownloadFinished, Sends, ToSend
<1> QED BY <1>1, <1>2, <1>3, <1>4, <1>5, <1>6, <1>7, <1>8, TypeInParts DEF IInv, InOrder, May

LEMMA DownloadFailedPreserves ==
    ASSUME IInv, DownloadFailed
    PROVE  IInv'
<1> USE DEF jobvars, device, library, service
<1>0. DeviceTypes /\ LibraryTypes /\ ServiceTypes /\ MessageTypes
  BY TypeParts DEF IInv
<1>1. DeviceTypes'
  BY <1>0 DEF DeviceTypes, DownloadFailed, Failed, Sends, Sending, ToSend, UpdateStates
<1>2. LibraryTypes'
  BY <1>0 DEF LibraryTypes, DownloadFailed
<1>3. ServiceTypes'
  BY <1>0 DEF ServiceTypes, DownloadFailed, Executions, ServiceStates, Active, UpdateStates
<1>4. MessageTypes'
  BY <1>0 DEF MessageTypes, DownloadFailed
<1>5. AboutJobs'
  BY DEF IInv, AboutJobs, MessageTypes, DownloadFailed, Failed, Sends, ToSend
<1>6. Downloading' /\ OneJob'
  BY DEF IInv, Downloading, OneJob, May, DownloadFailed
<1>7. env' = env
  BY DEF DownloadFailed, Failed, Sends, Runs
<1>8. ASSUME InOrder PROVE Serialised'
  BY <1>8 DEF IInv, Serialised, DownloadFailed, Sends, ToSend
<1> QED BY <1>1, <1>2, <1>3, <1>4, <1>5, <1>6, <1>7, <1>8, TypeInParts DEF IInv, InOrder, May

LEMMA DisconnectPreserves ==
    ASSUME IInv, Disconnect
    PROVE  IInv'
<1> USE DEF jobvars, device, library, service
<1>0. DeviceTypes /\ LibraryTypes /\ ServiceTypes /\ MessageTypes
  BY TypeParts DEF IInv
<1>1. DeviceTypes'
  BY <1>0 DEF DeviceTypes, Disconnect, Lost
<1>2. LibraryTypes'
  BY <1>0 DEF LibraryTypes, Disconnect, Lost
<1>3. ServiceTypes'
  BY <1>0 DEF ServiceTypes, Disconnect, Lost, Active, UpdateStates
<1>4. MessageTypes'
  BY <1>0, EmptyFacts DEF MessageTypes, Disconnect, Lost
<1>5. AboutJobs'
  BY DEF IInv, AboutJobs, MessageTypes, Disconnect, Lost, Free
<1>6. Downloading' /\ OneJob'
  BY DEF IInv, Downloading, OneJob, May, Disconnect, Lost
<1>7. env' = env
  BY DEF Disconnect, Lost
<1>8. ASSUME InOrder PROVE Serialised'
  BY <1>8, EmptyFacts DEF IInv, Serialised, Disconnect, Lost
<1> QED BY <1>1, <1>2, <1>3, <1>4, <1>5, <1>6, <1>7, <1>8, TypeInParts DEF IInv, InOrder, May

LEMMA RebootPreserves ==
    ASSUME IInv, Reboot
    PROVE  IInv'
<1> USE DEF jobvars, device, library, service
<1>0. DeviceTypes /\ LibraryTypes /\ ServiceTypes /\ MessageTypes
  BY TypeParts DEF IInv
<1>1. DeviceTypes'
  <2>1. ToSend("idle") \in Sending
    BY DEF ToSend, Sending
  <2>2. sending' \in [Threads -> Sending]
    BY <2>1 DEF Reboot
  <2>3. connected' \in BOOLEAN /\ accepted' \in BOOLEAN /\ done' = NoJob
    BY DEF Reboot, Lost
  <2> QED BY <2>2, <2>3 DEF Reboot, DeviceTypes
<1>2. LibraryTypes'
  BY <1>0 DEF LibraryTypes, Reboot, Lost
<1>3. ServiceTypes'
  BY <1>0 DEF ServiceTypes, Reboot, Lost, Active, UpdateStates
<1>4. MessageTypes'
  BY <1>0, EmptyFacts DEF MessageTypes, Reboot, Lost
<1>5. AboutJobs'
  BY DEF AboutJobs, MessageTypes, Reboot, Lost, Free, ToSend, Sending
<1>6. Downloading' /\ OneJob'
  BY DEF IInv, Downloading, OneJob, May, Reboot, Lost
<1>7. env' = env
  BY DEF Reboot, Lost
<1>8. ASSUME InOrder PROVE Serialised'
  BY <1>8, EmptyFacts DEF InOrder, Serialised, Reboot, Lost, ToSend
<1> QED BY <1>1, <1>2, <1>3, <1>4, <1>5, <1>6, <1>7, <1>8, TypeInParts DEF IInv, InOrder, May

LEMMA SendsType ==
    ASSUME sending \in [Threads -> Sending],
           NEW t \in Threads, NEW state \in UpdateStates, Sends(t, state)
    PROVE  sending' \in [Threads -> Sending]
<1>1. ToSend(state) \in Sending
  BY DEF ToSend, Sending
<1> QED BY <1>1 DEF Sends

(* A message that is not delivered again is gone. *)
LEMMA LeftFacts ==
    ASSUME down \in Seq(ToDevice), NEW i \in 1 .. Len(down), NEW rest \in Left(i)
    PROVE  /\ rest \in Seq(ToDevice)
           /\ ~May("duplicate") => rest = RemoveAt(down, i)
<1>1. \/ rest = RemoveAt(down, i)
      \/ May("duplicate") /\ rest = down
  BY DEF Left
<1> QED BY <1>1, HandledFacts

(* What every message handler leaves alone, and what is left in the queue. *)
Handled(i) ==
    /\ connected /\ Free("mqtt") /\ Runs("mqtt")
    /\ UNCHANGED <<aws, connected, env>>
    /\ i \in 1 .. Len(down)

(* Without preemption no thread has tested `accepted' when a message comes. *)
LEMMA NobodyTested ==
    ASSUME NEW t \in Threads, DeviceTypes, InOrder, Free(t), Runs(t)
    PROVE  \A u \in Threads : ~sending[u].tested
BY DEF InOrder, Free, Runs, ToSend, May, DeviceTypes

LEMMA SubackPreserves ==
    ASSUME IInv, NEW i \in 1 .. Len(down), Handled(i), down[i].type = "suback",
           suback(down[i]), down' \in Left(i)
    PROVE  IInv'
<1> USE DEF jobvars, device, library, service
<1>0. DeviceTypes /\ LibraryTypes /\ ServiceTypes /\ MessageTypes
  BY TypeParts DEF IInv
<1>1. /\ UNCHANGED <<device, done, library, subs, aws, connected, env>>
      /\ \/ up' = Append(up, Msg("get", NoJob, 0)) /\ sending' = sending
         \/ /\ up' = up
            /\ \/ sending' = sending
               \/ fota_state = "DOWNLOAD_FIRMWARE" /\ Sends("mqtt", "IN_PROGRESS")
  BY DEF suback, Handled
<1>2. Msg("get", NoJob, 0) \in ToService /\ ~IsUpdate(Msg("get", NoJob, 0))
  BY DEF Msg, ToService, IsUpdate
<1>3. sending' = sending \/ Sends("mqtt", "IN_PROGRESS")
  BY <1>1
<1>4. \A t \in Threads : sending'[t].tested => sending'[t] = sending[t]
  BY <1>0, <1>3 DEF DeviceTypes, Sends, ToSend
<1>5. DeviceTypes' /\ LibraryTypes' /\ ServiceTypes' /\ Downloading' /\ OneJob'
  <2>1. sending' \in [Threads -> Sending]
    BY <1>0, <1>3, SendsType DEF DeviceTypes, Threads, UpdateStates
  <2> QED BY <1>0, <1>1, <2>1 DEF IInv, DeviceTypes, LibraryTypes, ServiceTypes, Downloading, OneJob, May
<1>6. MessageTypes'
  BY <1>0, <1>1, <1>2, SentFacts, LeftFacts DEF MessageTypes
<1>7. AboutJobs'
  <2>1. \A j \in 1 .. Len(up') : IsUpdate(up'[j]) => up'[j].job \in Jobs
    BY <1>0, <1>1, <1>2, SentFacts DEF IInv, AboutJobs, MessageTypes
  <2>2. job_id' = NoJob => sending' = sending
    BY <1>1 DEF IInv, AboutJobs
  <2> QED BY <1>1, <1>4, <2>1, <2>2 DEF IInv, AboutJobs, Free
<1>8. ASSUME InOrder PROVE Serialised'
  <2>1. /\ NoUpdate(up) => NoUpdate(up')
        /\ OneUpdate(up) => OneUpdate(up')
    BY <1>0, <1>1, <1>2, SentFacts DEF MessageTypes
  <2>2. /\ NoAnswer(down) => NoAnswer(down')
        /\ OneAnswer(down) => OneAnswer(down')
    BY <1>0, <1>8, LeftFacts, HandledFacts DEF MessageTypes, InOrder
  <2> QED BY <1>1, <1>4, <1>8, <2>1, <2>2 DEF IInv, Serialised
<1> QED BY <1>1, <1>5, <1>6, <1>7, <1>8, TypeInParts DEF IInv, InOrder, May

LEMMA GetJobExecutionPreserves ==
    ASSUME IInv, NEW i \in 1 .. Len(down), Handled(i), down[i].type = "doc",
           NEW rest \in Left(i), get_job_execution(down[i], rest)
    PROVE  IInv'
<1> USE DEF jobvars, device, library, service
<1> DEFINE m == down[i]
           s == Msg("suback", m.job, 0)
<1>0. DeviceTypes /\ LibraryTypes /\ ServiceTypes /\ MessageTypes
  BY TypeParts DEF IInv
<1>1. m \in ToDevice /\ m.job \in Jobs \cup {NoJob} /\ m.ver \in Nat
  <2>1. m \in ToDevice
    BY <1>0, ElementOfSeq DEF MessageTypes
  <2> QED BY <2>1 DEF ToDevice
<1>2. s \in ToDevice /\ ~IsAnswer(s)
  BY <1>1 DEF Msg, ToDevice, IsAnswer
<1>3. /\ rest \in Seq(ToDevice)
      /\ InOrder /\ NoAnswer(down) => NoAnswer(rest)
      /\ InOrder /\ OneAnswer(down) => OneAnswer(rest)
  BY <1>0, LeftFacts, HandledFacts DEF MessageTypes, InOrder
<1>4. /\ UNCHANGED <<accepted, execution_state, sending, done, library, up, aws, connected, env>>
      /\ \/ down' = rest /\ UNCHANGED <<jobvars, execution_version_number, fota_state, subs>>
         \/ /\ m.job \in Jobs /\ May("location") /\ job_id' = m.job /\ down' = rest
            /\ UNCHANGED <<update_topic, location, execution_version_number, fota_state, subs>>
         \/ /\ m.job \in Jobs /\ execution_version_number' = m.ver
            /\ job_id' = m.job /\ update_topic' = m.job /\ location' = m.job
            /\ \/ /\ subs' = subs \cup {m.job} /\ down' = Append(rest, s)
                  /\ fota_state' = "DOWNLOAD_FIRMWARE"
               \/ down' = rest /\ UNCHANGED <<fota_state, subs>>
  BY <1>1 DEF get_job_execution, Dropped, Handled
<1> HIDE DEF m, s
<1>5. DeviceTypes' /\ LibraryTypes' /\ ServiceTypes'
  BY <1>0, <1>1, <1>4 DEF DeviceTypes, LibraryTypes, ServiceTypes
<1>6. MessageTypes'
  BY <1>0, <1>2, <1>3, <1>4, AppendFacts DEF MessageTypes
<1>7. AboutJobs' /\ Downloading' /\ OneJob'
  BY <1>4, AwsAssumption DEF IInv, AboutJobs, Downloading, OneJob, May, Free
<1>8. ASSUME InOrder PROVE Serialised'
  <2>1. /\ NoAnswer(down) => NoAnswer(down')
        /\ OneAnswer(down) => OneAnswer(down')
    BY <1>2, <1>3, <1>4, <1>8, AppendFacts
  <2> QED BY <1>4, <1>8, <2>1 DEF IInv, Serialised
<1> QED BY <1>4, <1>5, <1>6, <1>7, <1>8, TypeInParts DEF IInv, InOrder, May

(* The acceptance of the update that was under way. *)
LEMMA JobUpdateAcceptedPreserves ==
    ASSUME IInv, NEW i \in 1 .. Len(down), Handled(i), down[i].type = "accepted",
           job_update_accepted, down' \in Left(i)
    PROVE  IInv'
<1> USE DEF jobvars, device, library, service
<1>0. DeviceTypes /\ LibraryTypes /\ ServiceTypes /\ MessageTypes
  BY TypeParts DEF IInv
<1>1. /\ accepted' = TRUE /\ execution_version_number' = execution_version_number + 1
      /\ UNCHANGED <<fota_state, jobvars, up, subs, aws, connected, env>>
  BY DEF job_update_accepted, Handled
<1>2. \/ /\ ReadyToDownload /\ execution_state' = "IN_PROGRESS" /\ UNCHANGED <<sending, done>>
         /\ \/ status' = "active" /\ want' = location /\ UNCHANGED <<tags, fetched>>
            \/ UNCHANGED library
      \/ /\ Completed /\ execution_state' = "SUCCEEDED" /\ Sends("mqtt", "SUCCEEDED")
         /\ UNCHANGED <<library, done>>
      \/ done' \in {job_id, done} /\ UNCHANGED <<execution_state, sending, library>>
  BY DEF job_update_accepted, fota_download_start
<1>3. sending' = sending \/ (fota_state = "APPLY_UPDATE" /\ Sends("mqtt", "SUCCEEDED"))
  BY <1>2 DEF Completed
<1>4. \A t \in Threads : sending'[t].tested => sending'[t] = sending[t]
  BY <1>0, <1>3 DEF DeviceTypes, Sends, ToSend
<1>5. DeviceTypes'
  <2>1. sending' \in [Threads -> Sending]
    BY <1>0, <1>3, SendsType DEF DeviceTypes, Threads, UpdateStates
  <2>2. done' \in Jobs \cup {NoJob} /\ execution_state' \in {"QUEUED", "IN_PROGRESS", "SUCCEEDED"}
    BY <1>0, <1>2 DEF DeviceTypes
  <2> QED BY <1>0, <1>1, <2>1, <2>2 DEF DeviceTypes
<1>6. LibraryTypes'
  <2>1. ReadyToDownload => location \in Jobs
    BY <1>0 DEF IInv, AboutJobs, DeviceTypes, ReadyToDownload
  <2> QED BY <1>0, <1>2, <2>1 DEF LibraryTypes
<1>7. ServiceTypes' /\ MessageTypes'
  BY <1>0, <1>1, LeftFacts DEF ServiceTypes, MessageTypes
<1>8. AboutJobs'
  <2>1. job_id = NoJob => sending' = sending /\ status' = status
    BY <1>2 DEF IInv, AboutJobs, ReadyToDownload, Completed
  <2> QED BY <1>1, <1>4, <2>1 DEF IInv, AboutJobs, Free
<1>9. Downloading' /\ OneJob'
  BY <1>1, <1>2 DEF IInv, Downloading, OneJob, May, ReadyToDownload, Completed
<1>10. ASSUME InOrder PROVE Serialised'
  <2>1. NoAnswer(down') /\ OneAnswer(down')
    <3>1. IsAnswer(down[i])
      BY DEF IsAnswer
    <3> QED BY <1>0, <1>10, <3>1, LeftFacts, HandledFacts
            DEF IInv, Serialised, MessageTypes, InOrder, NoAnswer, OneAnswer
  <2>2. NoUpdate(up)
    BY <1>10 DEF IInv, Serialised, NoAnswer, IsAnswer
  <2>3. \A t \in Threads : ~sending[t].tested
    BY <1>0, <1>10, NobodyTested DEF Handled, Threads
  <2> QED BY <1>1, <1>4, <1>10, <2>1, <2>2 DEF IInv, Serialised
<1> QED BY <1>1, <1>5, <1>6, <1>7, <1>8, <1>9, <1>10, TypeInParts DEF IInv, InOrder, May

LEMMA JobUpdateRejectedPreserves ==
    ASSUME IInv, NEW i \in 1 .. Len(down), Handled(i), down' \in Left(i),
           job_update_rejected \/ UNCHANGED <<device, sending, done, library, up, subs>>
    PROVE  IInv'
<1> USE DEF jobvars, device, library, service
<1>0. DeviceTypes /\ LibraryTypes /\ ServiceTypes /\ MessageTypes
  BY TypeParts DEF IInv
<1>1. /\ UNCHANGED <<accepted, execution_state, fota_state, jobvars, sending, done, library, up, subs,
                     aws, connected, env>>
      /\ execution_version_number' \in {execution_version_number, execution_version_number - 1}
  BY DEF job_update_rejected, Handled
<1>2. DeviceTypes' /\ LibraryTypes' /\ ServiceTypes' /\ MessageTypes'
  BY <1>0, <1>1, LeftFacts DEF DeviceTypes, LibraryTypes, ServiceTypes, MessageTypes
<1>3. AboutJobs' /\ Downloading' /\ OneJob'
  BY <1>1 DEF IInv, AboutJobs, Downloading, OneJob, May, Free
<1>4. ASSUME InOrder PROVE Serialised'
  <2>1. /\ NoAnswer(down) => NoAnswer(down')
        /\ OneAnswer(down) => OneAnswer(down')
    BY <1>0, <1>4, LeftFacts, HandledFacts DEF MessageTypes, InOrder
  <2> QED BY <1>1, <1>4, <2>1 DEF IInv, Serialised
<1> QED BY <1>1, <1>2, <1>3, <1>4, TypeInParts DEF IInv, InOrder, May

LEMMA MqttInputPreserves ==
    ASSUME IInv, mqtt_input
    PROVE  IInv'
<1>1. PICK i \in 1 .. Len(down) : \E rest \in Left(i) : on_publish_evt(down[i], rest)
  BY DEF mqtt_input
<1>2. Handled(i)
  BY <1>1 DEF mqtt_input, Handled
<1>3. PICK rest \in Left(i) : on_publish_evt(down[i], rest)
  BY <1>1
<1> QED BY <1>2, <1>3, SubackPreserves, GetJobExecutionPreserves, JobUpdateAcceptedPreserves,
           JobUpdateRejectedPreserves DEF on_publish_evt, Dropped

-----------------------------------------------------------------------------
LEMMA InvInit == Init => IInv
<1> SUFFICES ASSUME Init PROVE IInv
  OBVIOUS
<1>1. sending \in [Threads -> Sending] /\ \A t \in Threads : Free(t) /\ ~sending[t].tested
  BY DEF Init, Sending, ToSend, Free
<1>2. DeviceTypes /\ LibraryTypes
  <2>1. accepted \in BOOLEAN /\ done = NoJob /\ connected \in BOOLEAN
    BY DEF Init
  <2>2. execution_version_number \in Int
    BY DEF Init
  <2> QED BY <1>1, <2>1, <2>2 DEF Init, DeviceTypes, LibraryTypes
<1>3. ServiceTypes
  BY DEF Init, ServiceTypes, Executions, ServiceStates
<1>4. MessageTypes
  BY EmptyFacts DEF Init, MessageTypes
<1>5. AboutJobs /\ Downloading /\ OneJob
  BY <1>1 DEF Init, AboutJobs, Downloading, OneJob
<1>6. Serialised
  BY <1>1, EmptyFacts DEF Init, Serialised
<1> QED BY <1>2, <1>3, <1>4, <1>5, <1>6, TypeParts DEF IInv

LEMMA InvNext == IInv /\ [Next]_vars => IInv'
<1> SUFFICES ASSUME IInv, [Next]_vars PROVE IInv'
  OBVIOUS
<1>1. ASSUME NEW t \in Threads, wait_for_update_accepted(t) \/ update_job_execution(t)
      PROVE  IInv'
  BY <1>1, WaitForUpdateAcceptedPreserves, UpdateJobExecutionPreserves
<1>2. CASE UNCHANGED vars
  <2> USE DEF vars, jobvars, device, library, service
  <2>1. TypeOK' /\ AboutJobs' /\ Downloading' /\ OneJob'
    BY <1>2 DEF IInv, TypeOK, AboutJobs, Downloading, OneJob, May, Free
  <2>2. ASSUME InOrder PROVE Serialised'
    BY <1>2, <2>2 DEF IInv, Serialised
  <2> QED BY <1>2, <2>1, <2>2 DEF IInv, InOrder, May
<1> QED BY <1>1, <1>2, CreateJobPreserves, CancelJobPreserves, ServicePreserves,
           ConnackPreserves,
           MqttInputPreserves, DownloadFinishedPreserves, DownloadFailedPreserves,
           DisconnectPreserves, RebootPreserves
        DEF Next, Library

LEMMA InvHolds == Spec => []IInv
BY InvInit, InvNext, PTL DEF Spec

-----------------------------------------------------------------------------
(* The variables of aws_fota.c, the messages and the executions have their *)
(* types, whatever fails and in whatever order messages arrive.            *)
THEOREM TypeCorrect == Spec => []TypeOK
<1>1. IInv => TypeOK
  BY DEF IInv
<1> QED BY <1>1, InvHolds, PTL

(* `accepted' serialises the status updates of the two threads as long as  *)
(* no thread is preempted after its test, no answer is delivered twice and *)
(* no session outlives a restart, through failed downloads and calls, lost *)
(* connections, cancelled jobs and messages out of order.                  *)
THEOREM UpdatesSerialised == Spec => []OneUpdateAtATime
<1>1. IInv => OneUpdateAtATime
  BY DEF IInv, InOrder, May, Serialised, OneUpdateAtATime, Updates, Answers, OneUpdate, OneAnswer,
         NoUpdate, NoAnswer, IsUpdate, IsAnswer
<1> QED BY <1>1, InvHolds, PTL

(* aws_fota uses the FOTA download library as it must be used: it never    *)
(* starts a download during another one.                                   *)
THEOREM LibraryUsed == Spec => UsesFota
<1>1. Init => Update!Init
  BY DEF Init, Update!Init
<1>2. IInv /\ [Next]_vars => [Update!Next]_(Update!vars)
  <2> SUFFICES ASSUME IInv, Next, ~UNCHANGED <<status, want, tags>> PROVE Update!Next
    BY DEF Update!vars, vars, library
  <2>1. CASE DownloadFinished
    BY <2>1 DEF DownloadFinished, Update!Next, Update!Finish, Update!Writes
  <2>2. CASE DownloadFailed
    BY <2>2 DEF DownloadFailed, Update!Next, Update!Fail, Update!Writes
  <2>3. CASE Reboot
    BY <2>3 DEF Reboot, Update!Next, Update!Reboot
  <2>4. CASE mqtt_input
    <3>1. ReadyToDownload /\ status' = "active" /\ want' = location /\ tags' = tags
      BY <2>4 DEF mqtt_input, on_publish_evt, Dropped, suback, get_job_execution, job_update_accepted,
                  job_update_rejected, fota_download_start, library
    <3>2. status # "active" /\ location \in Jobs
      BY <3>1 DEF IInv, Downloading, AboutJobs, ReadyToDownload, TypeOK
    <3> QED BY <3>1, <3>2 DEF Update!Next, Update!Start
  <2> QED BY <2>1, <2>2, <2>3, <2>4
          DEF Next, Library, CreateJob, CancelJob, Service, connack, wait_for_update_accepted,
              update_job_execution, Disconnect, library
<1> QED BY <1>1, <1>2, InvHolds, PTL DEF Spec, UsesFota, Update!Spec
=============================================================================
