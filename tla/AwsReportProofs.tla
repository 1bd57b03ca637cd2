--------------------------- MODULE AwsReportProofs ---------------------------
(***************************************************************************)
(* What aws_fota reports about a job is true: a job that the service has   *)
(* as SUCCEEDED was downloaded, and AWS_FOTA_EVT_DONE comes after such a   *)
(* report, for every set of jobs.  The invariants of AwsFotaProofs are     *)
(* extended by SInv, about the order of jobs, documents and updates, and   *)
(* by CInv, about what may be under way at the same time.                  *)
(***************************************************************************)
EXTENDS AwsFotaProofs

-----------------------------------------------------------------------------
(* The jobs come one after the other *)

(* Where ImageBehindSuccess is claimed, and a message that is delivered    *)
(* twice or a document without a location does not come.                   *)
Steady ==
    /\ env \cap {"cancel", "reorder", "session", "location", "duplicate"} = {}
    /\ ~({"download", "disconnect"} \subseteq env)

Closed(a, j) == j \in Jobs /\ a[j].status \notin Active \cup {"NONE"}

(* The turn of a job has come, or has passed. *)
Reached(a, j) ==
    /\ j \in Jobs /\ a[j].status # "NONE"
    /\ \A k \in Jobs : k < j => Closed(a, k)

(* Jobs are created and begun in turn. *)
JobsInTurn(a) ==
    /\ \A j, k \in Jobs : k < j /\ a[j].status # "NONE" => a[k].status # "NONE"
    /\ \A j \in Jobs : a[j].status = "IN_PROGRESS" => Reached(a, j)

IsDoc(m) == m.type = "doc" /\ m.job # NoJob

(* Every job the device knows or will hear of has been reached, and        *)
(* documents come in turn.                                                 *)
Known ==
    /\ job_id # NoJob => Reached(aws, job_id)
    /\ \A i \in 1 .. Len(up) : IsUpdate(up[i]) => Reached(aws, up[i].job)
    /\ \A i \in 1 .. Len(down) : IsDoc(down[i]) \/ IsAnswer(down[i]) => Reached(aws, down[i].job)

DocsInTurn ==
    /\ \A i \in 1 .. Len(down) : IsDoc(down[i]) /\ job_id # NoJob => job_id <= down[i].job
    /\ \A i, k \in 1 .. Len(down) :
          IsDoc(down[i]) /\ IsDoc(down[k]) /\ i < k => down[i].job <= down[k].job

-----------------------------------------------------------------------------
(* What a connection begins with *)

Offline == ~connected => up = <<>> /\ down = <<>> /\ subs = {}

IsSubscribed(m) == m.type = "suback" /\ m.job = NoJob

NoGet(s) == \A i \in 1 .. Len(s) : IsUpdate(s[i])

NoSubscribed(s) == \A i \in 1 .. Len(s) : ~IsSubscribed(s[i])

NoDoc(s, j) == \A i \in 1 .. Len(s) : IsDoc(s[i]) => s[i].job # j

(* The next job is asked for once, before anything is sent that will be    *)
(* answered.                                                               *)
Asking ==
    /\ \A i \in 1 .. Len(down) : IsSubscribed(down[i]) =>
          /\ i = 1 /\ subs = {NoJob} /\ NoGet(up) /\ NoDoc(down, job_id)
          /\ \A k \in 1 .. Len(up) : NoDoc(down, up[k].job)
    /\ \A i, k \in 1 .. Len(up) : ~IsUpdate(up[i]) /\ ~IsUpdate(up[k]) => i = k
    /\ \A i, k \in 1 .. Len(up) : ~IsUpdate(up[i]) /\ IsUpdate(up[k]) /\ k < i =>
          up[k].job \notin subs /\ NoDoc(down, up[k].job)

(* Hence no document of a job follows the answer to an update of it. *)
Answered ==
    \A i \in 1 .. Len(down) : IsAnswer(down[i]) =>
        /\ NoGet(up) /\ NoSubscribed(down)
        /\ \A k \in 1 .. Len(down) : i < k /\ IsDoc(down[k]) => down[k].job # down[i].job

-----------------------------------------------------------------------------
(* How a job ends *)

Ends == {"SUCCEEDED", "FAILED"}

EndSent(s, j) == \E i \in 1 .. Len(s) : s[i].type \in Ends /\ s[i].job = j

EndSending == \E t \in Threads : sending[t].state \in Ends

(* A job has ended, or its end is on its way. *)
Final(j) == Closed(aws, j) \/ EndSent(up, j) \/ (j = job_id /\ EndSending)

(* No document of a job comes after its end, so that it is not taken up    *)
(* again and its end is sent once.                                         *)
Ended ==
    /\ \A j \in Jobs : Final(j) => NoDoc(down, j)
    /\ (\E j \in Jobs : EndSent(up, j)) \/ EndSending => NoGet(up) /\ NoSubscribed(down)
    /\ Final(job_id) =>
          /\ fota_state # "DOWNLOAD_FIRMWARE"
          /\ ~(execution_state = "IN_PROGRESS" /\ fota_state = "APPLY_UPDATE")
    /\ \A t \in Threads : sending[t].state \in Ends =>
          /\ ~Closed(aws, job_id) /\ ~EndSent(up, job_id)
          /\ \A u \in Threads : sending[u].state \in Ends => u = t

(* A download that may fail finds no document of its job on its way: the   *)
(* connection is the one its job was announced on.                         *)
FailsInTurn ==
    /\ sending["http"].state \in Ends => May("download")
    /\ May("download") /\ ~connected => job_id = NoJob
    /\ May("download") /\ status = "active" =>
          NoGet(up) /\ NoSubscribed(down) /\ NoDoc(down, job_id)

(* What is downloaded, applied and reported is the image of the job. *)
ImageOfJob ==
    /\ status = "active" => want = job_id
    /\ execution_state = "IN_PROGRESS" /\ fota_state = "APPLY_UPDATE" => job_id \in fetched
    /\ \A t \in Threads : sending[t].state = "SUCCEEDED" => job_id \in fetched
    /\ \A i \in 1 .. Len(up) : up[i].type = "SUCCEEDED" => up[i].job \in fetched
    /\ \A j \in Jobs : aws[j].status = "SUCCEEDED" => j \in fetched

SInv ==
    /\ JobsInTurn(aws) /\ Known /\ DocsInTurn
    /\ Offline /\ Asking /\ Answered
    /\ Ended /\ FailsInTurn /\ ImageOfJob

-----------------------------------------------------------------------------
(* The job service *)

Open(a, j) == j \in Jobs /\ a[j].status \in Active

(* The next job is the one that has been reached and is open. *)
LEMMA NextReached ==
    ASSUME NEW a, JobsInTurn(a), NextJob(a) # NoJob
    PROVE  Reached(a, NextJob(a)) /\ Open(a, NextJob(a))
<1> DEFINE open == {j \in Jobs : a[j].status \in Active}
           begun == {j \in open : a[j].status = "IN_PROGRESS"}
           first(S) == CHOOSE j \in S : \A k \in S : j <= k
<1>1. ASSUME NEW S \in SUBSET Jobs, S # {}
      PROVE  first(S) \in S /\ \A k \in S : first(S) <= k
  <2>1. S \in SUBSET Nat
    BY AwsAssumption
  <2>2. \E j \in S : \A k \in S : j <= k
    BY <1>1, <2>1, FirstExists
  <2> QED BY <2>2
<1>2. NextJob(a) = IF begun # {} THEN first(begun) ELSE IF open # {} THEN first(open) ELSE NoJob
  BY DEF NextJob
<1>3. begun \in SUBSET Jobs /\ open \in SUBSET Jobs
  OBVIOUS
<1> HIDE DEF first
<1>4. CASE begun # {}
  BY <1>1, <1>2, <1>3, <1>4 DEF JobsInTurn, Open, Active
<1>5. CASE begun = {}
  <2>1. NextJob(a) \in open /\ \A k \in open : NextJob(a) <= k
    BY <1>1, <1>2, <1>3, <1>5
  <2>2. ASSUME NEW k \in Jobs, k < NextJob(a) PROVE Closed(a, k)
    <3>0. k \in Nat /\ NextJob(a) \in Nat
      BY <2>1, AwsAssumption
    <3>1. k \notin open
      <4>1. ~(NextJob(a) <= k)
        BY <2>2, <3>0
      <4> HIDE DEF open
      <4> QED BY <2>1, <4>1
    <3>2. a[k].status # "NONE"
      BY <2>1, <2>2 DEF JobsInTurn, Active
    <3> QED BY <2>2, <3>1, <3>2 DEF Closed
  <2> QED BY <2>1, <2>2 DEF Reached, Open, Active
<1> QED BY <1>4, <1>5

(* Only one job is open and has been reached. *)
LEMMA OneReached ==
    ASSUME NEW a, NEW j, NEW k, Reached(a, j), Open(a, j), Reached(a, k), Open(a, k)
    PROVE  j = k
<1>1. j \in Nat /\ k \in Nat
  BY AwsAssumption DEF Reached
<1>2. ~(j < k) /\ ~(k < j)
  BY DEF Reached, Open, Closed
<1> QED BY <1>1, <1>2

LEMMA ReachedIsNext ==
    ASSUME NEW a, JobsInTurn(a), NEW j, Reached(a, j), Open(a, j)
    PROVE  NextJob(a) = j
<1>1. {k \in Jobs : a[k].status \in Active} # {}
  BY DEF Open
<1>2. NextJob(a) # NoJob
  <2> DEFINE open == {k \in Jobs : a[k].status \in Active}
             begun == {k \in open : a[k].status = "IN_PROGRESS"}
             first(S) == CHOOSE k \in S : \A l \in S : k <= l
  <2>1. ASSUME NEW S \in SUBSET Jobs, S # {} PROVE first(S) \in Jobs
    BY <2>1, FirstExists, AwsAssumption
  <2>2. NextJob(a) = IF begun # {} THEN first(begun) ELSE IF open # {} THEN first(open) ELSE NoJob
    BY DEF NextJob
  <2>3. begun \in SUBSET Jobs /\ open \in SUBSET Jobs /\ open # {}
    BY <1>1
  <2> HIDE DEF open, begun, first
  <2> QED BY <2>1, <2>2, <2>3, AwsAssumption
<1> QED BY <1>2, NextReached, OneReached

(* Executions change in turn: what was reached stays reached. *)
Moves(a, b) ==
    /\ JobsInTurn(a) /\ JobsInTurn(b)
    /\ \A j \in Jobs : Closed(a, j) => Closed(b, j)
    /\ \A j \in Jobs : a[j].status # "NONE" => b[j].status # "NONE"

LEMMA MovesReached ==
    ASSUME NEW a, NEW b, Moves(a, b), NEW j, Reached(a, j)
    PROVE  Reached(b, j)
BY DEF Moves, Reached

(* The service announces a job when its turn comes, never again. *)
LEMMA NoticeIsNew ==
    ASSUME NEW a, NEW b, Moves(a, b), NextJob(a) # NextJob(b), NextJob(b) # NoJob
    PROVE  /\ Reached(b, NextJob(b)) /\ Open(b, NextJob(b))
           /\ ~Reached(a, NextJob(b))
<1> DEFINE j == NextJob(b)
<1>1. Reached(b, j) /\ Open(b, j)
  BY NextReached DEF Moves
<1>2. ASSUME Reached(a, j) PROVE FALSE
  <2>1. Open(a, j)
    BY <1>1, <1>2 DEF Moves, Reached, Open, Closed
  <2> QED BY <1>2, <2>1, ReachedIsNext DEF Moves
<1> QED BY <1>1, <1>2

-----------------------------------------------------------------------------
(* Messages *)

(* Messages of a set were added at the end. *)
Grown(s, t, S) ==
    /\ Len(s) \in Nat /\ Len(t) \in Nat /\ Len(s) <= Len(t)
    /\ \A i \in 1 .. Len(t) : (i \in 1 .. Len(s) /\ t[i] = s[i]) \/ (i > Len(s) /\ t[i] \in S)
    /\ \A i \in 1 .. Len(s) : i \in 1 .. Len(t) /\ t[i] = s[i]

(* The first message was taken. *)
Shifted(s, t) ==
    /\ Len(s) \in Nat /\ Len(t) \in Nat /\ 1 \in 1 .. Len(s)
    /\ \A i \in 1 .. Len(t) : i + 1 \in 1 .. Len(s) /\ t[i] = s[i + 1]

LEMMA GrownNone ==
    ASSUME NEW X, NEW s \in Seq(X), NEW S
    PROVE  Grown(s, s, S)
BY LenProperties DEF Grown

LEMMA GrownOne ==
    ASSUME NEW X, NEW s \in Seq(X), NEW e \in X
    PROVE  Grown(s, Append(s, e), {e})
<1>1. /\ Len(Append(s, e)) = Len(s) + 1 /\ Len(s) \in Nat
      /\ \A i \in 1 .. Len(s) : Append(s, e)[i] = s[i]
      /\ Append(s, e)[Len(s) + 1] = e
  BY AppendProperties, LenProperties
<1> QED BY <1>1 DEF Grown

LEMMA GrownTwice ==
    ASSUME NEW s, NEW t, NEW u, NEW S, NEW T, Grown(s, t, S), Grown(t, u, T)
    PROVE  Grown(s, u, S \cup T)
<1>1. /\ Len(s) \in Nat /\ Len(t) \in Nat /\ Len(u) \in Nat /\ Len(s) <= Len(t) /\ Len(t) <= Len(u)
  BY DEF Grown
<1>2. ASSUME NEW i \in 1 .. Len(u)
      PROVE  (i \in 1 .. Len(s) /\ u[i] = s[i]) \/ (i > Len(s) /\ u[i] \in S \cup T)
  <2>1. CASE i \in 1 .. Len(t) /\ u[i] = t[i]
    BY <2>1 DEF Grown
  <2>2. CASE i > Len(t) /\ u[i] \in T
    BY <1>1, <2>2
  <2> QED BY <2>1, <2>2 DEF Grown
<1>3. ASSUME NEW i \in 1 .. Len(s) PROVE i \in 1 .. Len(u) /\ u[i] = s[i]
  BY DEF Grown
<1> QED BY <1>1, <1>2, <1>3 DEF Grown

LEMMA GrownJoin ==
    ASSUME NEW X, NEW s \in Seq(X), NEW e \in X
    PROVE  /\ s \o <<e>> \in Seq(X) /\ Grown(s, s \o <<e>>, {e})
           /\ s \o <<>> = s
<1>1. s \o <<e>> = Append(s, e) /\ s \o <<>> = s
  OBVIOUS
<1>2. Append(s, e) \in Seq(X) /\ Grown(s, Append(s, e), {e})
  BY GrownOne, AppendProperties
<1> QED BY <1>1, <1>2

LEMMA ShiftedTail ==
    ASSUME NEW X, NEW s \in Seq(X), s # <<>>
    PROVE  Shifted(s, Tail(s)) /\ Head(s) = s[1]
<1>1. /\ Tail(s) \in Seq(X) /\ Len(Tail(s)) = Len(s) - 1
      /\ \A i \in 1 .. Len(Tail(s)) : Tail(s)[i] = s[i + 1]
  BY HeadTailProperties
<1>2. Len(s) \in Nat \ {0} /\ Head(s) = s[1]
  BY EmptySeq, LenProperties
<1> QED BY <1>1, <1>2 DEF Shifted

LEMMA ShiftedRest ==
    ASSUME NEW X, NEW s \in Seq(X), 1 \in 1 .. Len(s)
    PROVE  Shifted(s, RemoveAt(s, 1)) /\ RemoveAt(s, 1) \in Seq(X)
<1>1. /\ RemoveAt(s, 1) \in Seq(X) /\ Len(RemoveAt(s, 1)) = Len(s) - 1 /\ Len(s) \in Nat
      /\ \A j \in 1 .. Len(s) - 1 : RemoveAt(s, 1)[j] = IF j < 1 THEN s[j] ELSE s[j + 1]
  BY RemoveAtFacts, LenProperties
<1> HIDE DEF RemoveAt
<1> QED BY <1>1 DEF Shifted

-----------------------------------------------------------------------------
(* Steps of the service *)

LEMMA ServiceTurns ==
    ASSUME IInv, SInv, UNCHANGED <<device, sending, library, subs, connected, env>>,
           Moves(aws, aws'), up' = up \/ Shifted(up, up'),
           connected \/ (up' = up /\ down' = down),
           NEW S, Grown(down, down', S),
           \A m \in S : IsDoc(m) =>
              /\ Reached(aws', m.job) /\ Open(aws', m.job)
              /\ Reached(aws, m.job) => Shifted(up, up') /\ ~IsUpdate(up[1]),
           \A m \in S : IsAnswer(m) =>
              Shifted(up, up') /\ IsUpdate(up[1]) /\ m.job = up[1].job /\ m.job \in subs,
           \A m \in S : ~IsSubscribed(m),
           \A j \in Jobs : Closed(aws', j) => Closed(aws, j) \/ EndSent(up, j),
           \A j \in Jobs : aws'[j].status = "SUCCEEDED" =>
              \/ aws[j].status = "SUCCEEDED"
              \/ \E i \in 1 .. Len(up) : up[i].type = "SUCCEEDED" /\ up[i].job = j
    PROVE  SInv'
<1> USE DEF jobvars, device, library
<1>0. /\ \A i \in 1 .. Len(up) : IsUpdate(up[i]) => up[i].job \in Jobs
      /\ job_id \in Jobs \cup {NoJob} /\ NoJob \notin Jobs
  BY AwsAssumption DEF IInv, AboutJobs, TypeOK
<1>1. ASSUME NEW i \in 1 .. Len(up')
      PROVE  \E k \in 1 .. Len(up) : up'[i] = up[k] /\ (k = i \/ (k = i + 1 /\ Shifted(up, up')))
  BY DEF Shifted
<1>2. NoGet(up) => NoGet(up')
  BY <1>1 DEF NoGet
<1>3. NoSubscribed(down) => NoSubscribed(down')
  BY DEF NoSubscribed, Grown
<1>4. ASSUME NEW m \in S, IsDoc(m), NoGet(up) PROVE ~Reached(aws, m.job)
  BY <1>4 DEF NoGet, Shifted
<1>5. ASSUME NEW j, NoGet(up), j = NoJob \/ Reached(aws, j), NoDoc(down, j) PROVE NoDoc(down', j)
  BY <1>4, <1>5 DEF NoDoc, Grown, IsDoc
<1>6. JobsInTurn(aws')
  BY DEF Moves
<1>7. Known'
  <2>1. job_id' # NoJob => Reached(aws', job_id')
    BY MovesReached DEF SInv, Known
  <2>2. ASSUME NEW i \in 1 .. Len(up'), IsUpdate(up'[i]) PROVE Reached(aws', up'[i].job)
    BY <1>1, <2>2, MovesReached DEF SInv, Known
  <2>3. ASSUME NEW i \in 1 .. Len(down'), IsDoc(down'[i]) \/ IsAnswer(down'[i])
        PROVE  Reached(aws', down'[i].job)
    <3>1. CASE i \in 1 .. Len(down) /\ down'[i] = down[i]
      BY <2>3, <3>1, MovesReached DEF SInv, Known
    <3>2. CASE down'[i] \in S /\ IsDoc(down'[i])
      BY <3>2
    <3>3. CASE down'[i] \in S /\ IsAnswer(down'[i])
      BY <3>3, MovesReached DEF SInv, Known, Shifted
    <3> QED BY <2>3, <3>1, <3>2, <3>3 DEF Grown
  <2> QED BY <2>1, <2>2, <2>3 DEF Known
<1>8. ASSUME NEW m \in S, IsDoc(m), NEW j, Reached(aws', j) PROVE j <= m.job
  <2>1. j \in Nat /\ m.job \in Nat
    BY <1>8, AwsAssumption DEF Reached
  <2>2. ~(m.job < j)
    BY <1>8 DEF Reached, Open, Closed
  <2> QED BY <2>1, <2>2
<1>9. DocsInTurn'
  <2>1. ASSUME NEW i \in 1 .. Len(down'), IsDoc(down'[i]), job_id' # NoJob
        PROVE  job_id' <= down'[i].job
    BY <1>7, <1>8, <2>1 DEF SInv, Known, DocsInTurn, Grown
  <2>2. ASSUME NEW i \in 1 .. Len(down'), NEW k \in 1 .. Len(down'),
               IsDoc(down'[i]), IsDoc(down'[k]), i < k
        PROVE  down'[i].job <= down'[k].job
    <3>1. CASE down'[k] \in S
      BY <1>7, <1>8, <2>2, <3>1 DEF Known
    <3>2. CASE k \in 1 .. Len(down) /\ down'[k] = down[k]
      <4>1. i \in 1 .. Len(down)
        BY <2>2, <3>2 DEF Grown
      <4>2. down'[i] = down[i]
        BY <4>1 DEF Grown
      <4> QED BY <2>2, <3>2, <4>1, <4>2 DEF SInv, DocsInTurn
    <3> QED BY <3>1, <3>2 DEF Grown
  <2> QED BY <2>1, <2>2 DEF DocsInTurn
<1>10. Offline'
  BY DEF SInv, Offline
<1>11. Asking'
  <2>1. ASSUME NEW i \in 1 .. Len(down'), IsSubscribed(down'[i])
        PROVE  /\ i = 1 /\ subs' = {NoJob} /\ NoGet(up') /\ NoDoc(down', job_id')
               /\ \A k \in 1 .. Len(up') : NoDoc(down', up'[k].job)
    <3>1. i \in 1 .. Len(down) /\ down'[i] = down[i]
      BY <2>1 DEF Grown
    <3>2. i = 1 /\ subs = {NoJob} /\ NoGet(up) /\ NoDoc(down, job_id)
      BY <2>1, <3>1 DEF SInv, Asking
    <3>3. NoDoc(down', job_id)
      BY <1>5, <3>2 DEF SInv, Known
    <3>4. ASSUME NEW k \in 1 .. Len(up) PROVE NoDoc(down', up[k].job)
      <4>1. NoDoc(down, up[k].job)
        BY <2>1, <3>1 DEF SInv, Asking
      <4>2. Reached(aws, up[k].job)
        BY <3>2 DEF SInv, Known, NoGet
      <4> QED BY <1>5, <3>2, <4>1, <4>2
    <3> QED BY <1>1, <1>2, <3>2, <3>3, <3>4
  <2>2. ASSUME NEW i \in 1 .. Len(up'), NEW k \in 1 .. Len(up'), ~IsUpdate(up'[i]),
               ~IsUpdate(up'[k])
        PROVE  i = k
    <3>1. CASE up' = up
      BY <2>2, <3>1 DEF SInv, Asking
    <3>2. CASE Shifted(up, up')
      <4>1. i + 1 = k + 1
        BY <2>2, <3>2 DEF SInv, Asking, Shifted
      <4> QED BY <4>1
    <3> QED BY <3>1, <3>2
  <2>3. ASSUME NEW i \in 1 .. Len(up'), NEW k \in 1 .. Len(up'),
               ~IsUpdate(up'[i]), IsUpdate(up'[k]), k < i
        PROVE  up'[k].job \notin subs' /\ NoDoc(down', up'[k].job)
    <3>1. PICK x \in 1 .. Len(up), y \in 1 .. Len(up) :
              /\ up'[i] = up[x] /\ up'[k] = up[y] /\ y < x
              /\ Shifted(up, up') => x # 1
      <4>1. CASE up' = up /\ ~Shifted(up, up')
        BY <2>3, <4>1
      <4>2. CASE Shifted(up, up')
        <5>1. i + 1 \in 1 .. Len(up) /\ k + 1 \in 1 .. Len(up) /\ k + 1 < i + 1 /\ i + 1 # 1
          BY <2>3, <4>2 DEF Shifted
        <5> QED BY <4>2, <5>1 DEF Shifted
      <4> QED BY <4>1, <4>2
    <3>2. up[y].job \notin subs /\ NoDoc(down, up[y].job) /\ Reached(aws, up[y].job)
      BY <2>3, <3>1 DEF SInv, Asking, Known
    <3>3. ASSUME NEW m \in S, IsDoc(m) PROVE ~Reached(aws, m.job)
      <4>1. Shifted(up, up') => IsUpdate(up[1])
        <5>1. Shifted(up, up') /\ ~IsUpdate(up[1]) => x = 1
          BY <2>3, <3>1 DEF SInv, Asking, Shifted
        <5> QED BY <3>1, <5>1
      <4> QED BY <3>3, <4>1
    <3> QED BY <3>1, <3>2, <3>3 DEF NoDoc, Grown
  <2> QED BY <2>1, <2>2, <2>3 DEF Asking
<1>12. Answered'
  <2> SUFFICES ASSUME NEW i \in 1 .. Len(down'), IsAnswer(down'[i])
               PROVE  /\ NoGet(up') /\ NoSubscribed(down')
                      /\ \A k \in 1 .. Len(down') :
                            i < k /\ IsDoc(down'[k]) => down'[k].job # down'[i].job
    BY DEF Answered
  <2>1. NoGet(up) /\ NoSubscribed(down) /\ Reached(aws, down'[i].job)
    <3>1. CASE i \in 1 .. Len(down) /\ down'[i] = down[i]
      BY <3>1 DEF SInv, Answered, Known
    <3>2. CASE down'[i] \in S
      <4>1. 1 \in 1 .. Len(up) /\ IsUpdate(up[1]) /\ down'[i].job = up[1].job /\ up[1].job \in subs
        BY <3>2 DEF Shifted
      <4>2. NoGet(up)
        <5> SUFFICES ASSUME NEW k \in 1 .. Len(up), ~IsUpdate(up[k]) PROVE FALSE
          BY DEF NoGet
        <5>1. 1 < k
          BY <4>1
        <5> QED BY <4>1, <5>1 DEF SInv, Asking
      <4>3. NoSubscribed(down)
        BY <1>0, <4>1 DEF SInv, Asking, NoSubscribed
      <4> QED BY <4>1, <4>2, <4>3 DEF SInv, Known
    <3> QED BY <3>1, <3>2 DEF Grown
  <2>2. ASSUME NEW k \in 1 .. Len(down'), i < k, IsDoc(down'[k]) PROVE down'[k].job # down'[i].job
    <3>1. CASE down'[k] \in S
      BY <1>4, <2>1, <2>2, <3>1
    <3>2. CASE k \in 1 .. Len(down) /\ down'[k] = down[k]
      <4>1. i \in 1 .. Len(down)
        BY <2>2, <3>2 DEF Grown
      <4>2. down'[i] = down[i]
        BY <4>1 DEF Grown
      <4> QED BY <2>2, <3>2, <4>1, <4>2 DEF SInv, Answered
    <3> QED BY <3>1, <3>2 DEF Grown
  <2> QED BY <1>2, <1>3, <2>1, <2>2
<1>13. ASSUME NEW j PROVE EndSent(up', j) => EndSent(up, j)
  BY <1>1 DEF EndSent
<1>14. EndSending' <=> EndSending
  BY DEF EndSending
<1>15. ASSUME NEW j, Final(j)' PROVE Final(j)
  <2>1. Closed(aws', j) \/ EndSent(up', j) \/ (j = job_id /\ EndSending)
    BY <1>14, <1>15 DEF Final
  <2> QED BY <1>13, <2>1 DEF Final, Closed
<1>16. Ended'
  <2>1. ASSUME NEW j \in Jobs, Final(j)' PROVE NoDoc(down', j)
    <3>1. Final(j) /\ NoDoc(down, j)
      BY <1>15, <2>1 DEF SInv, Ended
    <3>2. Closed(aws', j) \/ EndSent(up, j) \/ (j = job_id /\ EndSending)
      BY <1>13, <1>14, <2>1 DEF Final
    <3>3. ASSUME NEW m \in S, IsDoc(m), m.job = j PROVE FALSE
      <4>1. ~Closed(aws', j)
        BY <3>3 DEF Open, Closed
      <4>2. CASE NoGet(up)
        <5>1. ~Reached(aws, j)
          BY <1>4, <3>3, <4>2
        <5>2. j # job_id
          BY <1>0, <5>1 DEF SInv, Known
        <5>3. ~EndSent(up, j)
          BY <5>1 DEF SInv, Known, EndSent, IsUpdate, Ends
        <5> QED BY <3>2, <4>1, <5>2, <5>3
      <4>3. CASE ~NoGet(up)
        BY <3>2, <4>1, <4>3 DEF SInv, Ended
      <4> QED BY <4>2, <4>3
    <3> QED BY <3>1, <3>3 DEF NoDoc, Grown
  <2>2. (\E j \in Jobs : EndSent(up', j)) \/ EndSending' => NoGet(up') /\ NoSubscribed(down')
    BY <1>2, <1>3, <1>13, <1>14 DEF SInv, Ended
  <2>3. Final(job_id)' => /\ fota_state' # "DOWNLOAD_FIRMWARE"
                          /\ ~(execution_state' = "IN_PROGRESS" /\ fota_state' = "APPLY_UPDATE")
    <3>1. Final(job_id)' => Final(job_id)
      BY <1>15
    <3> QED BY <3>1 DEF SInv, Ended
  <2>4. ASSUME NEW t \in Threads, sending'[t].state \in Ends
        PROVE  /\ ~Closed(aws', job_id') /\ ~EndSent(up', job_id')
               /\ \A u \in Threads : sending'[u].state \in Ends => u = t
    BY <1>13, <2>4 DEF SInv, Ended, Closed
  <2> QED BY <2>1, <2>2, <2>3, <2>4 DEF Ended
<1>17. FailsInTurn'
  BY <1>2, <1>3, <1>5 DEF SInv, FailsInTurn, Known, May
<1>18. ImageOfJob'
  <2>1. \A i \in 1 .. Len(up') : up'[i].type = "SUCCEEDED" => up'[i].job \in fetched
    BY <1>1 DEF SInv, ImageOfJob
  <2> QED BY <2>1 DEF SInv, ImageOfJob
<1> QED BY <1>6, <1>7, <1>9, <1>10, <1>11, <1>12, <1>16, <1>17, <1>18 DEF SInv

(* What the service sends by itself. *)
Announced(a, b) == IF NoJob \in subs /\ NextJob(a) # NextJob(b) THEN {Doc(b)} ELSE {}

LEMMA NoticeFacts ==
    ASSUME NEW s \in Seq(ToDevice), NEW a, NEW b \in [Jobs -> Executions]
    PROVE  s \o Notice(a, b) \in Seq(ToDevice) /\ Grown(s, s \o Notice(a, b), Announced(a, b))
<1>1. Doc(b) \in ToDevice
  BY DocType
<1>2. CASE NoJob \in subs /\ NextJob(a) # NextJob(b)
  <2>1. Notice(a, b) = <<Doc(b)>> /\ Announced(a, b) = {Doc(b)}
    BY <1>2 DEF Notice, Announced
  <2> QED BY <1>1, <2>1, GrownJoin
<1>3. CASE ~(NoJob \in subs /\ NextJob(a) # NextJob(b))
  <2>1. Notice(a, b) = <<>> /\ Announced(a, b) = {}
    BY <1>3 DEF Notice, Announced
  <2> QED BY <1>1, <2>1, GrownJoin, GrownNone
<1> QED BY <1>2, <1>3

LEMMA AnnouncedFacts ==
    ASSUME NEW a, NEW b, Moves(a, b), NEW m \in Announced(a, b)
    PROVE  /\ m.type = "doc"
           /\ IsDoc(m) => Reached(b, m.job) /\ Open(b, m.job) /\ ~Reached(a, m.job)
<1>1. m = Doc(b) /\ NextJob(a) # NextJob(b)
  BY DEF Announced
<1>2. m.type = "doc" /\ m.job = NextJob(b)
  BY <1>1 DEF Doc, Msg
<1> QED BY <1>1, <1>2, NoticeIsNew DEF IsDoc

LEMMA GrownEmpty ==
    ASSUME NEW s \in Seq(ToDevice), NEW t \in Seq(ToDevice), Grown(s, t, {})
    PROVE  t = s
<1>1. Len(t) = Len(s)
  <2>1. ~(Len(s) + 1 \in 1 .. Len(t))
    BY DEF Grown
  <2> QED BY <2>1 DEF Grown
<1>2. \A i \in 1 .. Len(s) : t[i] = s[i]
  BY DEF Grown
<1> QED BY <1>1, <1>2, SeqEqual

LEMMA CreateJobSteady ==
    ASSUME IInv, IInv', SInv, CreateJob
    PROVE  SInv'
<1>0. aws \in [Jobs -> Executions] /\ aws' \in [Jobs -> Executions] /\ down \in Seq(ToDevice)
  BY TypeParts DEF IInv, ServiceTypes, MessageTypes, TypeOK, Executions
<1>1. PICK j \in Jobs :
          /\ aws[j].status = "NONE" /\ \A k \in Jobs : k < j => aws[k].status # "NONE"
          /\ aws' = [aws EXCEPT ![j] = [status |-> "QUEUED", ver |-> 1]]
          /\ down' = down \o Notice(aws, aws')
          /\ UNCHANGED <<device, sending, done, library, subs, up, connected, env>>
  BY DEF CreateJob
<1>2. \A k \in Jobs : aws'[k].status = IF k = j THEN "QUEUED" ELSE aws[k].status
  BY <1>0, <1>1
<1>3. \A k \in Jobs : Closed(aws', k) <=> Closed(aws, k)
  BY <1>1, <1>2 DEF Closed, Active
<1>4. JobsInTurn(aws')
  <2>1. ASSUME NEW k \in Jobs, NEW l \in Jobs, l < k, aws'[k].status # "NONE"
        PROVE  aws'[l].status # "NONE"
    BY <1>1, <1>2, <2>1 DEF SInv, JobsInTurn
  <2>2. ASSUME NEW k \in Jobs, aws'[k].status = "IN_PROGRESS" PROVE Reached(aws', k)
    BY <1>2, <1>3, <2>2 DEF SInv, JobsInTurn, Reached
  <2> QED BY <2>1, <2>2 DEF JobsInTurn
<1>5. Moves(aws, aws')
  BY <1>1, <1>2, <1>3, <1>4 DEF SInv, Moves
<1> DEFINE S == Announced(aws, aws')
<1>6. Grown(down, down', S) /\ (subs = {} => S = {})
  BY <1>0, <1>1, NoticeFacts DEF Announced
<1>10. ASSUME NEW m \in S
       PROVE  /\ m.type = "doc"
              /\ IsDoc(m) => Reached(aws', m.job) /\ Open(aws', m.job) /\ ~Reached(aws, m.job)
  BY <1>5, AnnouncedFacts
<1> HIDE DEF S
<1>7. connected \/ (up' = up /\ down' = down)
  <2>1. down' \in Seq(ToDevice)
    BY TypeParts DEF IInv, TypeOK, ToDevice
  <2>2. subs = {} => down' = down
    BY <1>0, <1>6, <2>1, GrownEmpty
  <2> QED BY <1>1, <2>2 DEF SInv, Offline
<1>8. \A m \in S : ~IsAnswer(m) /\ ~IsSubscribed(m)
  BY <1>10 DEF IsAnswer, IsSubscribed
<1>9. \A k \in Jobs : aws'[k].status = "SUCCEEDED" => aws[k].status = "SUCCEEDED"
  BY <1>2
<1> QED BY <1>1, <1>3, <1>5, <1>6, <1>7, <1>8, <1>9, <1>10, ServiceTurns

LEMMA GetSteady ==
    ASSUME IInv, IInv', SInv, Service, Head(up).type = "get"
    PROVE  SInv'
<1>0. aws \in [Jobs -> Executions] /\ up \in Seq(ToService) /\ down \in Seq(ToDevice)
  BY TypeParts DEF IInv, ServiceTypes, MessageTypes
<1>1. /\ up # <<>> /\ up' = Tail(up) /\ aws' = aws /\ down' \in {down, Append(down, Doc(aws))}
      /\ UNCHANGED <<device, sending, library, subs, connected, env>>
  BY DEF Service, ServiceGets
<1>2. Shifted(up, up') /\ ~IsUpdate(up[1])
  BY <1>0, <1>1, ShiftedTail DEF IsUpdate
<1>3. Doc(aws) \in ToDevice
  BY <1>0, DocType
<1>4. Grown(down, down', {Doc(aws)})
  BY <1>0, <1>1, <1>3, GrownOne, GrownNone
<1>5. Doc(aws).type = "doc" /\ Doc(aws).job = NextJob(aws)
  BY DEF Doc, Msg
<1>6. IsDoc(Doc(aws)) => Reached(aws, Doc(aws).job) /\ Open(aws, Doc(aws).job)
  BY <1>5, NextReached DEF SInv, IsDoc
<1>7. ~IsAnswer(Doc(aws)) /\ ~IsSubscribed(Doc(aws))
  BY <1>5 DEF IsAnswer, IsSubscribed
<1>8. Moves(aws, aws')
  BY <1>1 DEF SInv, Moves
<1>9. connected
  BY <1>1 DEF SInv, Offline
<1> DEFINE S == {Doc(aws)}
<1>10. /\ \A m \in S : IsDoc(m) =>
             /\ Reached(aws', m.job) /\ Open(aws', m.job)
             /\ Reached(aws, m.job) => Shifted(up, up') /\ ~IsUpdate(up[1])
       /\ \A m \in S : ~IsAnswer(m) /\ ~IsSubscribed(m)
  BY <1>1, <1>2, <1>6, <1>7
<1> HIDE DEF S
<1> QED BY <1>1, <1>2, <1>4, <1>8, <1>9, <1>10, ServiceTurns DEF S

LEMMA AnswerSteady ==
    ASSUME IInv, IInv', SInv, Service, Head(up).type # "get"
    PROVE  SInv'
<1> DEFINE m == up[1]
           ok == aws[m.job].status \in Active /\ aws[m.job].ver = m.ver
           answer == Msg(IF ok THEN "accepted" ELSE "rejected", m.job, 0)
           A == IF m.job \in subs THEN <<answer>> ELSE <<>>
           T == IF m.job \in subs THEN {answer} ELSE {}
           N == Announced(aws, aws')
<1>0. /\ aws \in [Jobs -> Executions] /\ aws' \in [Jobs -> Executions]
      /\ up \in Seq(ToService) /\ down \in Seq(ToDevice)
  BY TypeParts DEF IInv, ServiceTypes, MessageTypes, TypeOK, Executions
<1>1. up # <<>> /\ Head(up) = up[1] /\ Shifted(up, up') /\ IsUpdate(m) /\ m \in ToService
  <2>1. up # <<>> /\ up' = Tail(up)
    BY DEF Service
  <2>2. Head(up) \in ToService
    BY <1>0, <2>1, TakenFacts
  <2> QED BY <1>0, <2>1, <2>2, ShiftedTail DEF IsUpdate
<1>2. /\ aws' = IF ok THEN [aws EXCEPT ![m.job] = [status |-> m.type, ver |-> m.ver + 1]] ELSE aws
      /\ down' = down \o A \o Notice(aws, aws')
      /\ UNCHANGED <<device, sending, library, subs, connected, env>>
  BY <1>1 DEF Service, ServiceUpdates
<1>3. 1 \in 1 .. Len(up) /\ m.job \in Jobs /\ Reached(aws, m.job)
  BY <1>1 DEF SInv, Known, Reached, Shifted
<1>4. m.type \in UpdateStates
  BY <1>1 DEF ToService, IsUpdate
<1> HIDE DEF m
<1>5. \A j \in Jobs : aws'[j].status = IF ok /\ j = m.job THEN m.type ELSE aws[j].status
  BY <1>0, <1>2, <1>3
<1>6. \A j \in Jobs : Closed(aws, j) => Closed(aws', j)
  BY <1>5 DEF Closed
<1>7. \A j \in Jobs : aws[j].status # "NONE" <=> aws'[j].status # "NONE"
  BY <1>4, <1>5 DEF Active, UpdateStates
<1>8. JobsInTurn(aws')
  <2>1. ASSUME NEW j \in Jobs, NEW k \in Jobs, k < j, aws'[j].status # "NONE"
        PROVE  aws'[k].status # "NONE"
    BY <1>7, <2>1 DEF SInv, JobsInTurn
  <2>2. ASSUME NEW j \in Jobs, aws'[j].status = "IN_PROGRESS" PROVE Reached(aws', j)
    <3>1. Reached(aws, j)
      BY <1>3, <1>5, <2>2 DEF SInv, JobsInTurn
    <3> QED BY <1>6, <1>7, <3>1 DEF Reached
  <2> QED BY <2>1, <2>2 DEF JobsInTurn
<1>9. Moves(aws, aws')
  BY <1>6, <1>7, <1>8 DEF SInv, Moves
<1>10. answer \in ToDevice /\ IsAnswer(answer) /\ answer.job = m.job
  BY <1>3 DEF Msg, ToDevice, IsAnswer
<1> HIDE DEF answer
<1>11. down \o A \in Seq(ToDevice) /\ Grown(down, down \o A, T)
  BY <1>0, <1>10, GrownJoin, GrownNone
<1> HIDE DEF A
<1>12. Grown(down \o A, down', N)
  BY <1>0, <1>2, <1>11, NoticeFacts
<1>13. Grown(down, down', T \cup N)
  BY <1>11, <1>12, GrownTwice
<1>14. ASSUME NEW x \in N
       PROVE  /\ ~IsAnswer(x) /\ ~IsSubscribed(x)
              /\ IsDoc(x) => Reached(aws', x.job) /\ Open(aws', x.job) /\ ~Reached(aws, x.job)
  BY <1>9, AnnouncedFacts DEF IsAnswer, IsSubscribed
<1>15. ASSUME NEW x \in T
       PROVE  /\ ~IsDoc(x) /\ ~IsSubscribed(x)
              /\ x.job = up[1].job /\ x.job \in subs
  BY <1>10 DEF IsAnswer, IsSubscribed, IsDoc, m
<1>16. ASSUME NEW j \in Jobs, Closed(aws', j) PROVE Closed(aws, j) \/ EndSent(up, j)
  BY <1>3, <1>4, <1>5, <1>16 DEF Closed, EndSent, Active, UpdateStates, Ends, m
<1>17. ASSUME NEW j \in Jobs, aws'[j].status = "SUCCEEDED"
       PROVE  \/ aws[j].status = "SUCCEEDED"
              \/ \E i \in 1 .. Len(up) : up[i].type = "SUCCEEDED" /\ up[i].job = j
  BY <1>3, <1>5, <1>17 DEF m
<1>18. connected
  BY <1>1 DEF SInv, Offline
<1> DEFINE S == T \cup N
<1>19. /\ \A x \in S : IsDoc(x) =>
             /\ Reached(aws', x.job) /\ Open(aws', x.job)
             /\ Reached(aws, x.job) => Shifted(up, up') /\ ~IsUpdate(up[1])
       /\ \A x \in S : IsAnswer(x) =>
             Shifted(up, up') /\ IsUpdate(up[1]) /\ x.job = up[1].job /\ x.job \in subs
       /\ \A x \in S : ~IsSubscribed(x)
       /\ Grown(down, down', S)
  BY <1>1, <1>13, <1>14, <1>15 DEF m
<1> HIDE DEF S
<1> QED BY <1>1, <1>2, <1>9, <1>16, <1>17, <1>18, <1>19, ServiceTurns

-----------------------------------------------------------------------------
(* Steps of the device *)

(* What is left after a message was handled. *)
LEMMA RestFacts ==
    ASSUME SInv, NEW rest, Shifted(down, rest)
    PROVE  /\ NoSubscribed(rest)
           /\ \A j : NoDoc(down, j) => NoDoc(rest, j)
           /\ \A i \in 1 .. Len(rest) : IsDoc(rest[i]) \/ IsAnswer(rest[i]) =>
                 Reached(aws, rest[i].job)
           /\ \A i \in 1 .. Len(rest) : IsDoc(rest[i]) /\ job_id # NoJob => job_id <= rest[i].job
           /\ \A i, k \in 1 .. Len(rest) :
                 IsDoc(rest[i]) /\ IsDoc(rest[k]) /\ i < k => rest[i].job <= rest[k].job
           /\ \A i \in 1 .. Len(rest) : IsAnswer(rest[i]) =>
                 /\ NoGet(up)
                 /\ \A k \in 1 .. Len(rest) : i < k /\ IsDoc(rest[k]) => rest[k].job # rest[i].job
<1>1. \A i \in 1 .. Len(rest) : i + 1 \in 1 .. Len(down) /\ rest[i] = down[i + 1] /\ i + 1 # 1
  BY DEF Shifted
<1>2. NoSubscribed(rest)
  BY <1>1 DEF SInv, Asking, NoSubscribed
<1>3. \A j : NoDoc(down, j) => NoDoc(rest, j)
  BY <1>1 DEF NoDoc
<1>4. \A i \in 1 .. Len(rest) : IsDoc(rest[i]) \/ IsAnswer(rest[i]) => Reached(aws, rest[i].job)
  BY <1>1 DEF SInv, Known
<1>5. \A i \in 1 .. Len(rest) : IsDoc(rest[i]) /\ job_id # NoJob => job_id <= rest[i].job
  BY <1>1 DEF SInv, DocsInTurn
<1>6. ASSUME NEW i \in 1 .. Len(rest), NEW k \in 1 .. Len(rest), IsDoc(rest[i]), IsDoc(rest[k]),
             i < k
      PROVE  rest[i].job <= rest[k].job
  <2>1. i + 1 < k + 1
    BY <1>6
  <2> QED BY <1>1, <1>6, <2>1 DEF SInv, DocsInTurn
<1>7. ASSUME NEW i \in 1 .. Len(rest), IsAnswer(rest[i])
      PROVE  /\ NoGet(up)
             /\ \A k \in 1 .. Len(rest) : i < k /\ IsDoc(rest[k]) => rest[k].job # rest[i].job
  <2>1. ASSUME NEW k \in 1 .. Len(rest), i < k, IsDoc(rest[k]) PROVE rest[k].job # rest[i].job
    <3>1. i + 1 < k + 1
      BY <2>1
    <3> QED BY <1>1, <1>7, <2>1, <3>1 DEF SInv, Answered
  <2> QED BY <1>1, <1>7, <2>1 DEF SInv, Answered
<1> QED BY <1>2, <1>3, <1>4, <1>5, <1>6, <1>7

(* A message changes nothing that matters here. *)
LEMMA DropSteady ==
    ASSUME IInv, SInv, connected, Shifted(down, down'),
           UNCHANGED <<aws, up, subs, connected, env, execution_state, fota_state, job_id,
                       library>>,
           \A t \in Threads : \/ sending'[t].state = sending[t].state
                              \/ sending[t].state \notin Ends /\ sending'[t].state \notin Ends
    PROVE  SInv'
<1> USE DEF library
<1>1. JobsInTurn(aws') /\ Offline'
  BY DEF SInv, Offline
<1>2. Known' /\ DocsInTurn' /\ Answered'
  BY RestFacts DEF SInv, Known, DocsInTurn, Answered
<1>3. Asking'
  <2>1. NoSubscribed(down')
    BY RestFacts
  <2>2. ASSUME NEW i \in 1 .. Len(up), NEW k \in 1 .. Len(up), ~IsUpdate(up[i]), IsUpdate(up[k]),
               k < i
        PROVE  up[k].job \notin subs /\ NoDoc(down', up[k].job)
    BY <2>2, RestFacts DEF SInv, Asking
  <2> QED BY <2>1, <2>2 DEF SInv, Asking, NoSubscribed
<1>4. EndSending' <=> EndSending
  BY DEF EndSending
<1>5. \A j \in Jobs \cup {NoJob} : Final(j)' <=> Final(j)
  BY <1>4 DEF Final
<1>6. Ended'
  <2>1. \A t \in Threads : sending'[t].state \in Ends <=> sending[t].state \in Ends
    OBVIOUS
  <2>2. job_id \in Jobs \cup {NoJob}
    BY DEF IInv, TypeOK
  <2>3. \A j \in Jobs : Final(j)' => NoDoc(down', j)
    BY <1>5, RestFacts DEF SInv, Ended
  <2>4. Final(job_id)' <=> Final(job_id)
    BY <1>4 DEF Final
  <2>5. (\E j \in Jobs : EndSent(up', j)) \/ EndSending' => NoGet(up') /\ NoSubscribed(down')
    BY <1>4, RestFacts DEF SInv, Ended
  <2>6. Final(job_id)' => /\ fota_state' # "DOWNLOAD_FIRMWARE"
                          /\ ~(execution_state' = "IN_PROGRESS" /\ fota_state' = "APPLY_UPDATE")
    BY <2>4 DEF SInv, Ended
  <2>7. \A t \in Threads : sending'[t].state \in Ends =>
            /\ ~Closed(aws', job_id') /\ ~EndSent(up', job_id')
            /\ \A u \in Threads : sending'[u].state \in Ends => u = t
    BY <2>1 DEF SInv, Ended
  <2> QED BY <2>3, <2>5, <2>6, <2>7 DEF Ended
<1>7. FailsInTurn'
  BY RestFacts DEF SInv, FailsInTurn, May, Threads
<1>8. ImageOfJob'
  <2>1. \A t \in Threads : sending'[t].state = "SUCCEEDED" => sending[t].state = "SUCCEEDED"
    BY DEF Ends
  <2> QED BY <2>1 DEF SInv, ImageOfJob
<1> QED BY <1>1, <1>2, <1>3, <1>6, <1>7, <1>8 DEF SInv

LEMMA SubscribedSteady ==
    ASSUME IInv, SInv, connected, IsSubscribed(down[1]), Shifted(down, down'),
           up' = Append(up, Msg("get", NoJob, 0)),
           UNCHANGED <<aws, subs, connected, env, sending, execution_state, fota_state, job_id,
                       library>>
    PROVE  SInv'
<1> USE DEF library
<1>0. /\ up \in Seq(ToService) /\ NoJob \notin Jobs /\ 1 \in 1 .. Len(down)
      /\ \A i \in 1 .. Len(up) : IsUpdate(up[i]) => up[i].job \in Jobs
  BY TypeParts, AwsAssumption DEF IInv, MessageTypes, Shifted, AboutJobs
<1>1. /\ Len(up') = Len(up) + 1 /\ Len(up) \in Nat
      /\ \A i \in 1 .. Len(up) : up'[i] = up[i]
      /\ up'[Len(up) + 1] = Msg("get", NoJob, 0)
  <2>1. Msg("get", NoJob, 0) \in ToService
    BY DEF Msg, ToService
  <2> QED BY <1>0, <2>1, AppendProperties, LenProperties
<1>2. /\ NoGet(up) /\ subs = {NoJob} /\ NoDoc(down, job_id)
      /\ \A k \in 1 .. Len(up) : NoDoc(down, up[k].job)
  BY <1>0 DEF SInv, Asking
<1>3. ASSUME NEW i \in 1 .. Len(up')
      PROVE  \/ i \in 1 .. Len(up) /\ up'[i] = up[i] /\ IsUpdate(up'[i])
             \/ i = Len(up) + 1 /\ up'[i].type = "get" /\ ~IsUpdate(up'[i])
  <2>1. i \in 1 .. Len(up) \/ i = Len(up) + 1
    BY <1>1
  <2> QED BY <1>1, <1>2, <2>1 DEF NoGet, Msg, IsUpdate
<1>4. ~NoSubscribed(down)
  BY <1>0 DEF NoSubscribed
<1>5. \A i \in 1 .. Len(down') : ~IsAnswer(down'[i])
  BY <1>4 DEF SInv, Answered, Shifted
<1>6. ~EndSending /\ \A j \in Jobs : ~EndSent(up, j)
  BY <1>4 DEF SInv, Ended
<1>7. JobsInTurn(aws') /\ Offline'
  BY DEF SInv, Offline
<1>8. Known' /\ DocsInTurn' /\ Answered'
  <2>1. \A i \in 1 .. Len(up') : IsUpdate(up'[i]) => Reached(aws, up'[i].job)
    BY <1>3 DEF SInv, Known
  <2>2. Known'
    BY <2>1, RestFacts DEF SInv, Known
  <2> QED BY <1>5, <2>2, RestFacts DEF DocsInTurn, Answered
<1>9. Asking'
  <2>1. NoSubscribed(down')
    BY RestFacts
  <2>2. ASSUME NEW i \in 1 .. Len(up'), NEW k \in 1 .. Len(up'), ~IsUpdate(up'[i]),
               IsUpdate(up'[k]), k < i
        PROVE  up'[k].job \notin subs' /\ NoDoc(down', up'[k].job)
    <3>1. k \in 1 .. Len(up) /\ up'[k] = up[k]
      BY <1>3, <2>2
    <3> QED BY <1>0, <1>2, <2>2, <3>1, RestFacts
  <2>3. ASSUME NEW i \in 1 .. Len(up'), NEW k \in 1 .. Len(up'), ~IsUpdate(up'[i]),
               ~IsUpdate(up'[k])
        PROVE  i = k
    BY <1>3, <2>3
  <2> QED BY <2>1, <2>2, <2>3 DEF Asking, NoSubscribed
<1>10. ASSUME NEW j PROVE EndSent(up', j) => EndSent(up, j)
  BY <1>3 DEF EndSent, Ends
<1>11. EndSending' <=> EndSending
  BY DEF EndSending
<1>12. ASSUME NEW j PROVE Final(j)' => Final(j)
  BY <1>10, <1>11 DEF Final
<1>13. Ended'
  <2>1. \A j \in Jobs : Final(j)' => NoDoc(down', j)
    BY <1>12, RestFacts DEF SInv, Ended
  <2>2. Final(job_id)' => Final(job_id)
    BY <1>12
  <2>3. Final(job_id)' => /\ fota_state' # "DOWNLOAD_FIRMWARE"
                          /\ ~(execution_state' = "IN_PROGRESS" /\ fota_state' = "APPLY_UPDATE")
    BY <2>2 DEF SInv, Ended
  <2>4. \A t \in Threads : sending'[t].state \notin Ends
    BY <1>6 DEF EndSending
  <2> QED BY <1>6, <1>10, <1>11, <2>1, <2>3, <2>4 DEF Ended
<1>14. FailsInTurn'
  BY <1>4 DEF SInv, FailsInTurn, May
<1>15. ImageOfJob'
  <2>1. \A i \in 1 .. Len(up') : up'[i].type = "SUCCEEDED" => up'[i].job \in fetched
    BY <1>3 DEF SInv, ImageOfJob
  <2> QED BY <2>1 DEF SInv, ImageOfJob
<1> QED BY <1>7, <1>8, <1>9, <1>13, <1>14, <1>15 DEF SInv

(* The answer to an update of the job was the last to come of it. *)
LEMMA AcceptedFacts ==
    ASSUME SInv, IsAnswer(down[1]), down[1].job = job_id, NEW rest, Shifted(down, rest)
    PROVE  NoGet(up) /\ NoSubscribed(down) /\ NoDoc(rest, job_id)
<1>1. 1 \in 1 .. Len(down)
  BY DEF Shifted
<1>2. ASSUME NEW k \in 1 .. Len(rest), IsDoc(rest[k]) PROVE rest[k].job # job_id
  <2>1. k + 1 \in 1 .. Len(down) /\ rest[k] = down[k + 1] /\ 1 < k + 1
    BY DEF Shifted
  <2> QED BY <1>1, <1>2, <2>1 DEF SInv, Answered
<1> QED BY <1>1, <1>2 DEF SInv, Answered, NoDoc

LEMMA ReadySteady ==
    ASSUME IInv, SInv, Steady, connected, IsAnswer(down[1]), down[1].job = job_id,
           Shifted(down, down'),
           ReadyToDownload, execution_state' = "IN_PROGRESS", fota_download_start,
           UNCHANGED <<aws, up, subs, connected, env, sending, fota_state, job_id>>
    PROVE  SInv'
<1>1. JobsInTurn(aws') /\ Offline'
  BY DEF SInv, Offline
<1>2. Known' /\ DocsInTurn' /\ Answered'
  BY RestFacts DEF SInv, Known, DocsInTurn, Answered
<1>3. Asking'
  <2>1. NoSubscribed(down')
    BY RestFacts
  <2>2. ASSUME NEW i \in 1 .. Len(up), NEW k \in 1 .. Len(up), ~IsUpdate(up[i]), IsUpdate(up[k]),
               k < i
        PROVE  up[k].job \notin subs /\ NoDoc(down', up[k].job)
    BY <2>2, RestFacts DEF SInv, Asking
  <2> QED BY <2>1, <2>2 DEF SInv, Asking, NoSubscribed
<1>4. EndSending' <=> EndSending
  BY DEF EndSending
<1>5. ASSUME NEW j PROVE Final(j)' <=> Final(j)
  BY <1>4 DEF Final
<1>6. ~Final(job_id) /\ fota_state = "DOWNLOAD_FIRMWARE"
  BY DEF SInv, Ended, ReadyToDownload
<1>7. Ended'
  <2>1. \A j \in Jobs : Final(j)' => NoDoc(down', j)
    BY <1>5, RestFacts DEF SInv, Ended
  <2>2. ~Final(job_id)'
    BY <1>4, <1>6 DEF Final
  <2>3. (\E j \in Jobs : EndSent(up', j)) \/ EndSending' => NoGet(up') /\ NoSubscribed(down')
    BY <1>4, RestFacts DEF SInv, Ended
  <2>4. \A t \in Threads : sending'[t].state \in Ends =>
            /\ ~Closed(aws', job_id') /\ ~EndSent(up', job_id')
            /\ \A u \in Threads : sending'[u].state \in Ends => u = t
    BY DEF SInv, Ended
  <2> QED BY <2>1, <2>2, <2>3, <2>4 DEF Ended
<1>8. FailsInTurn'
  BY AcceptedFacts, RestFacts DEF SInv, FailsInTurn, May
<1>9. ImageOfJob'
  <2>1. location = job_id
    BY DEF IInv, OneJob, Steady, May
  <2> QED BY <1>6, <2>1 DEF SInv, ImageOfJob, fota_download_start, library
<1> QED BY <1>1, <1>2, <1>3, <1>7, <1>8, <1>9 DEF SInv

LEMMA CompletedSteady ==
    ASSUME IInv, SInv, connected, IsAnswer(down[1]), down[1].job = job_id, Shifted(down, down'),
           Completed, execution_state' = "SUCCEEDED", Sends("mqtt", "SUCCEEDED"),
           UNCHANGED <<aws, up, subs, connected, env, fota_state, job_id, library>>
    PROVE  SInv'
<1> USE DEF library
<1>1. JobsInTurn(aws') /\ Offline'
  BY DEF SInv, Offline
<1>2. Known' /\ DocsInTurn' /\ Answered'
  BY RestFacts DEF SInv, Known, DocsInTurn, Answered
<1>3. Asking'
  <2>1. NoSubscribed(down')
    BY RestFacts
  <2>2. ASSUME NEW i \in 1 .. Len(up), NEW k \in 1 .. Len(up), ~IsUpdate(up[i]), IsUpdate(up[k]),
               k < i
        PROVE  up[k].job \notin subs /\ NoDoc(down', up[k].job)
    BY <2>2, RestFacts DEF SInv, Asking
  <2> QED BY <2>1, <2>2 DEF SInv, Asking, NoSubscribed
<1>4. ~Final(job_id) /\ fota_state = "APPLY_UPDATE" /\ job_id \in fetched
  BY DEF SInv, Ended, Completed, ImageOfJob
<1>5. ~Closed(aws, job_id) /\ ~EndSent(up, job_id) /\ ~EndSending
  BY <1>4 DEF Final
<1>6. /\ sending'["mqtt"].state = "SUCCEEDED"
      /\ sending'["http"].state = sending["http"].state
      /\ sending["http"].state \notin Ends
  <2>1. sending \in [Threads -> Sending]
    BY TypeParts DEF IInv, DeviceTypes
  <2> QED BY <1>5, <2>1 DEF Sends, ToSend, Threads, EndSending
<1>7. Ended'
  <2>1. ASSUME NEW j \in Jobs, Final(j)' PROVE NoDoc(down', j)
    <3>1. CASE j = job_id
      BY <3>1, AcceptedFacts
    <3>2. CASE j # job_id
      <4>1. Final(j)
        BY <2>1, <3>2 DEF Final
      <4> QED BY <4>1, RestFacts DEF SInv, Ended
    <3> QED BY <3>1, <3>2
  <2>2. NoGet(up') /\ NoSubscribed(down')
    BY AcceptedFacts, RestFacts
  <2>3. /\ fota_state' # "DOWNLOAD_FIRMWARE"
        /\ ~(execution_state' = "IN_PROGRESS" /\ fota_state' = "APPLY_UPDATE")
    BY <1>4
  <2>4. \A t \in Threads : sending'[t].state \in Ends =>
            /\ ~Closed(aws', job_id') /\ ~EndSent(up', job_id')
            /\ \A u \in Threads : sending'[u].state \in Ends => u = t
    BY <1>5, <1>6 DEF Threads
  <2> QED BY <2>1, <2>2, <2>3, <2>4 DEF Ended
<1>8. FailsInTurn'
  <2>1. status # "active"
    BY <1>4 DEF IInv, Downloading
  <2> QED BY <1>6, <2>1 DEF SInv, FailsInTurn, May
<1>9. ImageOfJob'
  BY <1>4 DEF SInv, ImageOfJob
<1> QED BY <1>1, <1>2, <1>3, <1>7, <1>8, <1>9 DEF SInv

(* A document that comes while a job is under way is about that job. *)
LEMMA DocIsOurs ==
    ASSUME SInv, IsDoc(down[1]), 1 \in 1 .. Len(down), job_id \in Jobs, ~Closed(aws, job_id)
    PROVE  down[1].job = job_id
<1>1. Reached(aws, down[1].job) /\ Reached(aws, job_id) /\ job_id <= down[1].job
  BY AwsAssumption DEF SInv, Known, DocsInTurn
<1>2. job_id \in Nat /\ down[1].job \in Nat
  BY <1>1, AwsAssumption DEF Reached
<1>3. ~(job_id < down[1].job)
  BY <1>1 DEF Reached
<1> QED BY <1>1, <1>2, <1>3

LEMMA DocSteady ==
    ASSUME IInv, SInv, connected, IsDoc(down[1]), NEW rest, Shifted(down, rest),
           job_id' = down[1].job,
           \/ /\ subs' = subs \cup {down[1].job} /\ fota_state' = "DOWNLOAD_FIRMWARE"
              /\ Grown(rest, down', {Msg("suback", down[1].job, 0)})
           \/ down' = rest /\ UNCHANGED <<fota_state, subs>>,
           UNCHANGED <<aws, up, connected, env, sending, execution_state, library>>
    PROVE  SInv'
<1> USE DEF library
<1> DEFINE k == down[1].job
<1>0. 1 \in 1 .. Len(down) /\ job_id \in Jobs \cup {NoJob} /\ NoJob \notin Jobs
  BY AwsAssumption DEF Shifted, IInv, TypeOK
<1>1. Reached(aws, k) /\ k \in Jobs /\ k # NoJob
  BY <1>0 DEF SInv, Known, Reached, IsDoc
<1>2. ~Final(k)
  BY <1>0, <1>1 DEF SInv, Ended, NoDoc
<1>3. job_id \in Jobs /\ ~Final(job_id) => k = job_id
  BY <1>0, DocIsOurs DEF Final
<1>4. ~EndSending
  <2>1. EndSending => job_id \in Jobs /\ ~Closed(aws, job_id)
    BY <1>0 DEF SInv, Ended, EndSending, IInv, AboutJobs, Free, ToSend, Ends
  <2>2. EndSending => k = job_id
    BY <1>0, <2>1, DocIsOurs
  <2> QED BY <1>2, <2>2 DEF Final
<1>5. ASSUME NEW i \in 1 .. Len(down'),
             IsDoc(down'[i]) \/ IsAnswer(down'[i]) \/ IsSubscribed(down'[i])
      PROVE  i \in 1 .. Len(rest) /\ down'[i] = rest[i]
  BY <1>1, <1>5 DEF Grown, Msg, IsDoc, IsAnswer, IsSubscribed
<1>6. ASSUME NEW i \in 1 .. Len(rest), IsDoc(rest[i]) PROVE k <= rest[i].job
  <2>1. i + 1 \in 1 .. Len(down) /\ rest[i] = down[i + 1] /\ 1 < i + 1
    BY DEF Shifted
  <2> QED BY <1>0, <1>6, <2>1 DEF SInv, DocsInTurn
<1>7. NoSubscribed(down')
  BY <1>5, RestFacts DEF NoSubscribed
<1>8. ASSUME NEW j, NoDoc(down, j) PROVE NoDoc(down', j)
  <2>1. NoDoc(rest, j)
    BY <1>8, RestFacts
  <2> QED BY <1>5, <2>1 DEF NoDoc
<1>9. JobsInTurn(aws') /\ Offline'
  BY DEF SInv, Offline
<1>10. Known'
  BY <1>1, <1>5, RestFacts DEF SInv, Known
<1>11. DocsInTurn'
  BY <1>5, <1>6, RestFacts DEF DocsInTurn
<1>12. Asking'
  <2>1. ASSUME NEW i \in 1 .. Len(up), NEW y \in 1 .. Len(up), ~IsUpdate(up[i]), IsUpdate(up[y]),
               y < i
        PROVE  up[y].job \notin subs' /\ NoDoc(down', up[y].job)
    <3>1. up[y].job \notin subs /\ NoDoc(down, up[y].job)
      BY <2>1 DEF SInv, Asking
    <3>2. up[y].job # k
      BY <1>0, <3>1 DEF NoDoc
    <3> QED BY <1>8, <3>1, <3>2
  <2> QED BY <1>7, <2>1 DEF SInv, Asking, NoSubscribed
<1>13. Answered'
  <2> SUFFICES ASSUME NEW i \in 1 .. Len(down'), IsAnswer(down'[i])
               PROVE  /\ NoGet(up)
                      /\ \A l \in 1 .. Len(down') :
                            i < l /\ IsDoc(down'[l]) => down'[l].job # down'[i].job
    BY <1>7 DEF Answered
  <2>1. i \in 1 .. Len(rest) /\ down'[i] = rest[i]
    BY <1>5
  <2> QED BY <1>5, <2>1, RestFacts
<1>14. ~EndSending'
  BY <1>4 DEF EndSending
<1>15. ASSUME NEW j PROVE Final(j)' => Final(j)
  BY <1>14 DEF Final
<1>16. Ended'
  <2>1. \A j \in Jobs : Final(j)' => NoDoc(down', j)
    BY <1>8, <1>15 DEF SInv, Ended
  <2>2. (\E j \in Jobs : EndSent(up', j)) => NoGet(up') /\ NoSubscribed(down')
    BY <1>7 DEF SInv, Ended
  <2>3. ~Final(job_id)'
    BY <1>2, <1>14 DEF Final
  <2>4. \A t \in Threads : sending'[t].state \notin Ends
    BY <1>14 DEF EndSending
  <2> QED BY <1>14, <2>1, <2>2, <2>3, <2>4 DEF Ended
<1>17. status = "active" => k = job_id /\ job_id \in Jobs
  BY <1>0, <1>3 DEF SInv, Ended, IInv, Downloading, AboutJobs
<1>18. FailsInTurn'
  BY <1>0, <1>17 DEF SInv, FailsInTurn, May, NoDoc
<1>19. ImageOfJob'
  <2>1. execution_state = "IN_PROGRESS" /\ fota_state' = "APPLY_UPDATE"
          => k = job_id /\ fota_state = "APPLY_UPDATE"
    BY <1>0, <1>3 DEF SInv, Ended, IInv, AboutJobs
  <2>2. \A t \in Threads : sending'[t].state # "SUCCEEDED"
    BY <1>14 DEF EndSending, Ends
  <2> QED BY <1>17, <2>1, <2>2 DEF SInv, ImageOfJob
<1> QED BY <1>9, <1>10, <1>11, <1>12, <1>13, <1>16, <1>18, <1>19 DEF SInv

LEMMA MqttInputSteady ==
    ASSUME IInv, SInv, Steady, mqtt_input
    PROVE  SInv'
<1> USE DEF jobvars, device, library
<1>0. /\ down \in Seq(ToDevice) /\ sending \in [Threads -> Sending]
      /\ \A i \in 1 .. Len(down) : down[i] \in ToDevice
  BY TypeParts, ElementOfSeq DEF IInv, MessageTypes, DeviceTypes
<1> DEFINE m == down[1]
           rest == RemoveAt(down, 1)
<1>1. /\ connected /\ Free("mqtt") /\ 1 \in 1 .. Len(down) /\ on_publish_evt(m, rest)
      /\ UNCHANGED <<aws, connected, env>>
  <2>1. PICK i \in 1 .. Len(down) :
             (i = 1 \/ May("reorder")) /\ \E left \in Left(i) : on_publish_evt(down[i], left)
    BY DEF mqtt_input
  <2>2. i = 1
    BY <2>1 DEF Steady, May
  <2>3. PICK left \in Left(1) : on_publish_evt(down[1], left)
    BY <2>1, <2>2
  <2>4. left = RemoveAt(down, 1)
    BY <1>0, <2>2, <2>3, LeftFacts DEF Steady, May, IInv
  <2> QED BY <2>2, <2>3, <2>4 DEF mqtt_input
<1>2. Shifted(down, rest) /\ rest \in Seq(ToDevice) /\ m \in ToDevice
  BY <1>0, <1>1, ShiftedRest
<1>3. sending["mqtt"].state = "idle" /\ sending["mqtt"].state \notin Ends
  BY <1>1 DEF Free, ToSend, Ends
<1> HIDE DEF m, rest
<1>4. CASE m.type = "suback" /\ suback(m) /\ down' = rest
  <2>1. CASE IsSubscribed(down[1]) /\ up' = Append(up, Msg("get", NoJob, 0)) /\ sending' = sending
    BY <1>1, <1>2, <1>4, <2>1, SubscribedSteady DEF suback
  <2>2. CASE up' = up /\ (sending' = sending \/ Sends("mqtt", "IN_PROGRESS"))
    <3>2. ASSUME NEW t \in Threads
          PROVE  \/ sending'[t].state = sending[t].state
                 \/ sending[t].state \notin Ends /\ sending'[t].state \notin Ends
      BY <1>0, <1>3, <2>2 DEF Sends, ToSend, Threads, Ends
    <3> QED BY <1>1, <1>2, <1>4, <2>2, <3>2, DropSteady DEF suback
  <2> QED BY <1>4, <2>1, <2>2 DEF suback, IsSubscribed, m
<1>9. CASE Dropped(rest)
  BY <1>1, <1>2, <1>9, DropSteady DEF Dropped
<1>10. ~May("location") /\ update_topic = job_id
  BY DEF IInv, OneJob, Steady, May
<1>5. CASE m.type = "doc" /\ get_job_execution(m, rest) /\ ~Dropped(rest)
  <2>0. m.job # NoJob
    BY <1>5 DEF get_job_execution
  <2>1. IsDoc(down[1])
    BY <1>5, <2>0 DEF IsDoc, m
  <2>2. Msg("suback", m.job, 0) \in ToDevice
    BY <1>2 DEF Msg, ToDevice
  <2>3. Grown(rest, Append(rest, Msg("suback", m.job, 0)), {Msg("suback", m.job, 0)})
    BY <1>2, <2>2, GrownOne
  <2>4. \/ /\ subs' = subs \cup {m.job} /\ fota_state' = "DOWNLOAD_FIRMWARE"
           /\ Grown(rest, down', {Msg("suback", m.job, 0)})
        \/ down' = rest /\ UNCHANGED <<fota_state, subs>>
    BY <1>5, <1>10, <2>3 DEF get_job_execution
  <2>5. job_id' = m.job /\ UNCHANGED <<up, sending, execution_state, library>>
    BY <1>5, <1>10 DEF get_job_execution
  <2> QED BY <1>1, <1>2, <2>1, <2>4, <2>5, DocSteady DEF m
<1>6. CASE m.type = "accepted" /\ m.job = job_id /\ job_update_accepted /\ down' = rest
  <2>0. IsAnswer(down[1]) /\ down[1].job = job_id /\ UNCHANGED <<fota_state, job_id, up, subs>>
    BY <1>6 DEF IsAnswer, m, job_update_accepted
  <2>1. CASE ReadyToDownload
    <3>1. execution_state' = "IN_PROGRESS" /\ fota_download_start /\ sending' = sending
      BY <1>6, <2>1 DEF job_update_accepted, ReadyToDownload, Completed
    <3> QED BY <1>1, <1>2, <1>6, <2>0, <2>1, <3>1, ReadySteady
  <2>2. CASE Completed
    <3>1. execution_state' = "SUCCEEDED" /\ Sends("mqtt", "SUCCEEDED") /\ UNCHANGED library
      BY <1>6, <2>2 DEF job_update_accepted, ReadyToDownload, Completed
    <3> QED BY <1>1, <1>2, <1>6, <2>0, <2>2, <3>1, CompletedSteady
  <2>3. CASE ~ReadyToDownload /\ ~Completed
    <3>1. UNCHANGED <<execution_state, sending, library>>
      BY <1>6, <2>3 DEF job_update_accepted
    <3> QED BY <1>1, <1>2, <1>6, <2>0, <3>1, DropSteady
  <2> QED BY <2>1, <2>2, <2>3
<1>7. CASE job_update_rejected /\ down' = rest
  BY <1>1, <1>2, <1>7, DropSteady DEF job_update_rejected
<1> QED BY <1>1, <1>4, <1>5, <1>6, <1>7, <1>9, <1>10 DEF on_publish_evt

-----------------------------------------------------------------------------
(* Steps of the threads *)

(* A thread moves on with the update it sends. *)
LEMMA WaitSteady ==
    ASSUME IInv, SInv, NEW thread \in Threads, wait_for_update_accepted(thread)
    PROVE  SInv'
<1> USE DEF jobvars, device, library, service
<1>1. /\ UNCHANGED <<device, library, aws, subs, up, down, connected, env>>
      /\ \A t \in Threads : sending'[t].state = sending[t].state
  <2>1. sending \in [Threads -> Sending]
    BY TypeParts DEF IInv, DeviceTypes
  <2> QED BY <2>1 DEF wait_for_update_accepted, Sending
<1>2. EndSending' <=> EndSending
  BY <1>1 DEF EndSending
<1>3. ASSUME NEW j PROVE Final(j)' <=> Final(j)
  BY <1>1, <1>2 DEF Final
<1>4. /\ JobsInTurn(aws)' /\ Known' /\ DocsInTurn' /\ Offline' /\ Asking' /\ Answered'
  BY <1>1 DEF SInv, JobsInTurn, Known, DocsInTurn, Offline, Asking, Answered
<1>5. Ended'
  <2>1. Final(job_id)' <=> Final(job_id)
    BY <1>1, <1>2 DEF Final
  <2>2. \A j \in Jobs : Final(j)' => NoDoc(down', j)
    BY <1>1, <1>3 DEF SInv, Ended
  <2> QED BY <1>1, <1>2, <2>1, <2>2 DEF SInv, Ended
<1>6. FailsInTurn' /\ ImageOfJob'
  BY <1>1 DEF SInv, FailsInTurn, ImageOfJob, May, Threads
<1> QED BY <1>4, <1>5, <1>6 DEF SInv

(* The update is sent, or lost. *)
LEMMA UpdateSteady ==
    ASSUME IInv, SInv, NEW thread \in Threads, update_job_execution(thread)
    PROVE  SInv'
<1> USE DEF library, service
<1> DEFINE m == Msg(sending[thread].state, job_id, execution_version_number)
<1>0. DeviceTypes /\ MessageTypes /\ NoJob \notin Jobs
  BY TypeParts, AwsAssumption DEF IInv
<1>1. UNCHANGED <<execution_state, fota_state, job_id, library, aws, subs, down, connected, env>>
  BY DEF update_job_execution
<1>2. /\ sending'[thread].state = "idle"
      /\ \A t \in Threads : t # thread => sending'[t] = sending[t]
  BY <1>0 DEF DeviceTypes, update_job_execution, Sends, ToSend
<1>3. job_id \in Jobs /\ sending[thread].state \in UpdateStates
  <2>1. ~Free(thread)
    BY DEF update_job_execution, Free, ToSend
  <2> QED BY <1>0, <2>1 DEF IInv, AboutJobs, DeviceTypes, update_job_execution
<1>4. /\ m \in ToService /\ IsUpdate(m) /\ m.job = job_id /\ m.type = sending[thread].state
  BY <1>0, <1>3 DEF ToService, Msg, IsUpdate, DeviceTypes, UpdateStates
<1>5. Grown(up, up', {m}) /\ (connected \/ up' = up)
  <2>1. (connected /\ up' = Append(up, m)) \/ up' = up
    BY DEF update_job_execution
  <2>2. up \in Seq(ToService)
    BY <1>0 DEF MessageTypes
  <2> HIDE DEF m
  <2> QED BY <1>4, <2>1, <2>2, GrownOne, GrownNone
<1> HIDE DEF m
<1>6. ASSUME NEW i \in 1 .. Len(up')
      PROVE  \/ i \in 1 .. Len(up) /\ up'[i] = up[i]
             \/ i > Len(up) /\ up'[i] = m
  BY <1>5 DEF Grown
<1>7. ASSUME NEW i \in 1 .. Len(up'), ~IsUpdate(up'[i]) PROVE i \in 1 .. Len(up) /\ up'[i] = up[i]
  BY <1>4, <1>6, <1>7
<1>8. NoGet(up) => NoGet(up')
  BY <1>4, <1>6 DEF NoGet
<1>9. Len(up) \in Nat
  BY <1>5 DEF Grown
<1>10. JobsInTurn(aws') /\ Offline' /\ DocsInTurn'
  BY <1>1, <1>5 DEF SInv, Offline, DocsInTurn
<1>11. Known'
  <2>1. Reached(aws, job_id)
    BY <1>0, <1>3 DEF SInv, Known
  <2>2. \A i \in 1 .. Len(up') : IsUpdate(up'[i]) => Reached(aws, up'[i].job)
    BY <1>4, <1>6, <2>1 DEF SInv, Known
  <2> QED BY <1>1, <2>2 DEF SInv, Known
<1>12. Asking'
  <2>1. ASSUME NEW i \in 1 .. Len(down), IsSubscribed(down[i])
        PROVE  /\ i = 1 /\ subs = {NoJob} /\ NoGet(up') /\ NoDoc(down, job_id)
               /\ \A k \in 1 .. Len(up') : NoDoc(down, up'[k].job)
    BY <1>4, <1>6, <1>8, <2>1 DEF SInv, Asking
  <2>2. ASSUME NEW i \in 1 .. Len(up'), NEW k \in 1 .. Len(up'), ~IsUpdate(up'[i]),
               ~IsUpdate(up'[k])
        PROVE  i = k
    BY <1>7, <2>2 DEF SInv, Asking
  <2>3. ASSUME NEW i \in 1 .. Len(up'), NEW k \in 1 .. Len(up'), ~IsUpdate(up'[i]),
               IsUpdate(up'[k]), k < i
        PROVE  up'[k].job \notin subs /\ NoDoc(down, up'[k].job)
    <3>1. i \in 1 .. Len(up) /\ up'[i] = up[i]
      BY <1>7, <2>3
    <3>2. k \in 1 .. Len(up) /\ up'[k] = up[k]
      BY <1>6, <1>9, <2>3, <3>1
    <3> QED BY <2>3, <3>1, <3>2 DEF SInv, Asking
  <2> QED BY <1>1, <2>1, <2>2, <2>3 DEF Asking
<1>13. Answered'
  BY <1>1, <1>8 DEF SInv, Answered
<1>14. ASSUME NEW j, EndSent(up', j)
       PROVE  EndSent(up, j) \/ (j = job_id /\ sending[thread].state \in Ends)
  BY <1>4, <1>6, <1>14 DEF EndSent
<1>15. EndSending' => EndSending
  BY <1>2 DEF EndSending, Ends
<1>16. ASSUME NEW j, Final(j)' PROVE Final(j)
  BY <1>1, <1>14, <1>15, <1>16 DEF Final, EndSending
<1>17. Ended'
  <2>1. \A j \in Jobs : Final(j)' => NoDoc(down', j)
    BY <1>1, <1>16 DEF SInv, Ended
  <2>2. (\E j \in Jobs : EndSent(up', j)) \/ EndSending' => NoGet(up') /\ NoSubscribed(down')
    BY <1>1, <1>8, <1>14, <1>15 DEF SInv, Ended, EndSending
  <2>3. Final(job_id)' => Final(job_id)
    BY <1>1, <1>14, <1>15 DEF Final, EndSending
  <2>4. ASSUME NEW t \in Threads, sending'[t].state \in Ends
        PROVE  /\ ~Closed(aws', job_id') /\ ~EndSent(up', job_id')
               /\ \A u \in Threads : sending'[u].state \in Ends => u = t
    <3>1. t # thread /\ sending[t].state \in Ends
      BY <1>2, <2>4 DEF Ends
    <3>2. sending[thread].state \notin Ends
      BY <3>1 DEF SInv, Ended
    <3>3. ~Closed(aws, job_id) /\ ~EndSent(up, job_id)
      BY <3>1 DEF SInv, Ended
    <3>4. ~EndSent(up', job_id)
      BY <1>14, <3>2, <3>3
    <3>5. \A u \in Threads : sending'[u].state \in Ends => u = t
      <4>1. \A u \in Threads : sending'[u].state \in Ends => sending[u].state \in Ends
        BY <1>2 DEF Ends
      <4> QED BY <3>1, <4>1 DEF SInv, Ended
    <3> QED BY <1>1, <3>3, <3>4, <3>5
  <2> QED BY <1>1, <2>1, <2>2, <2>3, <2>4 DEF SInv, Ended
<1>18. FailsInTurn'
  BY <1>1, <1>2, <1>8 DEF SInv, FailsInTurn, May, Threads, Ends
<1>19. ImageOfJob'
  <2>1. \A i \in 1 .. Len(up') : up'[i].type = "SUCCEEDED" => up'[i].job \in fetched
    BY <1>4, <1>6 DEF SInv, ImageOfJob
  <2>2. \A t \in Threads : sending'[t].state = "SUCCEEDED" => job_id \in fetched
    BY <1>2 DEF SInv, ImageOfJob
  <2> QED BY <1>1, <2>1, <2>2 DEF SInv, ImageOfJob
<1> QED BY <1>10, <1>11, <1>12, <1>13, <1>17, <1>18, <1>19 DEF SInv

(* The end of a job under download is not on its way. *)
LEMMA ActiveFacts ==
    ASSUME IInv, SInv, status = "active"
    PROVE  /\ job_id \in Jobs /\ want = job_id
           /\ ~Closed(aws, job_id) /\ ~EndSent(up, job_id) /\ ~EndSending
           /\ \A t \in Threads : sending[t].state \notin Ends
<1>1. fota_state = "DOWNLOAD_FIRMWARE" /\ want = job_id /\ job_id \in Jobs
  BY DEF IInv, Downloading, AboutJobs, TypeOK, SInv, ImageOfJob
<1>2. ~Final(job_id)
  BY <1>1 DEF SInv, Ended
<1> QED BY <1>1, <1>2 DEF Final, EndSending

LEMMA FinishedSteady ==
    ASSUME IInv, SInv, DownloadFinished
    PROVE  SInv'
<1> USE DEF service
<1>0. /\ UNCHANGED <<job_id, want, aws, subs, up, down, connected, env, execution_state>>
      /\ fota_state' = "APPLY_UPDATE" /\ status = "active" /\ status' = "finished"
      /\ fetched' = fetched \cup {want}
  BY DEF DownloadFinished, Finished, jobvars
<1>1. /\ job_id \in Jobs /\ want = job_id
      /\ ~Closed(aws, job_id) /\ ~EndSent(up, job_id) /\ ~EndSending
  BY <1>0, ActiveFacts
<1>2. \A t \in Threads : sending'[t].state \notin Ends
  <2>1. sending \in [Threads -> Sending]
    BY TypeParts DEF IInv, DeviceTypes
  <2> QED BY <1>1, <2>1 DEF DownloadFinished, Sends, ToSend, Threads, EndSending, Ends
<1>3. ~EndSending'
  BY <1>2 DEF EndSending
<1>4. JobsInTurn(aws)' /\ Known' /\ DocsInTurn' /\ Offline' /\ Asking' /\ Answered'
  BY <1>0 DEF SInv, JobsInTurn, Known, DocsInTurn, Offline, Asking, Answered
<1>5. Ended'
  <2>1. ASSUME NEW j \in Jobs, Final(j)' PROVE NoDoc(down', j)
    <3>1. Final(j)
      BY <1>0, <1>3, <2>1 DEF Final
    <3> QED BY <1>0, <3>1 DEF SInv, Ended
  <2>2. ~Final(job_id)'
    BY <1>0, <1>1, <1>3 DEF Final
  <2> QED BY <1>0, <1>2, <1>3, <2>1, <2>2 DEF SInv, Ended
<1>6. FailsInTurn'
  BY <1>0, <1>2 DEF SInv, FailsInTurn, May, Threads
<1>7. ImageOfJob'
  BY <1>0, <1>1, <1>2 DEF SInv, ImageOfJob, Ends
<1> QED BY <1>4, <1>5, <1>6, <1>7 DEF SInv

LEMMA FailedSteady ==
    ASSUME IInv, SInv, DownloadFailed
    PROVE  SInv'
<1> USE DEF service
<1>0. /\ UNCHANGED <<job_id, want, fetched, aws, subs, up, down, connected, env>>
      /\ execution_state' = "QUEUED" /\ fota_state' = "NONE" /\ May("download")
      /\ status = "active" /\ status' = "error"
  BY DEF DownloadFailed, Failed, jobvars
<1>1. /\ job_id \in Jobs /\ want = job_id
      /\ ~Closed(aws, job_id) /\ ~EndSent(up, job_id) /\ ~EndSending
  BY <1>0, ActiveFacts
<1>2. NoGet(up) /\ NoSubscribed(down) /\ NoDoc(down, job_id)
  BY <1>0 DEF SInv, FailsInTurn
<1>3. /\ sending'["http"].state = "FAILED" /\ sending'["mqtt"].state \notin Ends
  <2>1. sending \in [Threads -> Sending]
    BY TypeParts DEF IInv, DeviceTypes
  <2> QED BY <1>1, <2>1 DEF DownloadFailed, Sends, ToSend, Threads, EndSending
<1>4. JobsInTurn(aws)' /\ Known' /\ DocsInTurn' /\ Offline' /\ Asking' /\ Answered'
  BY <1>0 DEF SInv, JobsInTurn, Known, DocsInTurn, Offline, Asking, Answered
<1>5. Ended'
  <2>1. ASSUME NEW j \in Jobs, Final(j)' PROVE NoDoc(down', j)
    <3>1. Final(j) \/ j = job_id
      BY <1>0, <2>1 DEF Final
    <3> QED BY <1>0, <1>2, <3>1 DEF SInv, Ended
  <2>2. ASSUME NEW t \in Threads, sending'[t].state \in Ends
        PROVE  \A u \in Threads : sending'[u].state \in Ends => u = t
    BY <1>3, <2>2 DEF Threads
  <2> QED BY <1>0, <1>1, <1>2, <2>1, <2>2 DEF Ended
<1>6. FailsInTurn'
  BY <1>0 DEF SInv, FailsInTurn, May
<1>7. ImageOfJob'
  <2>1. \A t \in Threads : sending'[t].state # "SUCCEEDED"
    BY <1>3 DEF Threads, Ends
  <2> QED BY <1>0, <2>1 DEF SInv, ImageOfJob
<1> QED BY <1>4, <1>5, <1>6, <1>7 DEF SInv

-----------------------------------------------------------------------------
(* Connection and power *)

(* Nothing is on its way when there is no connection. *)
LEMMA SilentFacts ==
    ASSUME NEW s, s = <<>>
    PROVE  /\ NoGet(s) /\ NoSubscribed(s)
           /\ \A j : NoDoc(s, j) /\ ~EndSent(s, j)
           /\ Len(s) = 0 /\ \A i \in 1 .. Len(s) : FALSE
BY DEF NoGet, NoSubscribed, NoDoc, EndSent

LEMMA DisconnectSteady ==
    ASSUME IInv, SInv, Steady, Disconnect
    PROVE  SInv'
<1> USE DEF library
<1>0. /\ UNCHANGED <<device, sending, library, aws, env>>
      /\ connected' = FALSE /\ up' = <<>> /\ down' = <<>> /\ subs' = {}
      /\ ~May("download")
  BY DEF Disconnect, Lost, Steady, May
<1> USE DEF jobvars, device
<1>1. /\ NoGet(up') /\ NoSubscribed(down')
      /\ \A j : NoDoc(down', j) /\ ~EndSent(up', j)
      /\ \A i \in 1 .. Len(up') : FALSE
      /\ \A i \in 1 .. Len(down') : FALSE
  BY <1>0, SilentFacts
<1>2. JobsInTurn(aws)' /\ Known' /\ DocsInTurn' /\ Offline' /\ Asking' /\ Answered'
  BY <1>0, <1>1 DEF SInv, JobsInTurn, Known, DocsInTurn, Offline, Asking, Answered
<1>3. EndSending' <=> EndSending
  BY <1>0 DEF EndSending
<1>4. Ended'
  <2>1. Final(job_id)' => Final(job_id)
    BY <1>0, <1>1, <1>3 DEF Final
  <2> QED BY <1>0, <1>1, <2>1 DEF SInv, Ended
<1>5. FailsInTurn' /\ ImageOfJob'
  BY <1>0, <1>1 DEF SInv, FailsInTurn, ImageOfJob, May
<1> QED BY <1>2, <1>4, <1>5 DEF SInv

LEMMA RebootSteady ==
    ASSUME IInv, SInv, Steady, Reboot
    PROVE  SInv'
<1>0. /\ UNCHANGED <<want, fetched, aws, env>>
      /\ connected' = FALSE /\ up' = <<>> /\ down' = <<>> /\ subs' = {}
      /\ job_id' = NoJob /\ execution_state' = "QUEUED" /\ fota_state' = "NONE" /\ status' = "idle"
      /\ \A t \in Threads : sending'[t].state = "idle"
  BY DEF Reboot, Lost, Steady, May, ToSend
<1>1. /\ NoGet(up') /\ NoSubscribed(down')
      /\ \A j : NoDoc(down', j) /\ ~EndSent(up', j)
      /\ \A i \in 1 .. Len(up') : FALSE
      /\ \A i \in 1 .. Len(down') : FALSE
  BY <1>0, SilentFacts
<1>2. JobsInTurn(aws)' /\ Known' /\ DocsInTurn' /\ Offline' /\ Asking' /\ Answered'
  BY <1>0, <1>1 DEF SInv, JobsInTurn, Known, DocsInTurn, Offline, Asking, Answered
<1>3. ~EndSending' /\ \A t \in Threads : sending'[t].state \notin Ends
  BY <1>0 DEF EndSending, Ends
<1>4. Ended'
  BY <1>0, <1>1, <1>3 DEF Ended
<1>5. FailsInTurn'
  BY <1>0, <1>3 DEF FailsInTurn, Threads
<1>6. ImageOfJob'
  BY <1>0, <1>1 DEF SInv, ImageOfJob
<1> QED BY <1>2, <1>4, <1>5, <1>6 DEF SInv

(* A connection begins with the subscription to notify-next. *)
LEMMA ConnackSteady ==
    ASSUME IInv, SInv, Steady, connack
    PROVE  SInv'
<1> USE DEF jobvars, device, library
<1>0. /\ UNCHANGED <<device, sending, library, aws, up, env>>
      /\ ~connected /\ connected' = TRUE /\ up = <<>> /\ Free("mqtt")
      /\ (subs' = {NoJob} /\ down' = <<Msg("suback", NoJob, 0)>>) \/ (subs' = {} /\ down' = <<>>)
  BY DEF connack, Steady, May, SInv, Offline
<1>1. /\ NoGet(up) /\ \A j : ~EndSent(up, j)
      /\ \A i \in 1 .. Len(up) : FALSE
  BY <1>0, SilentFacts
<1>2. \A i \in 1 .. Len(down') : i = 1 /\ down'[i] = Msg("suback", NoJob, 0) /\ subs' = {NoJob}
  <2>1. CASE down' = <<>>
    BY <2>1, SilentFacts
  <2>2. CASE subs' = {NoJob} /\ down' = <<Msg("suback", NoJob, 0)>>
    BY <2>2
  <2> QED BY <1>0, <2>1, <2>2
<1>3. /\ \A i \in 1 .. Len(down') : ~IsDoc(down'[i]) /\ ~IsAnswer(down'[i])
      /\ \A j : NoDoc(down', j)
  BY <1>2 DEF Msg, IsDoc, IsAnswer, NoDoc
<1>4. \A t \in Threads : sending[t].state \notin Ends
  <2>1. sending["mqtt"].state \notin Ends
    BY <1>0 DEF Free, ToSend, Ends
  <2>2. ASSUME sending["http"].state \in Ends PROVE FALSE
    <3>1. job_id = NoJob
      BY <1>0, <2>2 DEF SInv, FailsInTurn
    <3>2. Free("http")
      BY <3>1 DEF IInv, AboutJobs, Threads
    <3> QED BY <2>2, <3>2 DEF Free, ToSend, Ends
  <2> QED BY <2>1, <2>2 DEF Threads
<1>5. ~EndSending /\ ~EndSending'
  BY <1>0, <1>4 DEF EndSending
<1>6. JobsInTurn(aws)' /\ Known' /\ DocsInTurn' /\ Offline' /\ Asking' /\ Answered'
  BY <1>0, <1>1, <1>2, <1>3 DEF SInv, JobsInTurn, Known, DocsInTurn, Offline, Asking, Answered
<1>7. Ended'
  <2>1. Final(job_id)' => Final(job_id)
    BY <1>0, <1>5 DEF Final
  <2> QED BY <1>0, <1>1, <1>3, <1>4, <1>5, <2>1 DEF SInv, Ended
<1>8. FailsInTurn'
  <2>1. May("download") => status # "active"
    BY <1>0 DEF SInv, FailsInTurn, IInv, AboutJobs
  <2> QED BY <1>0, <1>4, <2>1 DEF FailsInTurn, May, Threads
<1>9. ImageOfJob'
  BY <1>0 DEF SInv, ImageOfJob
<1> QED BY <1>6, <1>7, <1>8, <1>9 DEF SInv

-----------------------------------------------------------------------------
LEMMA SteadyInit == Init => SInv
<1> SUFFICES ASSUME Init PROVE SInv
  OBVIOUS
<1>0. /\ aws = [j \in Jobs |-> [status |-> "NONE", ver |-> 0]]
      /\ up = <<>> /\ down = <<>> /\ subs = {}
      /\ job_id = NoJob /\ execution_state = "QUEUED" /\ fota_state = "NONE" /\ status = "idle"
      /\ \A t \in Threads : sending[t].state = "idle"
  BY DEF Init, ToSend
<1>1. /\ NoGet(up) /\ NoSubscribed(down)
      /\ \A j : NoDoc(down, j) /\ ~EndSent(up, j)
      /\ \A i \in 1 .. Len(up) : FALSE
      /\ \A i \in 1 .. Len(down) : FALSE
  BY <1>0, SilentFacts
<1>2. \A j \in Jobs : aws[j].status = "NONE"
  BY <1>0
<1>3. ~EndSending /\ \A t \in Threads : sending[t].state \notin Ends
  BY <1>0 DEF EndSending, Ends
<1>4. JobsInTurn(aws) /\ Known /\ DocsInTurn /\ Offline /\ Asking /\ Answered
  BY <1>0, <1>1, <1>2 DEF JobsInTurn, Known, DocsInTurn, Offline, Asking, Answered
<1>5. Ended
  BY <1>0, <1>1, <1>3 DEF Ended
<1>6. FailsInTurn
  BY <1>0, <1>3 DEF FailsInTurn, Threads
<1>7. ImageOfJob
  BY <1>0, <1>1, <1>2 DEF ImageOfJob
<1> QED BY <1>4, <1>5, <1>6, <1>7 DEF SInv

LEMMA StutterSteady ==
    ASSUME SInv, UNCHANGED vars
    PROVE  SInv'
<1> USE DEF vars, jobvars, device, library, service
<1>1. JobsInTurn(aws)' /\ Known' /\ DocsInTurn' /\ Offline' /\ Asking' /\ Answered'
  BY DEF SInv, JobsInTurn, Known, DocsInTurn, Offline, Asking, Answered
<1>2. EndSending' <=> EndSending
  BY DEF EndSending
<1>3. Ended'
  <2>1. Final(job_id)' <=> Final(job_id)
    BY <1>2 DEF Final
  <2>2. ASSUME NEW j \in Jobs, Final(j)' PROVE NoDoc(down', j)
    BY <1>2, <2>2 DEF Final, SInv, Ended
  <2> QED BY <1>2, <2>1, <2>2 DEF SInv, Ended
<1>4. FailsInTurn' /\ ImageOfJob'
  BY DEF SInv, FailsInTurn, ImageOfJob, May
<1> QED BY <1>1, <1>3, <1>4 DEF SInv

LEMMA SteadyNext == IInv /\ IInv' /\ (Steady => SInv) /\ [Next]_vars => (Steady => SInv)'
<1> SUFFICES ASSUME IInv, IInv', Steady => SInv, [Next]_vars, Steady' PROVE SInv'
  OBVIOUS
<1>1. env' = env
  BY DEF Next, vars, CreateJob, CancelJob, Service, connack, mqtt_input, Library,
     DownloadFinished,
         DownloadFailed, wait_for_update_accepted, update_job_execution, Disconnect, Reboot, Lost
<1>2. Steady /\ SInv
  BY <1>1 DEF Steady
<1>3. ASSUME NEW t \in Threads, wait_for_update_accepted(t) \/ update_job_execution(t)
      PROVE  SInv'
  BY <1>2, <1>3, WaitSteady, UpdateSteady
<1>4. ~CancelJob
  BY <1>2 DEF CancelJob, Steady, May
<1> QED BY <1>2, <1>3, <1>4, CreateJobSteady, GetSteady, AnswerSteady, ConnackSteady,
           MqttInputSteady,
           FinishedSteady, FailedSteady, DisconnectSteady, RebootSteady, StutterSteady
        DEF Next, Library

LEMMA SteadyHolds == Spec => [](Steady => SInv)
<1>1. Init => (Steady => SInv)
  BY SteadyInit
<1> QED BY <1>1, SteadyNext, InvHolds, PTL DEF Spec

(* A job is reported SUCCEEDED only when its own image was downloaded:     *)
(* through restarts, failed downloads or lost connections, with the        *)
(* threads preempted anywhere, jobs created at any time, calls that fail   *)
(* and payloads that cannot be read, as long as messages are delivered     *)
(* once and documents say where the image is.                              *)
THEOREM SuccessHasImage ==
    Spec => [](env \cap {"location", "duplicate"} = {} => ImageBehindSuccess)
<1>1. (Steady => SInv) => (env \cap {"location", "duplicate"} = {} => ImageBehindSuccess)
  BY DEF Steady, SInv, ImageOfJob, ImageBehindSuccess
<1> QED BY <1>1, SteadyHolds, PTL

-----------------------------------------------------------------------------
(* One thing at a time *)

(* Where DoneIsReported is claimed, and documents say where the image is. *)
Calm == env \subseteq {"download", "reboot", "preempt", "payload", "publish", "subscribe", "start"}

(* A document of a job, or the SUBACK of its update topic: both lead to    *)
(* the first update of the job.                                            *)
IsCue(m) == m.type \in {"doc", "suback"} /\ m.job # NoJob

NoCue(s) == \A i \in 1 .. Len(s) : ~IsCue(s[i])

OneCue(s) == \A i, k \in 1 .. Len(s) : IsCue(s[i]) /\ IsCue(s[k]) => i = k

(* On a connection that is never lost and with jobs that are created when  *)
(* nothing is on its way, an update to be sent, an update, its answer, a   *)
(* cue and a download exclude each other; only the next document may       *)
(* follow an answer.                                                       *)
Exclusive ==
    /\ \A t \in Threads : ~Free(t) =>
          /\ NoUpdate(up)
          /\ NoAnswer(down)
          /\ NoCue(down)
          /\ status # "active"
          /\ ~Closed(aws, job_id)
          /\ \A u \in Threads : ~Free(u) => u = t
    /\ ~NoUpdate(up) => NoAnswer(down) /\ NoCue(down) /\ status # "active" /\ OneUpdate(up)
    /\ ~NoAnswer(down) => status # "active" /\ OneAnswer(down)
    /\ \A i, k \in 1 .. Len(down) : IsAnswer(down[i]) /\ IsCue(down[k]) => IsDoc(down[k]) /\ i < k
    /\ ~NoCue(down) => status # "active" /\ OneCue(down)

(* No job is known before the first one was asked for and the service has  *)
(* answered.                                                               *)
Introduced ==
    ~(connected /\ NoGet(up) /\ NoSubscribed(down)) =>
        job_id = NoJob /\ NoUpdate(up) /\ NoAnswer(down) /\ NoCue(down)

Succeeded(a, j) == j \in Jobs /\ a[j].status = "SUCCEEDED"

(* The device holds its job for successful when the service does, or       *)
(* before the answer to the update that says so.                           *)
NotYetReported ==
    /\ execution_state = "SUCCEEDED" /\ fota_state = "APPLY_UPDATE" =>
          \/ Succeeded(aws, job_id)
          \/ /\ \A i \in 1 .. Len(down) : down[i].type # "accepted"
             /\ \A i \in 1 .. Len(up) :
                   up[i].type = "get" \/ (up[i].type = "SUCCEEDED" /\ up[i].job = job_id)
             /\ \A t \in Threads : sending[t].state \in {"idle", "SUCCEEDED"}
    /\ done # NoJob => Succeeded(aws, done)

CInv == Exclusive /\ Introduced /\ NotYetReported

-----------------------------------------------------------------------------
(* At most one message was added at the end. *)
Added(s, t, e) ==
    /\ Len(s) \in Nat /\ Len(t) \in Nat
    /\ \A i \in 1 .. Len(t) : (i \in 1 .. Len(s) /\ t[i] = s[i]) \/ (i = Len(s) + 1 /\ t[i] = e)

LEMMA AddedFacts ==
    ASSUME NEW X, NEW s \in Seq(X), NEW e \in X
    PROVE  /\ s \o <<e>> \in Seq(X) /\ Added(s, s \o <<e>>, e)
           /\ s \o <<>> = s /\ Added(s, s, e)
           /\ Append(s, e) \in Seq(X) /\ Added(s, Append(s, e), e)
<1>1. s \o <<e>> = Append(s, e) /\ s \o <<>> = s
  OBVIOUS
<1>2. /\ Append(s, e) \in Seq(X)
      /\ Len(Append(s, e)) = Len(s) + 1 /\ Len(s) \in Nat
      /\ \A i \in 1 .. Len(s) : Append(s, e)[i] = s[i]
      /\ Append(s, e)[Len(s) + 1] = e
  BY AppendProperties, LenProperties
<1>3. Added(s, Append(s, e), e) /\ Added(s, s, e)
  BY <1>2 DEF Added
<1> QED BY <1>1, <1>2, <1>3

LEMMA AddedMessages ==
    ASSUME NEW s, NEW t, NEW e, Added(s, t, e)
    PROVE  /\ NoUpdate(s) => OneUpdate(t)
           /\ NoUpdate(s) /\ ~IsUpdate(e) => NoUpdate(t)
           /\ NoGet(s) /\ IsUpdate(e) => NoGet(t)
           /\ NoAnswer(s) => OneAnswer(t)
           /\ NoAnswer(s) /\ ~IsAnswer(e) => NoAnswer(t)
           /\ OneAnswer(s) /\ ~IsAnswer(e) => OneAnswer(t)
           /\ NoCue(s) => OneCue(t)
           /\ NoCue(s) /\ ~IsCue(e) => NoCue(t)
           /\ NoSubscribed(s) /\ ~IsSubscribed(e) => NoSubscribed(t)
BY DEF Added, NoUpdate, OneUpdate, NoGet, NoAnswer, OneAnswer, NoCue, OneCue, NoSubscribed

LEMMA ShiftedMessages ==
    ASSUME NEW s, NEW t, Shifted(s, t)
    PROVE  /\ NoUpdate(s) => NoUpdate(t)
           /\ OneUpdate(s) => OneUpdate(t)
           /\ OneUpdate(s) /\ IsUpdate(s[1]) => NoUpdate(t)
           /\ NoGet(s) => NoGet(t)
           /\ NoAnswer(s) => NoAnswer(t)
           /\ OneAnswer(s) => OneAnswer(t)
           /\ OneAnswer(s) /\ IsAnswer(s[1]) => NoAnswer(t)
           /\ NoCue(s) => NoCue(t)
           /\ OneCue(s) => OneCue(t)
           /\ OneCue(s) /\ IsCue(s[1]) => NoCue(t)
           /\ NoSubscribed(s) => NoSubscribed(t)
<1>1. /\ \A i \in 1 .. Len(t) : i + 1 \in 1 .. Len(s) /\ t[i] = s[i + 1] /\ i + 1 # 1
      /\ 1 \in 1 .. Len(s)
      /\ \A i, k \in 1 .. Len(t) : i + 1 = k + 1 => i = k
  BY DEF Shifted
<1>2. /\ NoUpdate(s) => NoUpdate(t)
      /\ OneUpdate(s) => OneUpdate(t)
      /\ OneUpdate(s) /\ IsUpdate(s[1]) => NoUpdate(t)
      /\ NoGet(s) => NoGet(t)
  BY <1>1 DEF NoUpdate, OneUpdate, NoGet
<1>3. /\ NoAnswer(s) => NoAnswer(t)
      /\ OneAnswer(s) => OneAnswer(t)
      /\ OneAnswer(s) /\ IsAnswer(s[1]) => NoAnswer(t)
  BY <1>1 DEF NoAnswer, OneAnswer
<1>4. /\ NoCue(s) => NoCue(t)
      /\ OneCue(s) => OneCue(t)
      /\ OneCue(s) /\ IsCue(s[1]) => NoCue(t)
  BY <1>1 DEF NoCue, OneCue
<1> QED BY <1>1, <1>2, <1>3, <1>4 DEF NoSubscribed

(* A device that knows no job does nothing. *)
LEMMA UnknownFacts ==
    ASSUME IInv, job_id = NoJob
    PROVE  (\A t \in Threads : Free(t)) /\ status # "active" /\ fota_state = "NONE"
BY DEF IInv, AboutJobs

(* The job under way is the next one of the service, before and after a    *)
(* change that leaves it open, so that nothing is announced.               *)
LEMMA NothingNew ==
    ASSUME IInv, SInv, SInv', job_id \in Jobs, job_id' = job_id,
           ~Closed(aws, job_id), ~Closed(aws', job_id)
    PROVE  Notice(aws, aws') = <<>>
<1>1. Reached(aws, job_id) /\ Reached(aws', job_id)
  BY AwsAssumption DEF SInv, Known
<1>2. Open(aws, job_id) /\ Open(aws', job_id)
  BY <1>1 DEF Reached, Closed, Open
<1>3. NextJob(aws) = job_id /\ NextJob(aws') = job_id
  BY <1>1, <1>2, ReachedIsNext DEF SInv
<1> QED BY <1>3 DEF Notice

-----------------------------------------------------------------------------
LEMMA CreateJobCalm ==
    ASSUME IInv, SInv, SInv', Calm, CInv, CreateJob
    PROVE  CInv'
<1> USE DEF jobvars, device, library
<1>0. aws \in [Jobs -> Executions] /\ down \in Seq(ToDevice) /\ job_id \in Jobs \cup {NoJob}
  BY TypeParts DEF IInv, ServiceTypes, MessageTypes, DeviceTypes
<1>1. /\ UNCHANGED <<device, sending, done, library, subs, up, connected>>
      /\ up = <<>> /\ down = <<>> /\ down' = down \o Notice(aws, aws')
  BY DEF CreateJob, Calm, May
<1>2. PICK j \in Jobs : /\ aws[j].status = "NONE"
                        /\ aws' = [aws EXCEPT ![j] = [status |-> "QUEUED", ver |-> 1]]
  BY DEF CreateJob
<1>3. aws' \in [Jobs -> Executions]
  BY <1>0, <1>2 DEF Executions, ServiceStates, Active
<1>4. ASSUME NEW k \in Jobs PROVE /\ ~Closed(aws, k) => ~Closed(aws', k)
                                  /\ aws[k].status = "SUCCEEDED" => aws'[k].status = "SUCCEEDED"
  BY <1>0, <1>2 DEF Closed, Executions, Active
<1>5. Doc(aws') \in ToDevice /\ Doc(aws').type = "doc"
  BY <1>3, DocType DEF Doc, Msg
<1>6. Added(down, down', Doc(aws')) /\ (Notice(aws, aws') = <<>> => down' = down)
  <2>1. Notice(aws, aws') = <<>> \/ Notice(aws, aws') = <<Doc(aws')>>
    BY DEF Notice
  <2> QED BY <1>0, <1>1, <1>5, <2>1, AddedFacts
<1>7. NoUpdate(up) /\ NoGet(up) /\ NoAnswer(down) /\ NoCue(down) /\ NoSubscribed(down)
  BY <1>1 DEF NoUpdate, NoGet, NoAnswer, NoCue, NoSubscribed
<1>8. NoAnswer(down') /\ OneCue(down') /\ NoSubscribed(down')
  BY <1>5, <1>6, <1>7, AddedMessages DEF IsAnswer, IsSubscribed
<1>9. ASSUME job_id \in Jobs, ~Closed(aws, job_id) PROVE NoCue(down')
  <2>1. Notice(aws, aws') = <<>>
    BY <1>1, <1>4, <1>9, NothingNew
  <2> QED BY <1>6, <1>7, <2>1
<1>10. Exclusive'
  <2>1. ASSUME NEW t \in Threads, ~Free(t)
        PROVE  /\ NoCue(down') /\ status # "active" /\ ~Closed(aws', job_id)
               /\ \A u \in Threads : ~Free(u) => u = t
    <3>1. job_id \in Jobs
      BY <1>0, <2>1, UnknownFacts
    <3> QED BY <1>4, <1>9, <2>1, <3>1 DEF CInv, Exclusive
  <2>2. status = "active" => NoCue(down')
    BY <1>9, ActiveFacts
  <2>3. \A t \in Threads : Free(t)' <=> Free(t)
    BY <1>1 DEF Free
  <2> QED BY <1>1, <1>7, <1>8, <2>1, <2>2, <2>3 DEF Exclusive, NoAnswer
<1>11. Introduced'
  <2>1. CASE connected
    BY <1>1, <1>7, <1>8, <2>1 DEF Introduced
  <2>2. CASE ~connected
    <3>1. Notice(aws, aws') = <<>>
      BY <2>2 DEF SInv, Offline, Notice
    <3> QED BY <1>1, <1>6, <2>2, <3>1 DEF CInv, Introduced
  <2> QED BY <2>1, <2>2
<1>12. NotYetReported'
  <2>1. \A k : Succeeded(aws, k) => Succeeded(aws', k)
    BY <1>4 DEF Succeeded
  <2>2. \A i \in 1 .. Len(down') : down'[i].type # "accepted"
    BY <1>8 DEF NoAnswer, IsAnswer
  <2> QED BY <1>1, <2>1, <2>2 DEF CInv, NotYetReported
<1> QED BY <1>10, <1>11, <1>12 DEF CInv

(* The first job is asked for. *)
LEMMA GetCalm ==
    ASSUME IInv, SInv, CInv, Service, Head(up).type = "get"
    PROVE  CInv'
<1> USE DEF jobvars, device, library
<1>0. aws \in [Jobs -> Executions] /\ up \in Seq(ToService) /\ down \in Seq(ToDevice)
  BY TypeParts DEF IInv, ServiceTypes, MessageTypes
<1>1. /\ UNCHANGED <<device, sending, done, library, subs, connected, aws>>
      /\ up # <<>> /\ up' = Tail(up) /\ down' \in {down, Append(down, Doc(aws))}
  BY DEF Service, ServiceGets
<1>2. Shifted(up, up') /\ up[1].type = "get" /\ 1 \in 1 .. Len(up) /\ ~IsUpdate(up[1])
  BY <1>0, <1>1, ShiftedTail DEF Shifted, IsUpdate
<1>3. ~NoGet(up) /\ NoSubscribed(down) /\ connected
  BY <1>1, <1>2 DEF NoGet, NoSubscribed, SInv, Asking, Offline
<1>4. job_id = NoJob /\ NoUpdate(up) /\ NoAnswer(down) /\ NoCue(down)
  BY <1>3 DEF CInv, Introduced
<1>5. (\A t \in Threads : Free(t)) /\ status # "active" /\ fota_state = "NONE"
  BY <1>4, UnknownFacts
<1>6. NoUpdate(up') /\ NoGet(up')
  <2>1. NoUpdate(up')
    BY <1>2, <1>4, ShiftedMessages
  <2>2. ASSUME NEW i \in 1 .. Len(up') PROVE FALSE
    <3>1. i + 1 \in 1 .. Len(up) /\ i + 1 # 1
      BY <1>2 DEF Shifted
    <3>2. ~IsUpdate(up[i + 1])
      BY <1>4, <3>1 DEF NoUpdate
    <3> QED BY <1>2, <3>1, <3>2 DEF SInv, Asking
  <2> QED BY <2>1, <2>2 DEF NoGet
<1>7. Doc(aws) \in ToDevice /\ Doc(aws).type = "doc"
  BY <1>0, DocType DEF Doc, Msg
<1>8. NoAnswer(down') /\ OneCue(down') /\ NoSubscribed(down')
  <2>1. Added(down, down', Doc(aws))
    BY <1>0, <1>1, <1>7, AddedFacts
  <2> QED BY <1>3, <1>4, <1>7, <2>1, AddedMessages DEF IsAnswer, IsSubscribed
<1>9. Exclusive'
  <2>1. \A t \in Threads : Free(t)'
    BY <1>1, <1>5 DEF Free
  <2> QED BY <1>1, <1>5, <1>6, <1>8, <2>1 DEF Exclusive, NoAnswer
<1>10. Introduced'
  BY <1>1, <1>3, <1>6, <1>8 DEF Introduced
<1>11. NotYetReported'
  BY <1>1, <1>5 DEF CInv, NotYetReported
<1> QED BY <1>9, <1>10, <1>11 DEF CInv

(* The answer to an update, and the next document after it. *)
LEMMA AnswerCalm ==
    ASSUME IInv, IInv', SInv, CInv, Service, Head(up).type # "get"
    PROVE  CInv'
<1> USE DEF jobvars, device, library
<1> DEFINE m == up[1]
           ok == aws[m.job].status \in Active /\ aws[m.job].ver = m.ver
           answer == Msg(IF ok THEN "accepted" ELSE "rejected", m.job, 0)
           answers == IF m.job \in subs THEN <<answer>> ELSE <<>>
           d == down \o answers
           n == Doc(aws')
<1>0. /\ aws \in [Jobs -> Executions] /\ aws' \in [Jobs -> Executions]
      /\ up \in Seq(ToService) /\ down \in Seq(ToDevice)
  BY TypeParts DEF IInv, ServiceTypes, MessageTypes, TypeOK, Executions
<1>1. /\ UNCHANGED <<device, sending, done, library, subs, connected>>
      /\ up # <<>> /\ up' = Tail(up) /\ ServiceUpdates(Head(up))
  BY DEF Service
<1>2. Shifted(up, up') /\ Head(up) = up[1] /\ 1 \in 1 .. Len(up) /\ IsUpdate(up[1])
  BY <1>0, <1>1, ShiftedTail DEF Shifted, IsUpdate
<1>3. ~NoUpdate(up) /\ connected
  BY <1>1, <1>2 DEF NoUpdate, SInv, Offline
<1>4. /\ NoAnswer(down)
      /\ NoCue(down)
      /\ status # "active"
      /\ OneUpdate(up)
      /\ NoGet(up)
      /\ NoSubscribed(down)
  BY <1>3 DEF CInv, Exclusive, Introduced
<1>5. \A t \in Threads : Free(t)
  BY <1>3 DEF CInv, Exclusive
<1>6. NoUpdate(up') /\ NoGet(up')
  BY <1>2, <1>4, ShiftedMessages
<1>7. m.job \in Jobs /\ m.type \in UpdateStates
  <2>1. m \in ToService
    BY <1>0, <1>2, ElementOfSeq
  <2> QED BY <1>2, <2>1 DEF IInv, AboutJobs, ToService, IsUpdate
<1>8. /\ aws' = IF ok THEN [aws EXCEPT ![m.job] = [status |-> m.type, ver |-> m.ver + 1]] ELSE aws
      /\ down' = d \o Notice(aws, aws')
  <2>1. ServiceUpdates(m)
    BY <1>1, <1>2
  <2> QED BY <2>1 DEF ServiceUpdates
<1>9. /\ answer \in ToDevice /\ answer.type \in {"accepted", "rejected"}
      /\ answer.type = "accepted" => ok
  BY <1>7 DEF Msg, ToDevice
<1>10. n \in ToDevice /\ n.type = "doc"
  BY <1>0, DocType DEF Doc, Msg
<1> HIDE DEF n, answer, ok
<1>11. Added(down, d, answer) /\ d \in Seq(ToDevice)
  BY <1>0, <1>9, AddedFacts
<1> HIDE DEF d
<1>12. Added(d, down', n)
  <2>1. Notice(aws, aws') = <<>> \/ Notice(aws, aws') = <<n>>
    BY DEF Notice, n
  <2> QED BY <1>8, <1>10, <1>11, <2>1, AddedFacts
<1>13. OneAnswer(d) /\ NoCue(d) /\ NoSubscribed(d)
  BY <1>4, <1>9, <1>11, AddedMessages DEF IsCue, IsSubscribed
<1>14. OneAnswer(down') /\ OneCue(down') /\ NoSubscribed(down')
  BY <1>10, <1>12, <1>13, AddedMessages DEF IsAnswer, IsSubscribed
<1>15. ASSUME NEW i \in 1 .. Len(down'), NEW k \in 1 .. Len(down'), IsAnswer(down'[i]),
              IsCue(down'[k])
       PROVE  IsDoc(down'[k]) /\ i < k
  <2>1. k = Len(d) + 1 /\ down'[k] = n
    BY <1>12, <1>13, <1>15 DEF Added, NoCue
  <2>2. i \in 1 .. Len(d)
    BY <1>10, <1>12, <1>15 DEF Added, IsAnswer
  <2>3. Len(d) \in Nat
    BY <1>12 DEF Added
  <2> QED BY <1>10, <1>15, <2>1, <2>2, <2>3 DEF IsCue, IsDoc
<1>16. Exclusive'
  <2>1. \A t \in Threads : Free(t)'
    BY <1>1, <1>5 DEF Free
  <2> QED BY <1>1, <1>4, <1>6, <1>14, <1>15, <2>1 DEF Exclusive
<1>17. Introduced'
  BY <1>1, <1>3, <1>6, <1>14 DEF Introduced
<1>18. NotYetReported'
  <2>1. ASSUME NEW j \in Jobs, aws[j].status = "SUCCEEDED" PROVE aws'[j].status = "SUCCEEDED"
    BY <1>0, <1>7, <1>8, <2>1 DEF ok, Active, Executions
  <2>2. \A j : Succeeded(aws, j) => Succeeded(aws', j)
    BY <2>1 DEF Succeeded
  <2>3. ASSUME execution_state = "SUCCEEDED", fota_state = "APPLY_UPDATE",
               ~Succeeded(aws', job_id)
        PROVE  \A i \in 1 .. Len(down') : down'[i].type # "accepted"
    <3>1. m.type = "SUCCEEDED" /\ m.job = job_id
      BY <1>2, <2>2, <2>3, <1>7 DEF CInv, NotYetReported, UpdateStates
    <3>2. ~ok
      <4>1. ok => aws'[m.job].status = "SUCCEEDED"
        BY <1>0, <1>7, <1>8, <3>1
      <4> QED BY <1>7, <2>3, <3>1, <4>1 DEF Succeeded
    <3>3. answer.type # "accepted"
      BY <1>9, <3>2
    <3>4. \A i \in 1 .. Len(d) : d[i].type # "accepted"
      BY <1>4, <1>11, <3>3 DEF Added, NoAnswer, IsAnswer
    <3> QED BY <1>10, <1>12, <3>4 DEF Added
  <2>4. /\ \A i \in 1 .. Len(up') : up'[i].type = "get"
        /\ \A t \in Threads : sending'[t].state = "idle"
    BY <1>1, <1>5, <1>6 DEF NoUpdate, IsUpdate, Free, ToSend
  <2> QED BY <1>1, <2>2, <2>3, <2>4 DEF CInv, NotYetReported
<1> QED BY <1>16, <1>17, <1>18 DEF CInv

-----------------------------------------------------------------------------
(* While a job is under way, no document follows the answer to an update   *)
(* of it.                                                                  *)
LEMMA AnswerIsLast ==
    ASSUME IInv, SInv, CInv, IsAnswer(down[1]), down[1].job = job_id, Shifted(down, down'),
           ~Closed(aws, job_id)
    PROVE  NoCue(down')
<1>1. 1 \in 1 .. Len(down) /\ job_id \in Jobs /\ NoJob \notin Jobs
  BY AwsAssumption DEF Shifted, SInv, Known, Reached
<1>2. SUFFICES ASSUME NEW k \in 1 .. Len(down'), IsCue(down'[k]) PROVE FALSE
  BY DEF NoCue
<1>3. k + 1 \in 1 .. Len(down) /\ down'[k] = down[k + 1] /\ 1 < k + 1
  BY DEF Shifted
<1> DEFINE e == down[k + 1]
<1>4. IsDoc(e)
  BY <1>1, <1>2, <1>3 DEF CInv, Exclusive
<1>5. e.job # job_id /\ Reached(aws, e.job) /\ job_id <= e.job
  BY <1>1, <1>3, <1>4 DEF SInv, Answered, Known, DocsInTurn
<1>6. job_id \in Nat /\ e.job \in Nat
  BY <1>1, <1>5, AwsAssumption DEF Reached
<1>7. job_id < e.job
  BY <1>5, <1>6
<1> QED BY <1>1, <1>5, <1>7 DEF Reached

(* A message that starts nothing. *)
LEMMA DropCalm ==
    ASSUME SInv, CInv, connected, Shifted(down, down'), done' # NoJob => Succeeded(aws, done'),
           UNCHANGED <<aws, up, connected, sending, execution_state, fota_state, job_id, status>>
    PROVE  CInv'
<1>1. \A i \in 1 .. Len(down') : i + 1 \in 1 .. Len(down) /\ down'[i] = down[i + 1]
  BY DEF Shifted
<1>2. Exclusive'
  <2>1. \A t \in Threads : Free(t)' <=> Free(t)
    BY DEF Free
  <2>2. ASSUME NEW i \in 1 .. Len(down'), NEW k \in 1 .. Len(down'), IsAnswer(down'[i]),
               IsCue(down'[k])
        PROVE  IsDoc(down'[k]) /\ i < k
    <3>1. IsDoc(down[k + 1]) /\ i + 1 < k + 1
      BY <1>1, <2>2 DEF CInv, Exclusive
    <3> QED BY <1>1, <3>1
  <2> QED BY <2>1, <2>2, ShiftedMessages DEF CInv, Exclusive
<1>3. Introduced'
  BY RestFacts, ShiftedMessages DEF CInv, Introduced
<1>4. NotYetReported'
  BY <1>1 DEF CInv, NotYetReported
<1> QED BY <1>2, <1>3, <1>4 DEF CInv

LEMMA SubscribedCalm ==
    ASSUME IInv, SInv, CInv, IsSubscribed(down[1]), Shifted(down, down'),
           up' = Append(up, Msg("get", NoJob, 0)),
           UNCHANGED <<aws, connected, sending, execution_state, fota_state, job_id, status, done>>
    PROVE  CInv'
<1>1. job_id = NoJob /\ NoUpdate(up) /\ NoAnswer(down) /\ NoCue(down)
  BY DEF CInv, Introduced, NoSubscribed, Shifted
<1>2. (\A t \in Threads : Free(t)) /\ status # "active" /\ fota_state = "NONE"
  BY <1>1, UnknownFacts
<1>3. NoUpdate(up')
  <2>1. /\ up \in Seq(ToService)
        /\ Msg("get", NoJob, 0) \in ToService
        /\ ~IsUpdate(Msg("get", NoJob, 0))
    BY TypeParts DEF IInv, MessageTypes, Msg, ToService, IsUpdate
  <2> QED BY <1>1, <2>1, AddedFacts, AddedMessages
<1>4. NoAnswer(down') /\ NoCue(down')
  BY <1>1, ShiftedMessages
<1>5. Exclusive'
  <2>1. \A t \in Threads : Free(t)'
    BY <1>2 DEF Free
  <2> QED BY <1>2, <1>3, <1>4, <2>1 DEF Exclusive, NoAnswer
<1>6. Introduced' /\ NotYetReported'
  BY <1>1, <1>2, <1>3, <1>4 DEF CInv, Introduced, NotYetReported
<1> QED BY <1>5, <1>6 DEF CInv

(* What may still be there when a cue comes. *)
LEMMA CueFacts ==
    ASSUME CInv, IsCue(down[1]), NEW rest, Shifted(down, rest)
    PROVE  /\ (\A t \in Threads : Free(t)) /\ status # "active"
           /\ NoUpdate(up) /\ NoAnswer(down) /\ connected /\ NoGet(up) /\ NoSubscribed(down)
           /\ NoCue(rest)
<1>1. 1 \in 1 .. Len(down) /\ ~NoCue(down) /\ \A i \in 1 .. Len(down) : ~(i < 1)
  BY DEF Shifted, NoCue
<1>2. NoAnswer(down)
  BY <1>1 DEF CInv, Exclusive, NoAnswer
<1> QED BY <1>1, <1>2, ShiftedMessages DEF CInv, Exclusive, Introduced

(* A thread begins to send when nothing else is under way. *)
LEMMA SendsCalm ==
    ASSUME sending \in [Threads -> Sending], NEW thread \in Threads, NEW state, Sends(thread,
           state),
           \A t \in Threads : Free(t),
           NoUpdate(up'), NoAnswer(down'), NoCue(down'), status' # "active", ~Closed(aws', job_id')
    PROVE  Exclusive'
<1>1. \A t \in Threads : t # thread => Free(t)'
  BY DEF Sends, Free
<1> QED BY <1>1 DEF Exclusive, NoAnswer

(* The SUBACK of the update topic. *)
LEMMA BeginCalm ==
    ASSUME IInv, SInv, CInv, IsCue(down[1]), Shifted(down, down'),
           fota_state = "DOWNLOAD_FIRMWARE", Sends("mqtt", "IN_PROGRESS"),
           UNCHANGED <<aws, up, connected, execution_state, fota_state, job_id, status, done>>
    PROVE  CInv'
<1>1. /\ (\A t \in Threads : Free(t)) /\ status # "active"
      /\ NoUpdate(up) /\ NoAnswer(down) /\ connected /\ NoGet(up)
      /\ NoCue(down') /\ NoAnswer(down') /\ NoSubscribed(down')
  BY CueFacts, ShiftedMessages
<1>2. ~Closed(aws, job_id)
  BY DEF SInv, Ended, Final
<1>3. sending \in [Threads -> Sending] /\ "mqtt" \in Threads
  BY TypeParts DEF IInv, DeviceTypes, Threads
<1>4. Exclusive'
  BY <1>1, <1>2, <1>3, SendsCalm
<1>5. Introduced' /\ NotYetReported'
  BY <1>1 DEF CInv, Introduced, NotYetReported
<1> QED BY <1>4, <1>5 DEF CInv

LEMMA DocCalm ==
    ASSUME IInv, SInv, CInv, IsDoc(down[1]), NEW rest, Shifted(down, rest),
           \/ /\ fota_state' = "DOWNLOAD_FIRMWARE"
              /\ Added(rest, down', Msg("suback", down[1].job, 0))
           \/ down' = rest /\ UNCHANGED fota_state,
           UNCHANGED <<aws, up, connected, sending, execution_state, status, done>>
    PROVE  CInv'
<1> DEFINE e == Msg("suback", down[1].job, 0)
<1>1. ~IsAnswer(e) /\ ~IsSubscribed(e)
  BY DEF IsDoc, Msg, IsAnswer, IsSubscribed
<1>2. IsCue(down[1])
  BY DEF IsDoc, IsCue
<1>3. /\ (\A t \in Threads : Free(t)) /\ status # "active"
      /\ NoUpdate(up) /\ NoAnswer(down) /\ connected /\ NoGet(up)
      /\ NoCue(rest) /\ NoAnswer(rest) /\ NoSubscribed(rest)
  BY <1>2, CueFacts, ShiftedMessages
<1> HIDE DEF e
<1>4. \/ fota_state' = "DOWNLOAD_FIRMWARE" /\ Added(rest, down', e)
      \/ down' = rest /\ UNCHANGED fota_state
  BY DEF e
<1>5. NoAnswer(down') /\ OneCue(down') /\ NoSubscribed(down')
  <2>1. CASE Added(rest, down', e)
    BY <1>1, <1>3, <2>1, AddedMessages
  <2>2. CASE down' = rest
    BY <1>3, <2>2 DEF OneCue, NoCue
  <2> QED BY <1>4, <2>1, <2>2
<1>6. Exclusive'
  <2>1. \A t \in Threads : Free(t)'
    BY <1>3 DEF Free
  <2> QED BY <1>3, <1>5, <2>1 DEF Exclusive, NoAnswer
<1>7. Introduced'
  BY <1>3, <1>5 DEF Introduced
<1>8. NotYetReported'
  <2>1. \A i \in 1 .. Len(down') : down'[i].type # "accepted"
    BY <1>5 DEF NoAnswer, IsAnswer
  <2>2. /\ \A i \in 1 .. Len(up) : up[i].type = "get"
        /\ \A t \in Threads : sending[t].state = "idle"
    BY <1>3 DEF NoUpdate, IsUpdate, Free, ToSend
  <2> QED BY <1>4, <2>1, <2>2 DEF CInv, NotYetReported
<1> QED BY <1>6, <1>7, <1>8 DEF CInv

(* What may still be there when an answer comes. *)
LEMMA AcceptedCalm ==
    ASSUME IInv, SInv, CInv, IsAnswer(down[1]), down[1].job = job_id, Shifted(down, down')
    PROVE  /\ (\A t \in Threads : Free(t)) /\ status # "active"
           /\ NoUpdate(up) /\ NoAnswer(down') /\ NoSubscribed(down') /\ NoGet(up) /\ connected
           /\ ~Closed(aws, job_id) => NoCue(down')
<1>1. ~NoAnswer(down)
  BY DEF Shifted, NoAnswer
<1> QED BY <1>1, ShiftedMessages, AnswerIsLast DEF CInv, Exclusive, Introduced

LEMMA ReadyCalm ==
    ASSUME IInv, SInv, CInv, IsAnswer(down[1]), down[1].job = job_id, Shifted(down, down'),
           ReadyToDownload, execution_state' = "IN_PROGRESS",
           UNCHANGED <<aws, up, connected, sending, fota_state, job_id, done>>
    PROVE  CInv'
<1>1. /\ (\A t \in Threads : Free(t))
      /\ NoUpdate(up) /\ NoAnswer(down') /\ NoSubscribed(down') /\ NoGet(up) /\ connected
      /\ ~Closed(aws, job_id) => NoCue(down')
  BY AcceptedCalm
<1>2. ~Closed(aws, job_id)
  BY DEF SInv, Ended, Final, ReadyToDownload
<1>3. Exclusive'
  <2>1. \A t \in Threads : Free(t)'
    BY <1>1 DEF Free
  <2> QED BY <1>1, <1>2, <2>1 DEF Exclusive, NoAnswer
<1>4. Introduced' /\ NotYetReported'
  BY <1>1 DEF CInv, Introduced, NotYetReported
<1> QED BY <1>3, <1>4 DEF CInv

LEMMA CompletedCalm ==
    ASSUME IInv, SInv, CInv, IsAnswer(down[1]), down[1].job = job_id, Shifted(down, down'),
           Completed, Sends("mqtt", "SUCCEEDED"),
           UNCHANGED <<aws, up, connected, fota_state, job_id, status, done>>
    PROVE  CInv'
<1>1. /\ (\A t \in Threads : Free(t)) /\ status # "active"
      /\ NoUpdate(up) /\ NoAnswer(down') /\ NoSubscribed(down') /\ NoGet(up) /\ connected
      /\ ~Closed(aws, job_id) => NoCue(down')
  BY AcceptedCalm
<1>2. ~Closed(aws, job_id)
  BY DEF SInv, Ended, Final, Completed
<1>3. sending \in [Threads -> Sending] /\ "mqtt" \in Threads
  BY TypeParts DEF IInv, DeviceTypes, Threads
<1>4. Exclusive'
  BY <1>1, <1>2, <1>3, SendsCalm
<1>5. Introduced'
  BY <1>1 DEF Introduced
<1>6. NotYetReported'
  <2>1. \A i \in 1 .. Len(down') : down'[i].type # "accepted"
    BY <1>1 DEF NoAnswer, IsAnswer
  <2>2. \A i \in 1 .. Len(up') : up'[i].type = "get"
    BY <1>1 DEF NoUpdate, IsUpdate
  <2>3. \A t \in Threads : sending'[t].state \in {"idle", "SUCCEEDED"}
    BY <1>1, <1>3 DEF Sends, Free, ToSend
  <2> QED BY <2>1, <2>2, <2>3 DEF CInv, NotYetReported
<1> QED BY <1>4, <1>5, <1>6 DEF CInv

LEMMA MqttInputCalm ==
    ASSUME IInv, SInv, Calm, CInv, mqtt_input
    PROVE  CInv'
<1> USE DEF jobvars, device, library
<1>0. /\ down \in Seq(ToDevice) /\ \A i \in 1 .. Len(down) : down[i] \in ToDevice
  BY TypeParts, ElementOfSeq DEF IInv, MessageTypes
<1> DEFINE m == down[1]
           rest == RemoveAt(down, 1)
<1>1. /\ connected /\ 1 \in 1 .. Len(down) /\ on_publish_evt(m, rest)
      /\ UNCHANGED <<aws, connected>>
  <2>1. PICK i \in 1 .. Len(down) :
             (i = 1 \/ May("reorder")) /\ \E left \in Left(i) : on_publish_evt(down[i], left)
    BY DEF mqtt_input
  <2>2. i = 1
    BY <2>1 DEF Calm, May
  <2>3. PICK left \in Left(1) : on_publish_evt(down[1], left)
    BY <2>1, <2>2
  <2>4. left = RemoveAt(down, 1)
    BY <1>0, <2>2, <2>3, LeftFacts DEF Calm, May
  <2> QED BY <2>2, <2>3, <2>4 DEF mqtt_input
<1>2. Shifted(down, rest) /\ rest \in Seq(ToDevice) /\ m \in ToDevice
  BY <1>0, <1>1, ShiftedRest
<1>3. done # NoJob => Succeeded(aws, done)
  BY DEF CInv, NotYetReported
<1> HIDE DEF m, rest
<1>4. CASE m.type = "suback" /\ suback(m) /\ down' = rest
  <2>0. UNCHANGED <<device, done, library>>
    BY <1>4 DEF suback
  <2>1. CASE IsSubscribed(down[1]) /\ up' = Append(up, Msg("get", NoJob, 0)) /\ sending' = sending
    BY <1>1, <1>2, <1>4, <2>0, <2>1, SubscribedCalm
  <2>2. CASE up' = up /\ sending' = sending
    BY <1>1, <1>2, <1>3, <1>4, <2>0, <2>2, DropCalm
  <2>3. CASE /\ IsCue(down[1]) /\ up' = up /\ fota_state = "DOWNLOAD_FIRMWARE"
             /\ Sends("mqtt", "IN_PROGRESS")
    BY <1>1, <1>2, <1>4, <2>0, <2>3, BeginCalm
  <2> QED BY <1>4, <2>1, <2>2, <2>3 DEF suback, IsSubscribed, IsCue, m
<1>9. CASE Dropped(rest)
  BY <1>1, <1>2, <1>3, <1>9, DropCalm DEF Dropped
<1>10. ~May("location") /\ update_topic = job_id
  BY DEF IInv, OneJob, Calm, May
<1>5. CASE m.type = "doc" /\ get_job_execution(m, rest) /\ ~Dropped(rest)
  <2>0. UNCHANGED <<execution_state, sending, done, library, up>> /\ m.job # NoJob
    BY <1>5, <1>10 DEF get_job_execution
  <2>1. IsDoc(down[1])
    BY <1>5, <2>0 DEF IsDoc, m
  <2>2. Msg("suback", m.job, 0) \in ToDevice
    BY <1>2 DEF Msg, ToDevice
  <2>3. Added(rest, Append(rest, Msg("suback", m.job, 0)), Msg("suback", m.job, 0))
    BY <1>2, <2>2, AddedFacts
  <2>4. \/ fota_state' = "DOWNLOAD_FIRMWARE" /\ Added(rest, down', Msg("suback", m.job, 0))
        \/ down' = rest /\ UNCHANGED fota_state
    BY <1>5, <1>10, <2>3 DEF get_job_execution
  <2> QED BY <1>1, <1>2, <2>0, <2>1, <2>4, DocCalm DEF m
<1>6. CASE m.type = "accepted" /\ m.job = job_id /\ job_update_accepted /\ down' = rest
  <2>0. IsAnswer(down[1]) /\ down[1].job = job_id /\ UNCHANGED <<fota_state, job_id, up>>
    BY <1>6 DEF IsAnswer, m, job_update_accepted
  <2>1. CASE ReadyToDownload
    <3>1. execution_state' = "IN_PROGRESS" /\ UNCHANGED <<sending, done>>
      BY <1>6, <2>1 DEF job_update_accepted, ReadyToDownload, Completed
    <3> QED BY <1>1, <1>2, <1>6, <2>0, <2>1, <3>1, ReadyCalm
  <2>2. CASE Completed
    <3>1. Sends("mqtt", "SUCCEEDED") /\ UNCHANGED <<library, done>>
      BY <1>6, <2>2 DEF job_update_accepted, ReadyToDownload, Completed
    <3> QED BY <1>1, <1>2, <1>6, <2>0, <2>2, <3>1, CompletedCalm
  <2>3. CASE ~ReadyToDownload /\ ~Completed
    <3>1. /\ UNCHANGED <<execution_state, sending, library>>
          /\ done' = IF Reported THEN job_id ELSE done
      BY <1>6, <2>3 DEF job_update_accepted
    <3>2. Reported => Succeeded(aws, job_id)
      BY <1>1, <1>6 DEF CInv, NotYetReported, Reported, m
    <3> QED BY <1>1, <1>2, <1>3, <1>6, <2>0, <3>1, <3>2, DropCalm
  <2> QED BY <2>1, <2>2, <2>3
<1>7. CASE job_update_rejected /\ down' = rest
  BY <1>1, <1>2, <1>3, <1>7, DropCalm DEF job_update_rejected
<1> QED BY <1>1, <1>4, <1>5, <1>6, <1>7, <1>9, <1>10 DEF on_publish_evt

-----------------------------------------------------------------------------
LEMMA WaitCalm ==
    ASSUME IInv, CInv, NEW thread \in Threads, wait_for_update_accepted(thread)
    PROVE  CInv'
<1> USE DEF jobvars, device, library, service
<1>1. UNCHANGED <<device, done, library, aws, up, down, connected>>
  BY DEF wait_for_update_accepted
<1>2. \A t \in Threads : sending'[t].state = sending[t].state /\ (~Free(t)' => ~Free(t))
  <2>1. sending \in [Threads -> Sending] /\ ~Free(thread)
    BY TypeParts DEF IInv, DeviceTypes, wait_for_update_accepted
  <2> QED BY <2>1 DEF wait_for_update_accepted, Sending, Free
<1>3. Exclusive'
  BY <1>1, <1>2 DEF CInv, Exclusive
<1>4. Introduced' /\ NotYetReported'
  BY <1>1, <1>2 DEF CInv, Introduced, NotYetReported
<1> QED BY <1>3, <1>4 DEF CInv

LEMMA UpdateCalm ==
    ASSUME IInv, CInv, NEW thread \in Threads, update_job_execution(thread)
    PROVE  CInv'
<1> USE DEF library, service
<1> DEFINE m == Msg(sending[thread].state, job_id, execution_version_number)
<1>0. DeviceTypes /\ MessageTypes
  BY TypeParts DEF IInv
<1>1. UNCHANGED <<execution_state, fota_state, job_id, done, library, aws, down, connected>>
  BY DEF update_job_execution
<1>2. ~Free(thread)
  BY DEF update_job_execution, Free, ToSend
<1>3. /\ NoUpdate(up) /\ NoAnswer(down) /\ NoCue(down) /\ status # "active"
      /\ \A u \in Threads : ~Free(u) => u = thread
  BY <1>2 DEF CInv, Exclusive
<1>4. job_id # NoJob /\ connected /\ NoGet(up) /\ NoSubscribed(down)
  BY <1>2, UnknownFacts DEF CInv, Introduced
<1>5. m \in ToService /\ IsUpdate(m) /\ m.type = sending[thread].state /\ m.job = job_id
  BY <1>0 DEF IInv, AboutJobs, DeviceTypes, update_job_execution, Msg, IsUpdate, ToService,
     UpdateStates
<1>6. \A t \in Threads : Free(t)' /\ sending'[t].state = "idle"
  <2>1. sending \in [Threads -> Sending] /\ sending' = [sending EXCEPT ![thread] = ToSend("idle")]
    BY <1>0 DEF DeviceTypes, update_job_execution, Sends
  <2>2. \A t \in Threads : sending'[t] = ToSend("idle")
    BY <1>3, <2>1 DEF Free
  <2> QED BY <2>2 DEF Free, ToSend
<1>7. Added(up, up', m)
  <2>1. up' = Append(up, m) \/ up' = up
    BY DEF update_job_execution
  <2>2. up \in Seq(ToService)
    BY <1>0 DEF MessageTypes
  <2> HIDE DEF m
  <2> QED BY <1>5, <2>1, <2>2, AddedFacts
<1> HIDE DEF m
<1>8. OneUpdate(up') /\ NoGet(up')
  BY <1>3, <1>4, <1>5, <1>7, AddedMessages
<1>9. Exclusive'
  BY <1>1, <1>3, <1>6, <1>8 DEF Exclusive, NoAnswer
<1>10. Introduced'
  BY <1>1, <1>4, <1>8 DEF Introduced
<1>11. NotYetReported'
  <2>1. sending[thread].state \in {"idle", "SUCCEEDED"}
          /\ (\A i \in 1 .. Len(up) :
                 up[i].type = "get" \/ (up[i].type = "SUCCEEDED" /\ up[i].job = job_id))
        => \A i \in 1 .. Len(up') :
              up'[i].type = "get" \/ (up'[i].type = "SUCCEEDED" /\ up'[i].job = job_id)
    <3>1. sending[thread].state # "idle"
      BY DEF IInv, AboutJobs, update_job_execution, UpdateStates
    <3> QED BY <1>5, <1>7, <3>1 DEF Added
  <2> QED BY <1>1, <1>6, <2>1 DEF CInv, NotYetReported
<1> QED BY <1>9, <1>10, <1>11 DEF CInv

(* The end of a download is reported. *)
LEMMA LibraryCalm ==
    ASSUME IInv, SInv, CInv, Library
    PROVE  CInv'
<1> USE DEF service
<1>1. /\ UNCHANGED <<job_id, done, aws, up, down, connected>>
      /\ status = "active" /\ status' # "active"
      /\ execution_state' = "QUEUED" \/ execution_state' = execution_state
      /\ Sends("http", "IN_PROGRESS") \/ Sends("http", "FAILED")
  BY DEF Library, DownloadFinished, DownloadFailed, Finished, Failed, jobvars
<1>2. (\A t \in Threads : Free(t)) /\ NoUpdate(up) /\ NoAnswer(down) /\ NoCue(down)
  BY <1>1 DEF CInv, Exclusive
<1>3. ~Closed(aws, job_id) /\ execution_state = "IN_PROGRESS"
  BY <1>1, ActiveFacts DEF IInv, Downloading
<1>4. sending \in [Threads -> Sending] /\ "http" \in Threads
  BY TypeParts DEF IInv, DeviceTypes, Threads
<1>5. Exclusive'
  BY <1>1, <1>2, <1>3, <1>4, SendsCalm
<1>6. Introduced' /\ NotYetReported'
  BY <1>1, <1>2, <1>3 DEF CInv, Introduced, NotYetReported
<1> QED BY <1>5, <1>6 DEF CInv

LEMMA SilentCalm ==
    ASSUME NEW s, s = <<>>
    PROVE  NoUpdate(s) /\ NoGet(s) /\ NoAnswer(s) /\ NoCue(s) /\ NoSubscribed(s)
BY DEF NoUpdate, NoGet, NoAnswer, NoCue, NoSubscribed

LEMMA RebootCalm ==
    ASSUME Calm, Reboot
    PROVE  CInv'
<1>1. /\ up' = <<>> /\ down' = <<>> /\ job_id' = NoJob /\ fota_state' = "NONE" /\ status' = "idle"
      /\ done' = NoJob /\ \A t \in Threads : Free(t)'
  BY DEF Reboot, Lost, Calm, May, Free
<1>2. NoUpdate(up') /\ NoAnswer(down') /\ NoCue(down')
  BY <1>1, SilentCalm
<1> QED BY <1>1, <1>2 DEF CInv, Exclusive, Introduced, NotYetReported, NoAnswer

LEMMA ConnackCalm ==
    ASSUME IInv, SInv, Calm, CInv, connack
    PROVE  CInv'
<1> USE DEF jobvars, device, library
<1>1. /\ UNCHANGED <<device, sending, done, library, aws, up>> /\ ~connected /\ up = <<>>
      /\ down' = <<Msg("suback", NoJob, 0)>> \/ down' = <<>>
  BY DEF connack, Calm, May, SInv, Offline
<1>2. job_id = NoJob
  BY <1>1 DEF CInv, Introduced
<1>3. (\A t \in Threads : Free(t)) /\ status # "active" /\ fota_state = "NONE"
  BY <1>2, UnknownFacts
<1>4. NoUpdate(up') /\ NoAnswer(down') /\ NoCue(down')
  <2>1. \A i \in 1 .. Len(down') : down'[i] = Msg("suback", NoJob, 0)
    <3>1. CASE down' = <<>>
      BY <3>1, SilentFacts
    <3>2. CASE down' = <<Msg("suback", NoJob, 0)>>
      BY <3>2
    <3> QED BY <1>1, <3>1, <3>2
  <2>2. NoAnswer(down') /\ NoCue(down')
    BY <2>1 DEF NoAnswer, NoCue, Msg, IsAnswer, IsCue
  <2> QED BY <1>1, <2>2, SilentCalm
<1>5. \A t \in Threads : Free(t)'
  BY <1>1, <1>3 DEF Free
<1> QED BY <1>1, <1>2, <1>3, <1>4, <1>5 DEF CInv, Exclusive, Introduced, NotYetReported,
           NoAnswer

LEMMA CalmInit == Init => CInv
<1> SUFFICES ASSUME Init PROVE CInv
  OBVIOUS
<1>1. /\ up = <<>> /\ down = <<>> /\ job_id = NoJob /\ fota_state = "NONE" /\ status = "idle"
      /\ done = NoJob /\ \A t \in Threads : Free(t)
  BY DEF Init, Free
<1>2. NoUpdate(up) /\ NoAnswer(down) /\ NoCue(down)
  BY <1>1, SilentCalm
<1> QED BY <1>1, <1>2 DEF CInv, Exclusive, Introduced, NotYetReported, NoAnswer

LEMMA StutterCalm ==
    ASSUME CInv, UNCHANGED vars
    PROVE  CInv'
<1> USE DEF vars, jobvars, device, library, service
<1>1. \A t \in Threads : Free(t)' <=> Free(t)
  BY DEF Free
<1>2. Exclusive' /\ Introduced' /\ NotYetReported'
  BY <1>1 DEF CInv, Exclusive, Introduced, NotYetReported
<1> QED BY <1>2 DEF CInv

LEMMA CalmIsSteady == Calm => Steady
BY DEF Calm, Steady

LEMMA CalmNext ==
    IInv /\ IInv' /\ (Steady => SInv) /\ (Steady => SInv)' /\ (Calm => CInv) /\ [Next]_vars
      => (Calm => CInv)'
<1> SUFFICES ASSUME IInv, IInv', Steady => SInv, (Steady => SInv)', Calm => CInv, [Next]_vars, Calm'
             PROVE  CInv'
  OBVIOUS
<1>1. env' = env
  BY DEF Next, vars, CreateJob, CancelJob, Service, connack, mqtt_input, Library,
     DownloadFinished,
         DownloadFailed, wait_for_update_accepted, update_job_execution, Disconnect, Reboot, Lost
<1>2. Calm /\ CInv /\ SInv /\ SInv'
  BY <1>1, CalmIsSteady DEF Calm, Steady
<1>3. ASSUME NEW t \in Threads, wait_for_update_accepted(t) \/ update_job_execution(t)
      PROVE  CInv'
  BY <1>2, <1>3, WaitCalm, UpdateCalm
<1>4. ~CancelJob /\ ~Disconnect
  BY <1>2 DEF CancelJob, Disconnect, Calm, May
<1> QED BY <1>2, <1>3, <1>4, CreateJobCalm, GetCalm, AnswerCalm, ConnackCalm, MqttInputCalm,
           LibraryCalm, RebootCalm, StutterCalm DEF Next

LEMMA CalmHolds == Spec => [](Calm => CInv)
<1>1. Init => (Calm => CInv)
  BY CalmInit
<1> QED BY <1>1, CalmNext, SteadyHolds, InvHolds, PTL DEF Spec

-----------------------------------------------------------------------------
(* What is applied after DONE *)

(* The image of the job that is done is tagged, until another download is  *)
(* begun; it is not the same image, as a job that is done is not taken up  *)
(* again.                                                                  *)
ImageTagged ==
    /\ fota_state = "APPLY_UPDATE" => want \in tags
    /\ done # NoJob /\ want = done => done \in tags

(* A step that neither starts nor ends a download. *)
LEMMA TaggedKept ==
    ASSUME ImageTagged, UNCHANGED <<want, tags>>,
           fota_state' = "APPLY_UPDATE" => fota_state = "APPLY_UPDATE",
           done' = done \/ fota_state = "APPLY_UPDATE"
    PROVE  ImageTagged'
BY DEF ImageTagged

LEMMA AcceptedTagged ==
    ASSUME IInv, SInv, Calm, CInv, ImageTagged, job_update_accepted
    PROVE  ImageTagged'
<1> USE DEF library
<1>1. UNCHANGED fota_state
  BY DEF job_update_accepted
<1>2. CASE ReadyToDownload
  <2>1. fota_download_start /\ UNCHANGED done
    BY <1>2 DEF job_update_accepted, ReadyToDownload, Completed
  <2>2. location = job_id
    BY DEF IInv, OneJob, Calm, May
  <2>3. done # NoJob => done # job_id
    BY <1>2 DEF ReadyToDownload, SInv, Ended, Final, Closed, CInv, NotYetReported, Succeeded, Active
  <2>4. UNCHANGED tags /\ (want' = want \/ want' = job_id)
    BY <2>1, <2>2 DEF fota_download_start
  <2> QED BY <1>1, <1>2, <2>1, <2>3, <2>4 DEF ImageTagged, ReadyToDownload
<1>3. CASE ~ReadyToDownload
  <2>1. UNCHANGED <<want, tags>> /\ (done' = done \/ fota_state = "APPLY_UPDATE")
    BY <1>3 DEF job_update_accepted, Reported
  <2> QED BY <1>1, <2>1, TaggedKept
<1> QED BY <1>2, <1>3

LEMMA MqttInputTagged ==
    ASSUME IInv, SInv, Calm, CInv, ImageTagged, mqtt_input
    PROVE  ImageTagged'
<1> USE DEF jobvars, device, library
<1>1. PICK i \in 1 .. Len(down) : \E rest \in Left(i) : on_publish_evt(down[i], rest)
  BY DEF mqtt_input
<1>2. PICK rest \in Left(i) : on_publish_evt(down[i], rest)
  BY <1>1
<1>3. CASE job_update_accepted
  BY <1>3, AcceptedTagged
<1>4. CASE ~job_update_accepted
  <2>1. \/ suback(down[i]) \/ get_job_execution(down[i], rest)
        \/ job_update_rejected \/ Dropped(rest)
    BY <1>2, <1>4 DEF on_publish_evt
  <2>2. UNCHANGED <<want, tags, done>> /\ (fota_state' = "APPLY_UPDATE" => fota_state' = fota_state)
    BY <2>1 DEF suback, get_job_execution, job_update_rejected, Dropped
  <2> QED BY <2>2, TaggedKept
<1> QED BY <1>3, <1>4

LEMMA LibraryTagged ==
    ASSUME IInv, SInv, CInv, ImageTagged, Library
    PROVE  ImageTagged'
<1>1. CASE DownloadFinished
  BY <1>1 DEF DownloadFinished, ImageTagged
<1>2. CASE DownloadFailed
  <2>1. status = "active" /\ UNCHANGED <<want, done>> /\ fota_state' = "NONE"
    BY <1>2 DEF DownloadFailed, Failed
  <2>2. want = job_id /\ ~Closed(aws, job_id)
    BY <2>1, ActiveFacts
  <2>3. done # NoJob => done # want
    BY <2>2 DEF CInv, NotYetReported, Succeeded, Closed, Active
  <2> QED BY <2>1, <2>3 DEF ImageTagged
<1> QED BY <1>1, <1>2 DEF Library

LEMMA TaggedNext ==
    IInv /\ (Steady => SInv) /\ (Calm => CInv) /\ (Calm => ImageTagged) /\ [Next]_vars
      => (Calm => ImageTagged)'
<1> SUFFICES ASSUME IInv, Steady => SInv, Calm => CInv, Calm => ImageTagged, [Next]_vars, Calm'
             PROVE  ImageTagged'
  OBVIOUS
<1>1. env' = env
  BY DEF Next, vars, CreateJob, CancelJob, Service, connack, mqtt_input, Library,
     DownloadFinished,
         DownloadFailed, wait_for_update_accepted, update_job_execution, Disconnect, Reboot, Lost
<1>2. Calm /\ CInv /\ SInv /\ ImageTagged
  BY <1>1, CalmIsSteady DEF Calm
<1>3. CASE \/ CreateJob \/ CancelJob \/ Service \/ connack \/ Disconnect \/ UNCHANGED vars
           \/ \E t \in Threads : wait_for_update_accepted(t) \/ update_job_execution(t)
  <2>1. UNCHANGED <<want, tags, fota_state, done>>
    BY <1>3 DEF CreateJob, CancelJob, Service, connack, Disconnect, vars,
                wait_for_update_accepted, update_job_execution, device, library
  <2> QED BY <1>2, <2>1, TaggedKept
<1>4. CASE Reboot
  BY <1>4 DEF Reboot, ImageTagged
<1> QED BY <1>2, <1>3, <1>4, MqttInputTagged, LibraryTagged DEF Next

LEMMA TaggedHolds == Spec => [](Calm => ImageTagged)
<1>1. Init => (Calm => ImageTagged)
  BY DEF Init, ImageTagged
<1> QED BY <1>1, TaggedNext, SteadyHolds, CalmHolds, InvHolds, PTL DEF Spec

(* When AWS_FOTA_EVT_DONE is sent, the service has the job it is sent for  *)
(* as SUCCEEDED, its image was downloaded, and it is tagged unless another *)
(* download has begun since: through failed downloads and calls, payloads  *)
(* that cannot be read, restarts and preemption, as long as the connection *)
(* stays up, no job is cancelled, jobs are created when nothing is on its  *)
(* way, and documents say where the image is.                              *)
THEOREM DoneReported == Spec => [](~May("location") => DoneIsReported)
<1>1. (Steady => SInv) /\ (Calm => CInv) /\ (Calm => ImageTagged)
        => (~May("location") => DoneIsReported)
  <2> SUFFICES ASSUME Steady => SInv, Calm => CInv, Calm => ImageTagged, Calm, done # NoJob
               PROVE  /\ aws[done].status = "SUCCEEDED" /\ done \in fetched
                      /\ want = done => done \in tags
    BY DEF DoneIsReported, Calm, May
  <2>1. Steady
    BY CalmIsSteady
  <2>2. Succeeded(aws, done)
    BY DEF CInv, NotYetReported
  <2> QED BY <2>1, <2>2 DEF SInv, ImageOfJob, Succeeded, ImageTagged
<1> QED BY <1>1, SteadyHolds, CalmHolds, TaggedHolds, PTL
=============================================================================
