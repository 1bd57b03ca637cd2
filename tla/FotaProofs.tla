----------------------------- MODULE FotaProofs -----------------------------
(***************************************************************************)
(* Theorems about firmware updates over the air, for every set of files    *)
(* and sizes, buffer and fragment sizes, blocks of flash and retries, and  *)
(* over connections that are lost, requests that are dropped or refused,   *)
(* targets that fail and resets of the device.                             *)
(***************************************************************************)
EXTENDS Fota, SequenceTheorems, WellFoundedInduction, TLAPS

(* What the theorems ask of the configuration: HTTPS, and devices that are *)
(* updated with application images, or with one modem patch. What is left  *)
(* out breaks the properties: plain HTTP, an answer that arrives after its *)
(* request was repeated, close() or SO_DFU_APPLY failing, and a file of    *)
(* another type after an application image that failed at its end.         *)
FotaDiscipline ==
    /\ PROTO = "TLS"
    /\ \A x \in {"late_answer", "close", "modem_close", "apply"} : x \notin Faults
    /\ \A D \in Devices :
          \/ \A f \in D : Type[f] = "MCUBOOT"
          \/ \A f, g \in D :
                /\ Type[f] # "MCUBOOT"
                /\ Type[f] = "MODEM" /\ Type[g] = "MODEM" => f = g

-----------------------------------------------------------------------------
(* Data on its way *)

DataItem(f, n) == [k |-> "data", unit |-> [file |-> f, at |-> n]]

Item == [k : {"hdr"}]
        \cup [k : {"end"}, ok : BOOLEAN, size : Nat, close : BOOLEAN]
        \cup [k : {"data"}, unit : Unit]

(* Data of a file from an offset on. *)
Data(s, f, from) ==
    /\ from + Len(s) <= Size[f]
    /\ \A i \in 1 .. Len(s) : s[i] = DataItem(f, from + i - 1)

(* No header ends in it. *)
NoEnd(s) == \A i \in 1 .. Len(s) : s[i].k # "end"

(* The first header that ends in it, if it is a good one, is the answer to *)
(* a request from an offset on, and the data of the answer follows.        *)
Answering(s, f, from) ==
    \A i \in 1 .. Len(s) :
        s[i].k = "end" /\ s[i].ok /\ (\A j \in 1 .. i - 1 : s[j].k # "end") =>
            /\ s[i].size = Size[f]
            /\ from < Size[f]
            /\ from + (Len(s) - i) <= Size[f]
            /\ \A j \in i + 1 .. Len(s) : s[j] = DataItem(f, from + j - i - 1)

(* The buffer after the next n items were received. *)
Received(all, buf, rx, n) ==
    /\ all \in Seq(Item)
    /\ Len(all) = Len(buf) + n
    /\ \A i \in 1 .. Len(buf) + n : all[i] = IF i <= Len(buf) THEN buf[i] ELSE rx[i - Len(buf)]

-----------------------------------------------------------------------------
(* The inductive invariant: types *)

Errors == {"E2BIG", "EBADMSG", "ECONNRESET", "EHOSTDOWN"}
FragmentPlaces == {"fragment", "partial", "partial_timeout"}

SockOK(s) ==
    /\ s \in [fd : BOOLEAN, reqs : Seq([file : File, from : Nat, to : Nat]),
              rx : Seq(Item), open : BOOLEAN]
    /\ ~ s.fd => s = NoSock
SockType == SockOK(sock)

ClientRecord ==
    [file : File, frag : 0 .. BUF_SIZE, file_size : Nat, progress : Nat,
     buf : Seq(Item), has_header : BOOLEAN, connection_close : BOOLEAN, len : Int]
ClientOK(c) ==
    /\ c \in ClientRecord
    /\ Len(c.buf) <= BUF_SIZE
    /\ c.progress <= Size[c.file] \/ c.progress = DIRTY_IMAGE
ClientType == ClientOK(cl)

ThreadType ==
    /\ suspended \in BOOLEAN
    /\ pc \in {"suspend", "recv", "callback", "return", "send_again", "stuck"}
    /\ at \in FragmentPlaces \cup {"none", "reset", "stop"}

FotaType ==
    /\ first_fragment \in BOOLEAN
    /\ socket_retries_left \in 0 .. FOTA_SOCKET_RETRIES
    /\ dlc_with_offset_work \in BOOLEAN
    /\ status \in {"idle", "active", "finished", "error"}
    /\ want \in File
    /\ files \in Devices

-----------------------------------------------------------------------------
(* The inductive invariant: the thread *)

(* Nothing is asked for, and no answer is on its way. *)
Silent(s) == s.reqs = <<>> /\ NoEnd(s.rx)
Quiet == Silent(sock)

(* At most one request, and its answer. *)
Waiting(s, f, from) ==
    /\ Answering(s.rx, f, from)
    /\ s.reqs # <<>> =>
          /\ NoEnd(s.rx)
          /\ Len(s.reqs) = 1
          /\ s.reqs[1].file = f
          /\ s.reqs[1].from = from

(* The buffer holds data that was counted. *)
Buffered(c) ==
    /\ c.has_header
    /\ c.file_size = Size[c.file]
    /\ Len(c.buf) <= c.progress
    /\ Data(c.buf, c.file, c.progress - Len(c.buf))

(* Waiting for the answer to a request, or for the rest of it. *)
Receiving ==
    /\ status = "active"
    /\ sock.fd
    /\ cl.has_header =>
          /\ Buffered(cl)
          /\ Len(cl.buf) < FRAG_SIZE
          /\ cl.progress < Size[cl.file]
          /\ sock.reqs = <<>>
          /\ Data(sock.rx, cl.file, cl.progress)
    /\ ~ cl.has_header =>
          /\ NoEnd(cl.buf)
          /\ Waiting(sock, cl.file, cl.progress)

(* The callback has an event, and ends the update or lets it go on. *)
Calling ==
    /\ status = "active"
    /\ \/ /\ evt = Fragment(cl) /\ at \in FragmentPlaces
          /\ cl.buf # <<>> /\ Buffered(cl)
          /\ sock.fd /\ Quiet
       \/ /\ evt = [id |-> "DONE"] /\ at = "stop"
          /\ cl.progress = Size[cl.file] /\ ~ first_fragment
          /\ sock.fd /\ Quiet
       \/ \E e \in Errors : evt = Error(e) /\ at = IF e = "ECONNRESET" THEN "reset" ELSE "stop"

(* The thread suspends itself, or has. An update that was started in       *)
(* between has its request on its way, and nobody to wait for the answer.  *)
Suspending == IF status = "active" /\ ~ dlc_with_offset_work THEN ~ cl.has_header ELSE Quiet

Returning ==
    \/ /\ rc = "OK" /\ at \in FragmentPlaces
       /\ status = "active" /\ ~ first_fragment
       /\ cl.file_size = Size[cl.file] /\ sock.fd /\ Quiet
    \/ /\ rc = "OK" /\ at = "reset"
       /\ status = "active"
    \/ /\ at # "none" /\ (rc # "OK" \/ at = "stop")
       /\ Suspending

SendingAgain == status = "active" /\ Quiet

ThreadPhase ==
    /\ suspended => pc = "recv" /\ Suspending
    /\ ~ suspended =>
          /\ pc = "recv" => Receiving
          /\ pc = "callback" => Calling
          /\ pc = "return" => Returning
          /\ pc = "send_again" => SendingAgain
          /\ pc = "suspend" => Suspending
          /\ pc = "stuck" => status = "active"
          /\ dlc_with_offset_work =>
                \/ pc = "suspend"
                \/ pc = "return" /\ rc # "OK" /\ at \in FragmentPlaces

(* What the client has handed out. *)
Offset == cl.progress - Pending

(* What the client works on. *)
Counting ==
    status = "active" =>
        /\ cl.file = want /\ want \in files
        /\ cl.file_size \in {0, Size[cl.file]}
        /\ first_fragment /\ pc # "stuck" => Offset = 0

-----------------------------------------------------------------------------
(* The inductive invariant: the targets *)

(* What a target holds is the start of a file. *)
Holds(s, f, from) ==
    /\ from + Len(s) <= Size[f]
    /\ \A i \in 1 .. Len(s) : s[i] = [file |-> f, at |-> from + i - 1]

Starts(slot, n, f) == \A i \in 1 .. n : slot[i] = [file |-> f, at |-> i - 1]

SlotHolds(d, f) == Starts(d.slot, d.img, f) /\ Holds(d.img_buf, f, d.img)

(* The patch in the modem is of the file, and its start unless that was    *)
(* deleted while the rest was being sent.                                  *)
BankOf(d, f) ==
    /\ Len(d.bank) <= Size[f]
    /\ \A i \in 1 .. Len(d.bank) : d.bank[i].file = f
    /\ ~ d.misplaced => Holds(d.bank, f, 0)

Empty(d) == d.img = 0 /\ d.img_buf = <<>>

DfuOK(d) == d \in DfuState /\ d.img <= Len(d.slot)
DfuType == DfuOK(dfu)

TargetOfDevice ==
    /\ dfu.current_target # "NULL" => \E f \in files : Type[f] = dfu.current_target
    /\ status = "active" /\ ~ first_fragment => Type[want] = dfu.current_target
    /\ \A f \in files : Type[f] = "MODEM" => BankOf(dfu, f)

(* Before the first fragment the MCUboot target is empty, and only the     *)
(* MCUboot target is left selected for the next update.                    *)
TargetWaits ==
    /\ first_fragment /\ dfu.current_target = "MCUBOOT" => Empty(dfu)
    /\ ~ first_fragment => dfu.current_target # "NULL"
    /\ ~ first_fragment /\ status # "active" => dfu.current_target = "MCUBOOT" /\ Empty(dfu)
    /\ ~ first_fragment /\ status = "active" /\ dfu.current_target = "MODEM" /\ pc # "stuck" =>
            dfu.fd /\ dfu.offset = modem_offset(dfu)

(* A download from the offset of the modem was scheduled. *)
WorkWaits ==
    dlc_with_offset_work =>
        status = "active" /\ ~ first_fragment /\ dfu.current_target = "MODEM" /\ sock.fd

(* The target holds what was counted and handed out. *)
Counts(d, n) == Len(d.bank) <= n /\ (~ d.misplaced => Len(d.bank) = n)

TargetCounts ==
    status = "active" /\ ~ first_fragment /\ ~ dlc_with_offset_work /\ pc # "stuck" =>
        /\ dfu.current_target = "MCUBOOT" =>
              SlotHolds(dfu, want) /\ dfu.img + Len(dfu.img_buf) = Offset
        /\ dfu.current_target = "MODEM" =>
              IF dfu.dirty THEN cl.progress = DIRTY_IMAGE
              ELSE Counts(dfu, Offset)

IInv ==
    /\ SockType /\ ClientType /\ ThreadType /\ FotaType
    /\ ThreadPhase /\ Counting
    /\ DfuType /\ TargetOfDevice /\ TargetWaits /\ WorkWaits /\ TargetCounts

-----------------------------------------------------------------------------
(* Sequences *)

LEMMA SubSeqFacts ==
    ASSUME NEW S, NEW s \in Seq(S), NEW m \in Nat, NEW n \in Nat,
           1 <= m, m <= n + 1, n <= Len(s)
    PROVE  /\ SubSeq(s, m, n) \in Seq(S) /\ Len(SubSeq(s, m, n)) = n - m + 1
           /\ \A j \in 1 .. n - m + 1 : SubSeq(s, m, n)[j] = s[m + j - 1]
<1> DEFINE b == SubSeq(s, m, n)
<1>1. \A k \in m .. n : s[k] \in S
  BY LenProperties, ElementOfSeq
<1>2. /\ b \in Seq(S) /\ Len(b) = (IF m <= n THEN n - m + 1 ELSE 0)
      /\ \A j \in 1 .. n - m + 1 : b[j] = s[m + j - 1]
  BY <1>1, SubSeqProperties
<1> HIDE DEF b
<1>3. /\ b \in Seq(S) /\ Len(b) = n - m + 1
      /\ \A j \in 1 .. n - m + 1 : b[j] = s[m + j - 1]
  BY <1>2
<1> QED BY <1>3 DEF b

(* A set of numbers that is not empty has a first one. *)
LEMMA FirstExists ==
    ASSUME NEW S \in SUBSET Nat, S # {}
    PROVE  \E j \in S : \A k \in S : j <= k
<1>1. PICK j \in S : \A k \in S : ~(<<k, j>> \in OpToRel(<, Nat))
  BY NatLessThanWellFounded, WFMin, Zenon
<1>2. ASSUME NEW k \in S PROVE j <= k
  <2>1. ~(k < j)
    BY <1>1, <1>2 DEF OpToRel
  <2> QED BY <2>1
<1> QED BY <1>2

(* A file and its parts. *)
LEMMA ImageFacts ==
    ASSUME NEW f \in File
    PROVE  /\ Image(f) \in Seq(Unit) /\ Len(Image(f)) = Size[f]
           /\ Size[f] \in Nat \ {0}
           /\ \A i \in 1 .. Size[f] : Image(f)[i] = [file |-> f, at |-> i - 1]
<1>1. Size[f] \in Nat \ {0}
  BY DfuAssumption
<1>2. Image(f) \in [1 .. Size[f] -> Unit]
  BY <1>1 DEF Image, Unit
<1>3. Image(f) \in Seq(Unit) /\ Len(Image(f)) = Size[f]
  BY <1>1, <1>2
<1> QED BY <1>1, <1>3 DEF Image

LEMMA PartFacts ==
    ASSUME NEW f \in File, NEW m \in Nat, NEW n \in Nat, m <= n, n <= Size[f]
    PROVE  /\ Part(f, m, n) \in Seq(Unit) /\ Len(Part(f, m, n)) = n - m
           /\ \A i \in 1 .. n - m : Part(f, m, n)[i] = [file |-> f, at |-> m + i - 1]
<1> DEFINE im == Image(f)
<1>1. /\ im \in Seq(Unit) /\ Len(im) = Size[f] /\ Size[f] \in Nat
      /\ \A i \in 1 .. Size[f] : im[i] = [file |-> f, at |-> i - 1]
  BY ImageFacts
<1>2. Part(f, m, n) = SubSeq(im, m + 1, n)
  BY DEF Part
<1> HIDE DEF im
<1>3. /\ SubSeq(im, m + 1, n) \in Seq(Unit) /\ Len(SubSeq(im, m + 1, n)) = n - (m + 1) + 1
      /\ \A j \in 1 .. n - (m + 1) + 1 : SubSeq(im, m + 1, n)[j] = im[m + 1 + j - 1]
  BY <1>1, SubSeqFacts
<1>4. ASSUME NEW i \in 1 .. n - m PROVE Part(f, m, n)[i] = [file |-> f, at |-> m + i - 1]
  <2>1. m + i \in 1 .. Size[f] /\ m + 1 + i - 1 = m + i
    BY <1>1
  <2> QED BY <1>1, <1>2, <1>3, <2>1
<1> QED BY <1>2, <1>3, <1>4

-----------------------------------------------------------------------------
(* Data on its way *)

LEMMA DataNoEnd ==
    ASSUME NEW s, NEW f, NEW p, Data(s, f, p)
    PROVE  NoEnd(s)
<1>1. ASSUME NEW n PROVE DataItem(f, n).k = "data"
  BY DEF DataItem
<1>2. ASSUME NEW i \in 1 .. Len(s) PROVE s[i].k # "end"
  <2>1. s[i] = DataItem(f, p + i - 1)
    BY DEF Data
  <2> QED BY <1>1, <2>1
<1> QED BY <1>2 DEF NoEnd

LEMMA DataSplit ==
    ASSUME NEW s \in Seq(Item), NEW f \in File, NEW p \in Nat, NEW n \in 0 .. Len(s), Data(s, f, p)
    PROVE  /\ Data(SubSeq(s, 1, n), f, p)
           /\ Data(SubSeq(s, n + 1, Len(s)), f, p + n)
<1> DEFINE a == SubSeq(s, 1, n)
           b == SubSeq(s, n + 1, Len(s))
<1>0. Len(s) \in Nat /\ Size[f] \in Nat
  BY ImageFacts
<1>1. Len(a) = n /\ \A j \in 1 .. n : a[j] = s[j]
  <2>1. Len(a) = n - 1 + 1 /\ \A j \in 1 .. n - 1 + 1 : a[j] = s[1 + j - 1]
    BY <1>0, SubSeqFacts
  <2> HIDE DEF a
  <2> QED BY <1>0, <2>1
<1>2. Len(b) = Len(s) - n /\ \A j \in 1 .. Len(s) - n : b[j] = s[n + j]
  <2>1. /\ Len(b) = Len(s) - (n + 1) + 1
        /\ \A j \in 1 .. Len(s) - (n + 1) + 1 : b[j] = s[n + 1 + j - 1]
    BY <1>0, SubSeqFacts
  <2> HIDE DEF b
  <2> QED BY <1>0, <2>1
<1> HIDE DEF a, b
<1>3. Data(a, f, p)
  <2>1. ASSUME NEW j \in 1 .. Len(a) PROVE a[j] = DataItem(f, p + j - 1)
    <3>1. j \in 1 .. Len(s) /\ j \in 1 .. n
      BY <1>0, <1>1
    <3> QED BY <1>1, <3>1 DEF Data
  <2> QED BY <1>0, <1>1, <2>1 DEF Data
<1>4. Data(b, f, p + n)
  <2>1. ASSUME NEW j \in 1 .. Len(b) PROVE b[j] = DataItem(f, p + n + j - 1)
    <3>1. n + j \in 1 .. Len(s) /\ p + (n + j) - 1 = p + n + j - 1
      BY <1>0, <1>2
    <3> QED BY <1>2, <3>1 DEF Data
  <2>2. p + n + Len(b) <= Size[f]
    <3>1. p + Len(s) <= Size[f]
      BY DEF Data
    <3> QED BY <1>0, <1>2, <3>1
  <2> QED BY <2>1, <2>2 DEF Data
<1> QED BY <1>3, <1>4 DEF a, b

LEMMA DataJoin ==
    ASSUME NEW s \in Seq(Item), NEW t \in Seq(Item), NEW f \in File, NEW p \in Nat,
           Data(s, f, p), Data(t, f, p + Len(s))
    PROVE  Data(s \o t, f, p)
<1>0. Len(s) \in Nat /\ Len(t) \in Nat /\ Size[f] \in Nat
  BY ImageFacts
<1> DEFINE c == s \o t
<1>1. /\ Len(c) = Len(s) + Len(t)
      /\ \A i \in 1 .. Len(s) + Len(t) : c[i] = IF i <= Len(s) THEN s[i] ELSE t[i - Len(s)]
  BY ConcatProperties
<1> HIDE DEF c
<1>2. ASSUME NEW i \in 1 .. Len(c) PROVE c[i] = DataItem(f, p + i - 1)
  <2>1. CASE i <= Len(s)
    <3>1. i \in 1 .. Len(s) /\ i \in 1 .. Len(s) + Len(t)
      BY <1>0, <1>1, <2>1
    <3> QED BY <1>1, <2>1, <3>1 DEF Data
  <2>2. CASE ~(i <= Len(s))
    <3>1. i - Len(s) \in 1 .. Len(t) /\ p + Len(s) + (i - Len(s)) - 1 = p + i - 1
      BY <1>0, <1>1, <2>2
    <3>2. i \in 1 .. Len(s) + Len(t)
      BY <1>1
    <3> QED BY <1>1, <2>2, <3>1, <3>2 DEF Data
  <2> QED BY <2>1, <2>2
<1>3. p + Len(c) <= Size[f]
  BY <1>0, <1>1 DEF Data
<1> QED BY <1>2, <1>3 DEF Data, c

LEMMA NoEndSplit ==
    ASSUME NEW s \in Seq(Item), NEW m \in Nat, NEW n \in Nat, 1 <= m, m <= n + 1, n <= Len(s),
           NoEnd(s)
    PROVE  NoEnd(SubSeq(s, m, n))
<1> DEFINE b == SubSeq(s, m, n)
<1>1. Len(b) = n - m + 1 /\ \A j \in 1 .. n - m + 1 : b[j] = s[m + j - 1]
  BY SubSeqFacts
<1>2. Len(s) \in Nat
  OBVIOUS
<1> HIDE DEF b
<1>3. ASSUME NEW j \in 1 .. Len(b) PROVE b[j].k # "end"
  <2>1. m + j - 1 \in 1 .. Len(s) /\ j \in 1 .. n - m + 1
    BY <1>1, <1>2
  <2> QED BY <1>1, <2>1 DEF NoEnd
<1> QED BY <1>3 DEF NoEnd, b

LEMMA NoEndJoin ==
    ASSUME NEW s \in Seq(Item), NEW t \in Seq(Item), NoEnd(s), NoEnd(t)
    PROVE  NoEnd(s \o t)
<1> DEFINE c == s \o t
<1>0. Len(s) \in Nat /\ Len(t) \in Nat
  OBVIOUS
<1>1. /\ Len(c) = Len(s) + Len(t)
      /\ \A i \in 1 .. Len(s) + Len(t) : c[i] = IF i <= Len(s) THEN s[i] ELSE t[i - Len(s)]
  BY ConcatProperties
<1> HIDE DEF c
<1>2. ASSUME NEW i \in 1 .. Len(c) PROVE c[i].k # "end"
  <2>1. i <= Len(s) => i \in 1 .. Len(s)
    BY <1>0
  <2>2. ~(i <= Len(s)) => i - Len(s) \in 1 .. Len(t)
    BY <1>0, <1>1
  <2> QED BY <1>1, <2>1, <2>2 DEF NoEnd
<1> QED BY <1>2 DEF NoEnd, c

LEMMA AnswerAfter ==
    ASSUME NEW s \in Seq(Item), NEW t \in Seq(Item), NEW f \in File, NEW p \in Nat,
           NoEnd(s), Answering(t, f, p)
    PROVE  Answering(s \o t, f, p)
<1> DEFINE c == s \o t
           l == Len(s)
<1>0. l \in Nat /\ Len(t) \in Nat /\ Size[f] \in Nat
  BY ImageFacts
<1>1. /\ Len(c) = l + Len(t)
      /\ \A i \in 1 .. l + Len(t) : c[i] = IF i <= l THEN s[i] ELSE t[i - l]
  BY ConcatProperties
<1>2. \A i \in 1 .. l : s[i].k # "end"
  BY DEF NoEnd
<1> HIDE DEF c, l
<1>3. ASSUME NEW i \in 1 .. Len(c), c[i].k = "end", c[i].ok, \A j \in 1 .. i - 1 : c[j].k # "end"
      PROVE  /\ c[i].size = Size[f]
             /\ p < Size[f]
             /\ p + (Len(c) - i) <= Size[f]
             /\ \A j \in i + 1 .. Len(c) : c[j] = DataItem(f, p + j - i - 1)
  <2>1. i > l
    <3>1. SUFFICES ASSUME i <= l PROVE FALSE
      BY <1>0, <1>1
    <3>2. i \in 1 .. l /\ i \in 1 .. l + Len(t)
      BY <1>0, <1>1, <3>1
    <3> QED BY <1>1, <1>2, <1>3, <3>1, <3>2
  <2>2. i - l \in 1 .. Len(t) /\ i \in 1 .. l + Len(t) /\ ~(i <= l)
    BY <1>0, <1>1, <2>1
  <2>3. c[i] = t[i - l]
    BY <1>1, <2>2
  <2>4. ASSUME NEW j \in 1 .. (i - l) - 1 PROVE t[j].k # "end"
    <3>1. j + l \in 1 .. i - 1 /\ j + l \in 1 .. l + Len(t) /\ ~(j + l <= l) /\ (j + l) - l = j
      BY <1>0, <2>2
    <3> QED BY <1>1, <1>3, <3>1
  <2>5. /\ t[i - l].size = Size[f]
        /\ p < Size[f]
        /\ p + (Len(t) - (i - l)) <= Size[f]
        /\ \A j \in (i - l) + 1 .. Len(t) : t[j] = DataItem(f, p + j - (i - l) - 1)
    BY <1>3, <2>2, <2>3, <2>4 DEF Answering
  <2>6. ASSUME NEW j \in i + 1 .. Len(c) PROVE c[j] = DataItem(f, p + j - i - 1)
    <3>1. /\ j - l \in (i - l) + 1 .. Len(t) /\ j \in 1 .. l + Len(t) /\ ~(j <= l)
          /\ p + (j - l) - (i - l) - 1 = p + j - i - 1
      BY <1>0, <1>1, <2>2
    <3> QED BY <1>1, <2>5, <3>1
  <2>7. p + (Len(c) - i) <= Size[f]
    BY <1>0, <1>1, <2>2, <2>5
  <2> QED BY <2>3, <2>5, <2>6, <2>7
<1> QED BY <1>3 DEF Answering, c

LEMMA AnswerSkip ==
    ASSUME NEW s \in Seq(Item), NEW f \in File, NEW p \in Nat, NEW n \in 0 .. Len(s),
           Answering(s, f, p), \A j \in 1 .. n : s[j].k # "end"
    PROVE  Answering(SubSeq(s, n + 1, Len(s)), f, p)
<1> DEFINE b == SubSeq(s, n + 1, Len(s))
<1>0. Len(s) \in Nat /\ Size[f] \in Nat
  BY ImageFacts
<1>1. Len(b) = Len(s) - n /\ \A j \in 1 .. Len(s) - n : b[j] = s[n + j]
  <2>1. /\ Len(b) = Len(s) - (n + 1) + 1
        /\ \A j \in 1 .. Len(s) - (n + 1) + 1 : b[j] = s[n + 1 + j - 1]
    BY <1>0, SubSeqFacts
  <2> HIDE DEF b
  <2> QED BY <1>0, <2>1
<1> HIDE DEF b
<1>2. ASSUME NEW i \in 1 .. Len(b), b[i].k = "end", b[i].ok, \A j \in 1 .. i - 1 : b[j].k # "end"
      PROVE  /\ b[i].size = Size[f]
             /\ p < Size[f]
             /\ p + (Len(b) - i) <= Size[f]
             /\ \A j \in i + 1 .. Len(b) : b[j] = DataItem(f, p + j - i - 1)
  <2>1. n + i \in 1 .. Len(s) /\ b[i] = s[n + i]
    BY <1>0, <1>1
  <2>2. ASSUME NEW j \in 1 .. (n + i) - 1 PROVE s[j].k # "end"
    <3>1. CASE j <= n
      BY <3>1
    <3>2. CASE ~(j <= n)
      <4>1. j - n \in 1 .. i - 1 /\ j - n \in 1 .. Len(s) - n /\ n + (j - n) = j
        BY <1>0, <1>1, <3>2
      <4> QED BY <1>1, <1>2, <4>1
    <3> QED BY <3>1, <3>2
  <2>3. /\ s[n + i].size = Size[f]
        /\ p < Size[f]
        /\ p + (Len(s) - (n + i)) <= Size[f]
        /\ \A j \in (n + i) + 1 .. Len(s) : s[j] = DataItem(f, p + j - (n + i) - 1)
    BY <1>2, <2>1, <2>2 DEF Answering
  <2>4. ASSUME NEW j \in i + 1 .. Len(b) PROVE b[j] = DataItem(f, p + j - i - 1)
    <3>1. /\ n + j \in (n + i) + 1 .. Len(s) /\ j \in 1 .. Len(s) - n
          /\ p + (n + j) - (n + i) - 1 = p + j - i - 1
      BY <1>0, <1>1
    <3> QED BY <1>1, <2>3, <3>1
  <2>5. p + (Len(b) - i) <= Size[f]
    BY <1>0, <1>1, <2>3
  <2> QED BY <2>1, <2>3, <2>4, <2>5
<1> QED BY <1>2 DEF Answering, b

LEMMA FirstEndFacts ==
    ASSUME NEW s \in Seq(Item), HdrEnds(s) # {}
    PROVE  /\ FirstEnd(s) \in 1 .. Len(s)
           /\ s[FirstEnd(s)].k = "end"
           /\ \A j \in 1 .. FirstEnd(s) - 1 : s[j].k # "end"
<1> DEFINE h == FirstEnd(s)
<1>1. DOMAIN s = 1 .. Len(s) /\ Len(s) \in Nat
  BY LenProperties
<1>2. HdrEnds(s) \in SUBSET Nat
  BY <1>1 DEF HdrEnds
<1>3. \E j \in HdrEnds(s) : \A k \in HdrEnds(s) : j <= k
  BY <1>2, FirstExists
<1>4. h \in HdrEnds(s) /\ \A k \in HdrEnds(s) : h <= k
  BY <1>3 DEF FirstEnd
<1> HIDE DEF h
<1>5. h \in 1 .. Len(s) /\ s[h].k = "end"
  BY <1>1, <1>4 DEF HdrEnds
<1>6. ASSUME NEW j \in 1 .. h - 1 PROVE s[j].k # "end"
  <2>1. j \in 1 .. Len(s) /\ ~(h <= j)
    BY <1>1, <1>5
  <2> QED BY <1>1, <1>4, <2>1 DEF HdrEnds
<1> QED BY <1>5, <1>6 DEF h

LEMMA NoHdrEnds ==
    ASSUME NEW s \in Seq(Item), HdrEnds(s) = {}
    PROVE  NoEnd(s)
<1>1. DOMAIN s = 1 .. Len(s)
  BY LenProperties
<1> QED BY <1>1 DEF HdrEnds, NoEnd

(* The first items of an answer are received after others: when a good     *)
(* header ends among them, what was received and what is left is its data. *)
LEMMA AnswerParse ==
    ASSUME NEW b \in Seq(Item), NEW r \in Seq(Item), NEW f \in File, NEW p \in Nat,
           NEW n \in 1 .. Len(r), NEW all, Received(all, b, r, n),
           NoEnd(b), Answering(r, f, p), HdrEnds(all) # {}, all[FirstEnd(all)].ok
    PROVE  /\ FirstEnd(all) \in Len(b) + 1 .. Len(all)
           /\ all[FirstEnd(all)].size = Size[f]
           /\ p < Size[f]
           /\ Data(SubSeq(all, FirstEnd(all) + 1, Len(all)), f, p)
           /\ Data(SubSeq(r, n + 1, Len(r)), f, p + (Len(all) - FirstEnd(all)))
<1> DEFINE h == FirstEnd(all)
           l == Len(b)
<1>0. l \in Nat /\ Len(r) \in Nat /\ Size[f] \in Nat
  BY ImageFacts
<1>1. all \in Seq(Item) /\ Len(all) = l + n
  BY DEF Received
<1>2. /\ \A i \in 1 .. l + n : all[i] = IF i <= l THEN b[i] ELSE r[i - l]
  BY DEF Received
<1>3. /\ h \in 1 .. Len(all) /\ all[h].k = "end"
      /\ \A j \in 1 .. h - 1 : all[j].k # "end"
  BY <1>1, FirstEndFacts
<1>4. \A i \in 1 .. l : b[i].k # "end"
  BY DEF NoEnd
<1>5. all[h].ok
  OBVIOUS
<1> HIDE DEF h, l
<1>6. h > l
  <2>1. SUFFICES ASSUME h <= l PROVE FALSE
    BY <1>0, <1>1, <1>3
  <2>2. h \in 1 .. l /\ h \in 1 .. l + n
    BY <1>0, <1>1, <1>3, <2>1
  <2> QED BY <1>2, <1>3, <1>4, <2>1, <2>2
<1>7. PICK m \in 1 .. n : h = l + m /\ m \in 1 .. Len(r) /\ h \in 1 .. l + n /\ ~(h <= l)
  <2>1. h - l \in 1 .. n /\ h = l + (h - l) /\ h - l \in 1 .. Len(r) /\ h \in 1 .. l + n /\ ~(h <= l)
    BY <1>0, <1>1, <1>3, <1>6
  <2> QED BY <2>1
<1>8. all[h] = r[m]
  <2>1. h - l = m
    BY <1>0, <1>7
  <2> QED BY <1>2, <1>7, <2>1
<1>9. ASSUME NEW j \in 1 .. m - 1 PROVE r[j].k # "end"
  <2>1. /\ j + l \in 1 .. h - 1 /\ j + l \in 1 .. l + n /\ ~(j + l <= l)
        /\ (j + l) - l = j /\ j \in 1 .. n
    BY <1>0, <1>1, <1>3, <1>7
  <2> QED BY <1>2, <1>3, <2>1
<1>10. /\ r[m].size = Size[f]
       /\ p < Size[f]
       /\ p + (Len(r) - m) <= Size[f]
       /\ \A j \in m + 1 .. Len(r) : r[j] = DataItem(f, p + j - m - 1)
  BY <1>3, <1>5, <1>7, <1>8, <1>9 DEF Answering
<1>14. Len(all) - h = n - m /\ h \in Nat /\ Len(all) \in Nat /\ h <= Len(all)
  <2>1. Len(all) = l + n /\ h = l + m /\ h \in Nat /\ m \in Nat
    BY <1>0, <1>1, <1>7
  <2> HIDE DEF l
  <2> QED BY <1>0, <2>1
<1>11. Data(SubSeq(all, h + 1, Len(all)), f, p)
  <2> DEFINE c == SubSeq(all, h + 1, Len(all))
  <2>1. /\ Len(c) = Len(all) - (h + 1) + 1
        /\ \A j \in 1 .. Len(all) - (h + 1) + 1 : c[j] = all[h + 1 + j - 1]
    BY <1>1, <1>14, SubSeqFacts
  <2> HIDE DEF c
  <2>2. Len(c) = n - m
    BY <1>14, <2>1
  <2>3. ASSUME NEW j \in 1 .. Len(c) PROVE c[j] = DataItem(f, p + j - 1)
    <3>1. /\ h + 1 + j - 1 = h + j /\ h + j \in 1 .. l + n /\ ~(h + j <= l) /\ (h + j) - l = m + j
          /\ m + j \in 1 .. n /\ m + j \in m + 1 .. Len(r) /\ p + (m + j) - m - 1 = p + j - 1
          /\ j \in 1 .. Len(all) - (h + 1) + 1
      BY <1>0, <1>1, <1>7, <2>1, <2>2
    <3>2. c[j] = r[m + j]
      BY <1>2, <2>1, <3>1
    <3> QED BY <1>10, <3>1, <3>2
  <2>4. p + Len(c) <= Size[f]
    <3>1. p + (Len(r) - m) <= Size[f] /\ n <= Len(r) /\ m \in Nat
      BY <1>7, <1>10
    <3> QED BY <1>0, <2>2, <3>1
  <2> QED BY <2>3, <2>4 DEF Data, c
<1>12. Data(SubSeq(r, n + 1, Len(r)), f, p + (Len(all) - h))
  <2> DEFINE c == SubSeq(r, n + 1, Len(r))
  <2>1. /\ Len(c) = Len(r) - (n + 1) + 1
        /\ \A j \in 1 .. Len(r) - (n + 1) + 1 : c[j] = r[n + 1 + j - 1]
    BY <1>0, SubSeqFacts
  <2> HIDE DEF c
  <2>2. Len(all) - h = n - m
    BY <1>14
  <2>3. ASSUME NEW j \in 1 .. Len(c) PROVE c[j] = DataItem(f, p + (Len(all) - h) + j - 1)
    <3>1. /\ n + 1 + j - 1 = n + j /\ n + j \in m + 1 .. Len(r)
          /\ p + (n + j) - m - 1 = p + (Len(all) - h) + j - 1
          /\ j \in 1 .. Len(r) - (n + 1) + 1
      <4>1. Len(c) = Len(r) - n /\ m \in Nat /\ m <= n
        BY <1>0, <1>7, <2>1
      <4> QED BY <1>0, <2>2, <4>1
    <3> QED BY <1>10, <2>1, <3>1
  <2>4. p + (Len(all) - h) + Len(c) <= Size[f]
    BY <1>0, <1>7, <1>10, <2>1, <2>2
  <2> QED BY <2>3, <2>4 DEF Data, c
<1>13. h \in l + 1 .. Len(all)
  BY <1>0, <1>1, <1>3, <1>6
<1> QED BY <1>8, <1>10, <1>11, <1>12, <1>13 DEF h, l

LEMMA PayloadFacts ==
    ASSUME NEW u \in Seq(Unit)
    PROVE  /\ Payload(u) \in Seq(Item) /\ Len(Payload(u)) = Len(u)
           /\ \A i \in 1 .. Len(u) : Payload(u)[i] = [k |-> "data", unit |-> u[i]]
<1>1. DOMAIN u = 1 .. Len(u) /\ Len(u) \in Nat /\ \A i \in 1 .. Len(u) : u[i] \in Unit
  BY LenProperties, ElementOfSeq
<1>2. Payload(u) = [i \in 1 .. Len(u) |-> [k |-> "data", unit |-> u[i]]]
  BY <1>1 DEF Payload
<1>3. Payload(u) \in [1 .. Len(u) -> Item]
  BY <1>1, <1>2 DEF Item
<1>4. Payload(u) \in Seq(Item) /\ Len(Payload(u)) = Len(u)
  BY <1>1, <1>3
<1> QED BY <1>2, <1>4

LEMMA PairFacts ==
    ASSUME NEW S, NEW a \in S, NEW b \in S
    PROVE  /\ <<a, b>> \in Seq(S) /\ Len(<<a, b>>) = 2
           /\ <<a, b>>[1] = a /\ <<a, b>>[2] = b
  OBVIOUS

LEMMA ReceivedFacts ==
    ASSUME NEW b \in Seq(Item), NEW r \in Seq(Item), NEW n \in 0 .. Len(r)
    PROVE  Received(b \o SubSeq(r, 1, n), b, r, n)
<1> DEFINE a == SubSeq(r, 1, n)
           c == b \o a
<1>0. Len(b) \in Nat /\ Len(r) \in Nat
  OBVIOUS
<1>1. a \in Seq(Item) /\ Len(a) = n /\ \A j \in 1 .. n : a[j] = r[j]
  <2>1. a \in Seq(Item) /\ Len(a) = n - 1 + 1 /\ \A j \in 1 .. n - 1 + 1 : a[j] = r[1 + j - 1]
    BY <1>0, SubSeqFacts
  <2> HIDE DEF a
  <2> QED BY <1>0, <2>1
<1> HIDE DEF a
<1>2. /\ c \in Seq(Item) /\ Len(c) = Len(b) + Len(a)
      /\ \A i \in 1 .. Len(b) + Len(a) : c[i] = IF i <= Len(b) THEN b[i] ELSE a[i - Len(b)]
  BY <1>1, ConcatProperties
<1> HIDE DEF c
<1>3. ASSUME NEW i \in 1 .. Len(b) + n PROVE c[i] = IF i <= Len(b) THEN b[i] ELSE r[i - Len(b)]
  <2>1. ~(i <= Len(b)) => i - Len(b) \in 1 .. n
    BY <1>0
  <2> QED BY <1>1, <1>2, <2>1
<1>4. Received(c, b, r, n)
  BY <1>1, <1>2, <1>3 DEF Received
<1> QED BY <1>4 DEF a, c

LEMMA AnswerMade ==
    ASSUME NEW q \in [file : File, from : Nat, to : Nat], NEW close \in BOOLEAN, PROTO = "TLS"
    PROVE  Answer(q, close) \in Seq(Item) /\ Answering(Answer(q, close), q.file, q.from)
<1> DEFINE f == q.file
           last == IF q.to < Size[f] THEN q.to + 1 ELSE Size[f]
           u == Part(f, q.from, last)
           b == Payload(u)
           h == HdrEnd(TRUE, Size[f], close)
           s == <<HdrStart, h>>
           g == HdrEnd(FALSE, 0, close)
           bad == <<HdrStart, g>>
<1>1. f \in File /\ Size[f] \in Nat /\ last \in Nat /\ last <= Size[f] /\ q.from \in Nat
  BY ImageFacts
<1>2. Answer(q, close) = IF q.from >= Size[f] THEN bad ELSE s \o b
  BY DEF Answer
<1>3. /\ bad \in Seq(Item) /\ Len(bad) = 2 /\ bad[1].k = "hdr" /\ ~bad[2].ok
      /\ s \in Seq(Item) /\ Len(s) = 2 /\ s[1].k = "hdr" /\ s[2] = h
      /\ h.k = "end" /\ h.size = Size[f]
  <2>1. /\ h \in Item /\ h.k = "end" /\ h.size = Size[f] /\ g \in Item /\ g.ok = FALSE
        /\ HdrStart \in Item /\ HdrStart.k = "hdr"
    <3>1. Size[f] \in Nat /\ 0 \in Nat /\ TRUE \in BOOLEAN /\ FALSE \in BOOLEAN
      BY <1>1
    <3> HIDE DEF f
    <3>2. h \in Item /\ h.k = "end" /\ h.size = Size[f]
      BY <3>1 DEF HdrEnd, Item
    <3>3. g \in Item /\ g.ok = FALSE
      BY <3>1 DEF HdrEnd, Item
    <3> QED BY <3>2, <3>3 DEF HdrStart, Item
  <2> HIDE DEF h, g
  <2>2. bad \in Seq(Item) /\ Len(bad) = 2 /\ bad[1] = HdrStart /\ bad[2] = g
    BY <2>1, PairFacts
  <2>3. s \in Seq(Item) /\ Len(s) = 2 /\ s[1] = HdrStart /\ s[2] = h
    BY <2>1, PairFacts
  <2> HIDE DEF bad, s
  <2> QED BY <2>1, <2>2, <2>3
<1>4. CASE q.from >= Size[f]
  <2>1. Answering(bad, f, q.from)
    <3> HIDE DEF bad, f, g
    <3>1. ASSUME NEW i \in 1 .. Len(bad), bad[i].k = "end", bad[i].ok PROVE FALSE
      <4>1. i = 1 \/ i = 2
        BY <1>3
      <4> QED BY <1>3, <3>1, <4>1
    <3> QED BY <3>1 DEF Answering
  <2> QED BY <1>2, <1>3, <1>4, <2>1
<1>5. CASE ~(q.from >= Size[f])
  <2> HIDE DEF last
  <2>1. u \in Seq(Unit) /\ q.from + Len(u) <= Size[f]
        /\ \A i \in 1 .. Len(u) : u[i] = [file |-> f, at |-> q.from + i - 1]
    <3>1. CASE q.from <= last
      <4>1. /\ u \in Seq(Unit) /\ Len(u) = last - q.from
            /\ \A i \in 1 .. last - q.from : u[i] = [file |-> f, at |-> q.from + i - 1]
        BY <1>1, <3>1, PartFacts
      <4> HIDE DEF u, f
      <4> QED BY <1>1, <3>1, <4>1
    <3>2. CASE ~(q.from <= last)
      <4>1. u = <<>>
        <5>1. q.from + 1 \in Int /\ last \in Int /\ last < q.from + 1
          BY <1>1, <3>2
        <5> QED BY <5>1, SubSeqEmpty DEF Part
      <4> QED BY <1>1, <1>5, <4>1
    <3> QED BY <3>1, <3>2
  <2> HIDE DEF u
  <2>2. /\ b \in Seq(Item) /\ Len(b) = Len(u)
        /\ \A i \in 1 .. Len(u) : b[i] = [k |-> "data", unit |-> u[i]]
    BY <2>1, PayloadFacts
  <2> DEFINE c == s \o b
  <2>3. /\ c \in Seq(Item) /\ Len(c) = 2 + Len(b)
        /\ \A i \in 1 .. 2 + Len(b) : c[i] = IF i <= 2 THEN s[i] ELSE b[i - 2]
    <3> HIDE DEF s, b
    <3>1. /\ s \in Seq(Item) /\ b \in Seq(Item) /\ Len(s) = 2
      BY <1>3, <2>2
    <3>2. /\ c \in Seq(Item) /\ Len(c) = Len(s) + Len(b)
          /\ \A i \in 1 .. Len(s) + Len(b) : c[i] = IF i <= Len(s) THEN s[i] ELSE b[i - Len(s)]
      BY <3>1, ConcatProperties
    <3> HIDE DEF c
    <3> QED BY <3>1, <3>2
  <2> HIDE DEF c, b, s, h, f
  <2>4. Len(u) \in Nat
    BY <2>1
  <2>5. ASSUME NEW i \in 1 .. Len(c), c[i].k = "end", \A j \in 1 .. i - 1 : c[j].k # "end"
        PROVE  /\ c[i].size = Size[f]
               /\ q.from < Size[f]
               /\ q.from + (Len(c) - i) <= Size[f]
               /\ \A j \in i + 1 .. Len(c) : c[j] = DataItem(f, q.from + j - i - 1)
    <3>1. c[1] = s[1] /\ c[2] = s[2] /\ 1 \in 1 .. Len(c) /\ 2 \in 1 .. Len(c)
      BY <2>2, <2>3, <2>4
    <3>2. i = 2
      <4>1. i # 1
        BY <1>3, <2>5, <3>1
      <4>2. ~(i > 2)
        <5>1. i > 2 => 2 \in 1 .. i - 1
          OBVIOUS
        <5> QED BY <1>3, <2>5, <3>1, <5>1
      <4> QED BY <4>1, <4>2, <2>2, <2>3, <2>4
    <3>3. c[i].size = Size[f]
      BY <1>3, <3>1, <3>2
    <3>4. q.from < Size[f] /\ q.from + (Len(c) - i) <= Size[f]
      BY <1>1, <1>5, <2>1, <2>2, <2>3, <2>4, <3>2
    <3>5. ASSUME NEW j \in i + 1 .. Len(c) PROVE c[j] = DataItem(f, q.from + j - i - 1)
      <4>1. /\ j - 2 \in 1 .. Len(u) /\ ~(j <= 2) /\ j \in 1 .. 2 + Len(b)
            /\ q.from + (j - 2) - 1 = q.from + j - i - 1
        BY <1>1, <2>2, <2>3, <2>4, <3>2
      <4>2. c[j] = b[j - 2]
        BY <2>3, <4>1
      <4>3. b[j - 2] = [k |-> "data", unit |-> u[j - 2]]
        BY <2>2, <4>1
      <4>4. u[j - 2] = [file |-> f, at |-> q.from + (j - 2) - 1]
        BY <2>1, <4>1
      <4> QED BY <4>1, <4>2, <4>3, <4>4 DEF DataItem
    <3> QED BY <3>3, <3>4, <3>5
  <2>6. Answering(c, f, q.from)
    BY <2>5 DEF Answering
  <2> QED BY <1>2, <1>5, <2>3, <2>6 DEF c, f
<1> QED BY <1>4, <1>5

(* What the application gets of data. *)
LEMMA UnitsFacts ==
    ASSUME NEW s \in Seq(Item), NEW f \in File, NEW p \in Nat, Data(s, f, p)
    PROVE  Units(s) \in Seq(Unit) /\ Len(Units(s)) = Len(s) /\ Holds(Units(s), f, p)
<1> DEFINE u == Units(s)
<1>1. DOMAIN s = 1 .. Len(s) /\ Len(s) \in Nat
  BY LenProperties
<1>2. ASSUME NEW i \in 1 .. Len(s)
      PROVE  /\ (IF s[i].k = "data" THEN s[i].unit ELSE Junk) = [file |-> f, at |-> p + i - 1]
             /\ [file |-> f, at |-> p + i - 1] \in Unit
  <2>1. s[i] = DataItem(f, p + i - 1)
    BY DEF Data
  <2>2. /\ DataItem(f, p + i - 1).k = "data"
        /\ DataItem(f, p + i - 1).unit = [file |-> f, at |-> p + i - 1]
    BY DEF DataItem
  <2>3. p + i - 1 \in Nat
    BY <1>1
  <2>4. [file |-> f, at |-> p + i - 1] \in Unit
    BY <2>3 DEF Unit
  <2> QED BY <2>1, <2>2, <2>4
<1>3. u = [i \in 1 .. Len(s) |-> IF s[i].k = "data" THEN s[i].unit ELSE Junk]
  BY <1>1 DEF Units
<1> HIDE DEF u
<1>4. u \in [1 .. Len(s) -> Unit] /\ \A i \in 1 .. Len(s) : u[i] = [file |-> f, at |-> p + i - 1]
  BY <1>2, <1>3
<1>5. u \in Seq(Unit) /\ Len(u) = Len(s)
  BY <1>1, <1>4
<1>6. Holds(u, f, p)
  BY <1>4, <1>5 DEF Holds, Data
<1> QED BY <1>5, <1>6 DEF u

-----------------------------------------------------------------------------
(* The MCUboot target *)

LEMMA ModFacts ==
    ASSUME NEW a \in Nat, NEW b \in Nat \ {0}
    PROVE  a % b \in 0 .. a
  OBVIOUS

(* The first n elements of a overwrite a sequence after its k-th. *)
Overwritten(s, k, a, n) ==
    SubSeq(s, 1, k) \o SubSeq(a, 1, n) \o SubSeq(s, k + n + 1, Len(s))

LEMMA Overwrite ==
    ASSUME NEW S, NEW s \in Seq(S), NEW a \in Seq(S), NEW k \in 0 .. Len(s), NEW n \in 0 .. Len(a)
    PROVE  /\ Overwritten(s, k, a, n) \in Seq(S) /\ k + n <= Len(Overwritten(s, k, a, n))
           /\ \A i \in 1 .. k : Overwritten(s, k, a, n)[i] = s[i]
           /\ \A i \in 1 .. n : Overwritten(s, k, a, n)[k + i] = a[i]
<1> DEFINE r == Overwritten(s, k, a, n)
           x == SubSeq(s, 1, k)
           y == SubSeq(a, 1, n)
           z == SubSeq(s, k + n + 1, Len(s))
           xy == x \o y
<1>0. Len(s) \in Nat /\ Len(a) \in Nat /\ k \in Nat /\ n \in Nat
  OBVIOUS
<1>1. x \in Seq(S) /\ Len(x) = k /\ \A j \in 1 .. k : x[j] = s[j]
  <2>1. x \in Seq(S) /\ Len(x) = k - 1 + 1 /\ \A j \in 1 .. k - 1 + 1 : x[j] = s[1 + j - 1]
    BY <1>0, SubSeqFacts
  <2> HIDE DEF x
  <2> QED BY <1>0, <2>1
<1>2. y \in Seq(S) /\ Len(y) = n /\ \A j \in 1 .. n : y[j] = a[j]
  <2>1. y \in Seq(S) /\ Len(y) = n - 1 + 1 /\ \A j \in 1 .. n - 1 + 1 : y[j] = a[1 + j - 1]
    BY <1>0, SubSeqFacts
  <2> HIDE DEF y
  <2> QED BY <1>0, <2>1
<1>3. z \in Seq(S) /\ Len(z) \in Nat
  <2>1. \A i \in k + n + 1 .. Len(s) : s[i] \in S
    BY <1>0, ElementOfSeq
  <2>2. z \in Seq(S)
    BY <1>0, <2>1, SubSeqProperties
  <2> HIDE DEF z
  <2> QED BY <2>2
<1>4. r = xy \o z
  BY DEF Overwritten
<1> HIDE DEF r, x, y, z
<1>5. /\ xy \in Seq(S) /\ Len(xy) = Len(x) + Len(y)
      /\ \A i \in 1 .. Len(x) + Len(y) : xy[i] = IF i <= Len(x) THEN x[i] ELSE y[i - Len(x)]
  BY <1>1, <1>2, ConcatProperties
<1> HIDE DEF xy
<1>6. /\ r \in Seq(S) /\ Len(r) = Len(xy) + Len(z)
      /\ \A i \in 1 .. Len(xy) + Len(z) : r[i] = IF i <= Len(xy) THEN xy[i] ELSE z[i - Len(xy)]
  <2> DEFINE w == xy \o z
  <2>1. xy \in Seq(S) /\ z \in Seq(S)
    BY <1>3, <1>5
  <2>2. /\ w \in Seq(S) /\ Len(w) = Len(xy) + Len(z)
        /\ \A i \in 1 .. Len(xy) + Len(z) : w[i] = IF i <= Len(xy) THEN xy[i] ELSE z[i - Len(xy)]
    BY <2>1, ConcatProperties
  <2>3. r = w
    BY <1>4
  <2> HIDE DEF w
  <2> QED BY <2>2, <2>3
<1>7. Len(xy) = k + n
  BY <1>1, <1>2, <1>5
<1>8. k + n <= Len(r)
  BY <1>0, <1>3, <1>6, <1>7
<1>9. ASSUME NEW i \in 1 .. k PROVE r[i] = s[i]
  <2>1. i \in 1 .. Len(xy) + Len(z) /\ i <= Len(xy) /\ i \in 1 .. Len(x) + Len(y) /\ i <= Len(x)
    BY <1>0, <1>1, <1>2, <1>3, <1>7
  <2> QED BY <1>1, <1>5, <1>6, <2>1
<1>10. ASSUME NEW i \in 1 .. n PROVE r[k + i] = a[i]
  <2>1. /\ k + i \in 1 .. Len(xy) + Len(z) /\ k + i <= Len(xy) /\ k + i \in 1 .. Len(x) + Len(y)
        /\ ~(k + i <= Len(x)) /\ (k + i) - Len(x) = i
    BY <1>0, <1>1, <1>2, <1>3, <1>7
  <2> QED BY <1>2, <1>5, <1>6, <2>1
<1> QED BY <1>6, <1>8, <1>9, <1>10 DEF r

(* What an operation of one target leaves alone of the other one. *)
SameModem(d, e) ==
    /\ e.current_target = d.current_target
    /\ e.fd = d.fd /\ e.offset = d.offset /\ e.bank = d.bank /\ e.dirty = d.dirty
    /\ e.misplaced = d.misplaced /\ e.apply = d.apply

(* The slot is as it was, or something was written to its start. *)
SlotKept(d, e) == (e.trailer => d.trailer) /\ (e.slot = d.slot \/ e.img # 0)

(* Data that follows what the target holds of a file was added to it. *)
Written(d, data, e) ==
    \A f \in File :
        SlotHolds(d, f) /\ Holds(data, f, d.img + Len(d.img_buf)) =>
            /\ SlotHolds(e, f)
            /\ e.img + Len(e.img_buf) = d.img + Len(d.img_buf) + Len(data)

(* The first n elements of what is buffered are written to the slot. *)
LEMMA SlotWritten ==
    ASSUME NEW slot \in Seq(Unit), NEW k \in 0 .. Len(slot), NEW all \in Seq(Unit),
           NEW n \in 0 .. Len(all), NEW f \in File, Starts(slot, k, f), Holds(all, f, k)
    PROVE  /\ Starts(Overwritten(slot, k, all, n), k + n, f)
           /\ Holds(SubSeq(all, n + 1, Len(all)), f, k + n)
           /\ Len(SubSeq(all, n + 1, Len(all))) = Len(all) - n
<1> DEFINE r == Overwritten(slot, k, all, n)
           b == SubSeq(all, n + 1, Len(all))
<1>1. Len(slot) \in Nat /\ Len(all) \in Nat /\ Size[f] \in Nat
  BY ImageFacts
<1>2. /\ \A i \in 1 .. k : r[i] = slot[i]
      /\ \A i \in 1 .. n : r[k + i] = all[i]
  BY <1>1, Overwrite
<1>3. Len(b) = Len(all) - n /\ \A i \in 1 .. Len(all) - n : b[i] = all[n + i]
  <2>1. /\ Len(b) = Len(all) - (n + 1) + 1
        /\ \A j \in 1 .. Len(all) - (n + 1) + 1 : b[j] = all[n + 1 + j - 1]
    BY <1>1, SubSeqFacts
  <2> HIDE DEF b
  <2> QED BY <1>1, <2>1
<1> HIDE DEF r, b
<1>4. ASSUME NEW i \in 1 .. k + n PROVE r[i] = [file |-> f, at |-> i - 1]
  <2>1. CASE i <= k
    <3>1. i \in 1 .. k
      BY <1>1, <2>1
    <3> QED BY <1>2, <3>1 DEF Starts
  <2>2. CASE ~(i <= k)
    <3>1. /\ i - k \in 1 .. n /\ i - k \in 1 .. Len(all) /\ k + (i - k) = i
          /\ k + (i - k) - 1 = i - 1
      BY <1>1, <2>2
    <3> QED BY <1>2, <3>1 DEF Holds
  <2> QED BY <2>1, <2>2
<1>5. ASSUME NEW i \in 1 .. Len(b) PROVE b[i] = [file |-> f, at |-> k + n + i - 1]
  <2>1. n + i \in 1 .. Len(all) /\ i \in 1 .. Len(all) - n /\ k + (n + i) - 1 = k + n + i - 1
    BY <1>1, <1>3
  <2> QED BY <1>3, <2>1 DEF Holds
<1>6. k + n + Len(b) <= Size[f]
  <2>1. k + Len(all) <= Size[f] /\ Len(b) = Len(all) - n
    BY <1>3 DEF Holds
  <2> QED BY <1>1, <2>1
<1> QED BY <1>3, <1>4, <1>5, <1>6 DEF Starts, Holds, r, b

(* Two parts of a file, one after the other. *)
LEMMA HoldsJoin ==
    ASSUME NEW s \in Seq(Unit), NEW t \in Seq(Unit), NEW f \in File, NEW p \in Nat,
           Holds(s, f, p), Holds(t, f, p + Len(s))
    PROVE  /\ s \o t \in Seq(Unit) /\ Len(s \o t) = Len(s) + Len(t)
           /\ Holds(s \o t, f, p)
<1>0. Len(s) \in Nat /\ Len(t) \in Nat /\ Size[f] \in Nat
  BY ImageFacts
<1> DEFINE c == s \o t
<1>1. /\ c \in Seq(Unit) /\ Len(c) = Len(s) + Len(t)
      /\ \A i \in 1 .. Len(s) + Len(t) : c[i] = IF i <= Len(s) THEN s[i] ELSE t[i - Len(s)]
  BY ConcatProperties
<1> HIDE DEF c
<1>2. ASSUME NEW i \in 1 .. Len(c) PROVE c[i] = [file |-> f, at |-> p + i - 1]
  <2>1. CASE i <= Len(s)
    <3>1. i \in 1 .. Len(s) /\ i \in 1 .. Len(s) + Len(t)
      BY <1>0, <1>1, <2>1
    <3> QED BY <1>1, <2>1, <3>1 DEF Holds
  <2>2. CASE ~(i <= Len(s))
    <3>1. i - Len(s) \in 1 .. Len(t) /\ p + Len(s) + (i - Len(s)) - 1 = p + i - 1
      BY <1>0, <1>1, <2>2
    <3>2. i \in 1 .. Len(s) + Len(t)
      BY <1>1
    <3> QED BY <1>1, <2>2, <3>1, <3>2 DEF Holds
  <2> QED BY <2>1, <2>2
<1>3. p + Len(c) <= Size[f]
  BY <1>0, <1>1 DEF Holds
<1> QED BY <1>1, <1>2, <1>3 DEF Holds, c

(* Nothing written at the start leaves a slot as it is. *)
LEMMA OverwriteNothing ==
    ASSUME NEW s \in Seq(Unit), NEW a \in Seq(Unit)
    PROVE  Overwritten(s, 0, a, 0) = s
<1> DEFINE x == SubSeq(s, 1, 0)
           y == SubSeq(a, 1, 0)
           z == SubSeq(s, 0 + 0 + 1, Len(s))
<1>0. Len(s) \in Nat /\ Len(a) \in Nat
  OBVIOUS
<1>1. x = <<>> /\ y = <<>>
  <2>1. x \in Seq(Unit) /\ y \in Seq(Unit) /\ Len(x) = 0 - 1 + 1 /\ Len(y) = 0 - 1 + 1
    BY <1>0, SubSeqFacts
  <2> HIDE DEF x, y
  <2> QED BY <2>1
<1>2. z = s
  <2>1. /\ z \in Seq(Unit) /\ Len(z) = Len(s) - 1 + 1
        /\ \A j \in 1 .. Len(s) - 1 + 1 : z[j] = s[1 + j - 1]
    BY <1>0, SubSeqFacts
  <2> HIDE DEF z
  <2>2. Len(z) = Len(s) /\ \A j \in 1 .. Len(s) : z[j] = s[j]
    BY <1>0, <2>1
  <2> QED BY <2>1, <2>2, SeqEqual
<1>3. Overwritten(s, 0, a, 0) = (x \o y) \o z
  BY DEF Overwritten
<1> HIDE DEF x, y, z
<1> QED BY <1>1, <1>2, <1>3, ConcatEmptySeq

LEMMA FlashWritten ==
    ASSUME NEW d, DfuOK(d), NEW data \in Seq(Unit), NEW flush \in BOOLEAN,
           NEW w \in flash_img_buffered_write(d, data, flush)
    PROVE  /\ DfuOK(w.d) /\ SameModem(d, w.d) /\ SlotKept(d, w.d)
           /\ w.err # "OK" => w.d = d
           /\ w.err \in {"OK", "ENOSPC", "EIO"}
           /\ w.err = "OK" /\ flush => w.d.img_buf = <<>>
           /\ w.err = "OK" => Written(d, data, w.d)
<1> DEFINE all == d.img_buf \o data
           n == IF flush THEN Len(all) ELSE Len(all) - (Len(all) % IMG_BLOCK)
           slot == Overwritten(d.slot, d.img, all, n)
           rest == SubSeq(all, n + 1, Len(all))
           e == [d EXCEPT !.slot = slot, !.img = d.img + n, !.trailer = @ /\ ~ flush, !.img_buf = rest]
<1>1. /\ d.slot \in Seq(Unit)
      /\ d.img_buf \in Seq(Unit)
      /\ d.img \in Nat
      /\ d.img \in 0 .. Len(d.slot)
  BY DEF DfuOK, DfuState
<1>2. all \in Seq(Unit) /\ Len(all) \in Nat
  BY <1>1, ConcatProperties
<1>3. \/ w = Ret(d, "ENOSPC")
      \/ w = Ret(d, "EIO")
      \/ w = Ret(e, "OK")
  BY DEF flash_img_buffered_write, May, Overwritten
<1> HIDE DEF all
<1>4. Len(all) \in Nat /\ n \in 0 .. Len(all)
  <2>1. Len(all) \in Nat
    BY <1>2
  <2>2. Len(all) % IMG_BLOCK \in 0 .. Len(all)
    BY <2>1, ModFacts, DfuAssumption
  <2> QED BY <2>1, <2>2
<1>5. flush => n = Len(all)
  OBVIOUS
<1> HIDE DEF n
<1>6. slot \in Seq(Unit) /\ d.img + n <= Len(slot)
  BY <1>1, <1>2, <1>4, Overwrite
<1>6a. d.img + n = 0 => slot = d.slot
  <2> SUFFICES ASSUME d.img + n = 0 PROVE slot = d.slot
    OBVIOUS
  <2>1. d.img = 0 /\ n = 0
    BY <1>1, <1>4
  <2> QED BY <1>1, <1>2, <2>1, OverwriteNothing
<1>7. rest \in Seq(Unit) /\ (flush => rest = <<>>)
  <2>1. rest \in Seq(Unit) /\ Len(rest) = Len(all) - (n + 1) + 1
    BY <1>2, <1>4, SubSeqFacts
  <2> HIDE DEF rest
  <2>2. Len(rest) = Len(all) - n
    BY <1>4, <2>1
  <2> QED BY <1>4, <1>5, <2>1, <2>2
<1> HIDE DEF slot, rest
<1>8. /\ e \in DfuState /\ e.slot = slot /\ e.img = d.img + n /\ e.img_buf = rest
      /\ SameModem(d, e) /\ SlotKept(d, e)
  <2>1. d \in DfuState
    BY DEF DfuOK
  <2>2. /\ e.slot = slot /\ e.img = d.img + n /\ e.img_buf = rest /\ SameModem(d, e)
        /\ e.trailer = (d.trailer /\ ~ flush) /\ d.trailer \in BOOLEAN
    BY <2>1 DEF DfuState, SameModem
  <2>3. slot \in Seq(Unit) /\ d.img + n \in Nat /\ rest \in Seq(Unit)
    BY <1>1, <1>4, <1>6, <1>7
  <2>4. e \in DfuState
    <3>1. (d.trailer /\ ~ flush) \in BOOLEAN
      OBVIOUS
    <3> QED BY <2>1, <2>3, <3>1 DEF DfuState
  <2>5. SlotKept(d, e)
    BY <1>6a, <2>2 DEF SlotKept
  <2> QED BY <2>2, <2>4, <2>5
<1> HIDE DEF e
<1>9. DfuOK(e)
  BY <1>6, <1>8 DEF DfuOK
<1>10. ASSUME NEW f \in File, SlotHolds(d, f), Holds(data, f, d.img + Len(d.img_buf))
       PROVE  /\ SlotHolds(e, f)
              /\ e.img + Len(e.img_buf) = d.img + Len(d.img_buf) + Len(data)
  <2>1. Holds(all, f, d.img) /\ Len(all) = Len(d.img_buf) + Len(data)
    BY <1>1, <1>10, HoldsJoin DEF SlotHolds, all
  <2>2. Starts(slot, d.img + n, f) /\ Holds(rest, f, d.img + n) /\ Len(rest) = Len(all) - n
    <3>1. Starts(d.slot, d.img, f)
      BY <1>10 DEF SlotHolds
    <3>2. /\ d.slot \in Seq(Unit)
          /\ d.img \in 0 .. Len(d.slot)
          /\ all \in Seq(Unit)
          /\ n \in 0 .. Len(all)
          /\ f \in File /\ Holds(all, f, d.img)
      BY <1>1, <1>2, <1>4, <2>1
    <3>3. /\ Starts(Overwritten(d.slot, d.img, all, n), d.img + n, f)
          /\ Holds(SubSeq(all, n + 1, Len(all)), f, d.img + n)
          /\ Len(SubSeq(all, n + 1, Len(all))) = Len(all) - n
      BY <3>1, <3>2, SlotWritten
    <3> QED BY <3>3 DEF slot, rest
  <2>3. e.img + Len(e.img_buf) = d.img + Len(d.img_buf) + Len(data)
    <3>1. /\ d.img \in Nat
          /\ n \in Nat
          /\ Len(all) \in Nat
          /\ Len(d.img_buf) \in Nat
          /\ Len(data) \in Nat
          /\ e.img = d.img + n /\ Len(e.img_buf) = Len(all) - n
      BY <1>1, <1>4, <1>8, <2>2
    <3> QED BY <2>1, <3>1
  <2> QED BY <1>8, <2>2, <2>3 DEF SlotHolds
<1>11. /\ w = Ret(e, "OK") => w.d = e /\ w.err = "OK"
       /\ \A x : w = Ret(d, x) => w.d = d /\ w.err = x
  BY DEF Ret
<1>12. SameModem(d, d) /\ SlotKept(d, d)
  BY DEF SameModem, SlotKept
<1>13. CASE w = Ret(e, "OK")
  BY <1>7, <1>8, <1>9, <1>10, <1>11, <1>13 DEF Written
<1>14. CASE w = Ret(d, "ENOSPC") \/ w = Ret(d, "EIO")
  BY <1>11, <1>12, <1>14
<1> QED BY <1>3, <1>13, <1>14

LEMMA ContextStored ==
    ASSUME NEW d, DfuOK(d), NEW e \in store_flash_img_context(d)
    PROVE  /\ DfuOK(e) /\ SameModem(d, e)
           /\ e.img = d.img /\ e.img_buf = d.img_buf /\ e.slot = d.slot /\ e.trailer = d.trailer
<1>1. e = d \/ e = [d EXCEPT !.saved = d.img]
  BY DEF store_flash_img_context, May
<1>2. d \in DfuState /\ d.img <= Len(d.slot)
  BY DEF DfuOK
<1>3. CASE e = d
  BY <1>2, <1>3 DEF DfuOK, SameModem
<1>4. CASE e = [d EXCEPT !.saved = d.img]
  <2>1. e \in DfuState
    BY <1>2, <1>4 DEF DfuState
  <2>2. /\ e.img = d.img /\ e.img_buf = d.img_buf /\ e.slot = d.slot /\ SameModem(d, e)
        /\ e.trailer = d.trailer
    BY <1>2, <1>4 DEF DfuState, SameModem
  <2> QED BY <1>2, <2>1, <2>2 DEF DfuOK
<1> QED BY <1>1, <1>3, <1>4

LEMMA FlashInit ==
    ASSUME NEW d, DfuOK(d)
    PROVE  /\ DfuOK(flash_img_init(d)) /\ SameModem(d, flash_img_init(d))
           /\ Empty(flash_img_init(d))
           /\ flash_img_init(d).slot = d.slot /\ flash_img_init(d).trailer = d.trailer
<1> DEFINE e == flash_img_init(d)
<1>1. d \in DfuState
  BY DEF DfuOK
<1>2. <<>> \in Seq(Unit)
  OBVIOUS
<1>3. e \in DfuState
  BY <1>1, <1>2 DEF flash_img_init, DfuState
<1>4. /\ e.img = 0 /\ e.img_buf = <<>> /\ e.slot = d.slot /\ SameModem(d, e)
      /\ e.trailer = d.trailer
  BY <1>1 DEF flash_img_init, DfuState, SameModem
<1>5. Len(d.slot) \in Nat
  BY <1>1 DEF DfuState
<1> HIDE DEF e
<1>6. DfuOK(e) /\ Empty(e)
  BY <1>3, <1>4, <1>5 DEF DfuOK, Empty
<1> QED BY <1>4, <1>6 DEF e

LEMMA McubootWritten ==
    ASSUME NEW d, DfuOK(d), NEW data \in Seq(Unit), NEW w \in dfu_target_mcuboot_write(d, data)
    PROVE  /\ DfuOK(w.d) /\ SameModem(d, w.d) /\ SlotKept(d, w.d)
           /\ w.err # "OK" => w.d = d
           /\ w.err \in {"OK", "ENOSPC", "EIO"}
           /\ w.err = "OK" => Written(d, data, w.d)
<1>1. PICK v \in flash_img_buffered_write(d, data, FALSE) :
          IF v.err # "OK" THEN w = v ELSE \E s \in store_flash_img_context(v.d) : w = Ret(s, "OK")
  BY DEF dfu_target_mcuboot_write
<1>2. /\ DfuOK(v.d) /\ SameModem(d, v.d) /\ SlotKept(d, v.d)
      /\ v.err # "OK" => v.d = d
      /\ v.err \in {"OK", "ENOSPC", "EIO"}
      /\ v.err = "OK" => Written(d, data, v.d)
  BY FlashWritten, FALSE \in BOOLEAN
<1>3. CASE v.err # "OK"
  BY <1>1, <1>2, <1>3
<1>4. CASE v.err = "OK"
  <2>1. PICK s \in store_flash_img_context(v.d) : w = Ret(s, "OK")
    BY <1>1, <1>4
  <2>2. /\ DfuOK(s) /\ SameModem(v.d, s)
        /\ s.img = v.d.img /\ s.img_buf = v.d.img_buf /\ s.slot = v.d.slot /\ s.trailer = v.d.trailer
    BY <1>2, ContextStored
  <2>3. w.d = s /\ w.err = "OK"
    BY <2>1 DEF Ret
  <2>4. SameModem(d, s) /\ SlotKept(d, s)
    BY <1>2, <2>2 DEF SameModem, SlotKept
  <2>5. \A f : SlotHolds(v.d, f) => SlotHolds(s, f)
    BY <2>2 DEF SlotHolds
  <2>6. Written(d, data, s)
    BY <1>2, <1>4, <2>2, <2>5 DEF Written
  <2> QED BY <2>2, <2>3, <2>4, <2>6
<1> QED BY <1>3, <1>4

LEMMA McubootInit ==
    ASSUME NEW d, DfuOK(d), NEW n, NEW i \in dfu_target_mcuboot_init(d, n)
    PROVE  /\ DfuOK(i.d) /\ SameModem(d, i.d) /\ i.d.slot = d.slot /\ i.d.trailer = d.trailer
           /\ i.err = "OK" => Empty(i.d)
           /\ i.err # "STUCK"
<1>1. i.d = flash_img_init(d) \/ (i.d = d /\ i.err = "EIO")
  BY DEF dfu_target_mcuboot_init, May, Ret
<1>2. i.err # "STUCK"
  BY DEF dfu_target_mcuboot_init, May, Ret
<1>3. SameModem(d, d)
  BY DEF SameModem
<1> QED BY <1>1, <1>2, <1>3, FlashInit

(* A slot that holds as much as a file holds the file. *)
LEMMA WholeSlot ==
    ASSUME NEW slot \in Seq(Unit), NEW n \in 0 .. Len(slot), NEW f \in File,
           Starts(slot, n, f), n = Size[f]
    PROVE  SubSeq(slot, 1, n) = Image(f)
<1> DEFINE b == SubSeq(slot, 1, n)
           im == Image(f)
<1>1. /\ im \in Seq(Unit) /\ Len(im) = Size[f] /\ Size[f] \in Nat
      /\ \A i \in 1 .. Size[f] : im[i] = [file |-> f, at |-> i - 1]
  BY ImageFacts
<1>2. b \in Seq(Unit) /\ Len(b) = n /\ \A j \in 1 .. n : b[j] = slot[j]
  <2>1. Len(slot) \in Nat
    OBVIOUS
  <2>2. b \in Seq(Unit) /\ Len(b) = n - 1 + 1 /\ \A j \in 1 .. n - 1 + 1 : b[j] = slot[1 + j - 1]
    BY <2>1, SubSeqFacts
  <2> HIDE DEF b
  <2> QED BY <2>1, <2>2
<1> HIDE DEF b, im
<1>3. \A i \in 1 .. n : slot[i] = [file |-> f, at |-> i - 1]
  BY DEF Starts
<1>4. \A i \in 1 .. Len(b) : b[i] = im[i]
  BY <1>1, <1>2, <1>3
<1>5. b = im
  BY <1>1, <1>2, <1>4, SeqEqual
<1> QED BY <1>5 DEF b, im

(* What is applied at the next boot when the slot, or the patch in the     *)
(* modem, changes: no file but the one that was written is added.          *)
LEMMA AppliedSlot ==
    ASSUME NEW d, NEW e, DfuOK(d), DfuOK(e), NEW f \in File,
           e.bank = d.bank, e.apply => d.apply,
           \/ e.slot = d.slot /\ (e.trailer => d.trailer)
           \/ Len(e.slot) # 0 /\ Starts(e.slot, 1, f)
    PROVE  Applied(e) \subseteq Applied(d) \cup {f}
<1> SUFFICES ASSUME NEW g \in File, g \in Applied(e), g # f PROVE g \in Applied(d)
  BY DEF Applied
<1>1. \/ /\ Type[g] = "MCUBOOT" /\ e.trailer
         /\ Len(e.slot) >= Size[g] /\ SubSeq(e.slot, 1, Size[g]) = Image(g)
      \/ Type[g] = "MODEM" /\ e.apply /\ e.bank = Image(g)
  BY DEF Applied
<1>2. CASE Type[g] = "MODEM" /\ e.apply /\ e.bank = Image(g)
  BY <1>2 DEF Applied
<1>3. CASE /\ Type[g] = "MCUBOOT" /\ e.trailer
           /\ Len(e.slot) >= Size[g] /\ SubSeq(e.slot, 1, Size[g]) = Image(g)
  <2>1. CASE e.slot = d.slot /\ (e.trailer => d.trailer)
    BY <1>3, <2>1 DEF Applied
  <2>2. CASE Len(e.slot) # 0 /\ Starts(e.slot, 1, f)
    <3>1. /\ Size[g] \in Nat \ {0} /\ e.slot \in Seq(Unit) /\ Len(e.slot) \in Nat
          /\ Image(g)[1] = [file |-> g, at |-> 1 - 1]
      <4>1. Size[g] \in Nat \ {0} /\ \A i \in 1 .. Size[g] : Image(g)[i] = [file |-> g, at |-> i - 1]
        BY ImageFacts
      <4>2. 1 \in 1 .. Size[g]
        BY <4>1
      <4> QED BY <4>1, <4>2 DEF DfuOK, DfuState
    <3>2. SubSeq(e.slot, 1, Size[g])[1] = e.slot[1 + 1 - 1]
      <4>1. \A j \in 1 .. Size[g] - 1 + 1 : SubSeq(e.slot, 1, Size[g])[j] = e.slot[1 + j - 1]
        BY <1>3, <3>1, SubSeqFacts
      <4>2. 1 \in 1 .. Size[g] - 1 + 1
        BY <3>1
      <4> QED BY <4>1, <4>2
    <3>3. e.slot[1] = [file |-> f, at |-> 1 - 1]
      BY <2>2 DEF Starts
    <3>4. [file |-> g, at |-> 1 - 1] = [file |-> f, at |-> 1 - 1]
      BY <1>3, <3>1, <3>2, <3>3
    <3>5. [file |-> g, at |-> 1 - 1].file = g /\ [file |-> f, at |-> 1 - 1].file = f
      OBVIOUS
    <3> QED BY <3>4, <3>5
  <2> QED BY <2>1, <2>2
<1> QED BY <1>1, <1>2, <1>3

LEMMA AppliedBank ==
    ASSUME NEW d, NEW e, NEW f \in File, e.slot = d.slot, e.trailer = d.trailer, BankOf(e, f)
    PROVE  Applied(e) \subseteq Applied(d) \cup {f}
<1> SUFFICES ASSUME NEW g \in File, g \in Applied(e), g # f PROVE g \in Applied(d)
  BY DEF Applied
<1>1. \/ /\ Type[g] = "MCUBOOT" /\ e.trailer
         /\ Len(e.slot) >= Size[g] /\ SubSeq(e.slot, 1, Size[g]) = Image(g)
      \/ Type[g] = "MODEM" /\ e.apply /\ e.bank = Image(g)
  BY DEF Applied
<1>2. CASE /\ Type[g] = "MCUBOOT" /\ e.trailer
           /\ Len(e.slot) >= Size[g] /\ SubSeq(e.slot, 1, Size[g]) = Image(g)
  BY <1>2 DEF Applied
<1>3. CASE e.bank = Image(g)
  <2>1. /\ Size[g] \in Nat \ {0} /\ Len(Image(g)) = Size[g]
        /\ \A i \in 1 .. Size[g] : Image(g)[i] = [file |-> g, at |-> i - 1]
    BY ImageFacts
  <2>2. 1 \in 1 .. Size[g] /\ 1 \in 1 .. Len(e.bank)
    BY <1>3, <2>1
  <2>3. e.bank[1] = [file |-> g, at |-> 1 - 1]
    BY <1>3, <2>1, <2>2
  <2>4. e.bank[1].file = g
    BY <2>3
  <2>5. e.bank[1].file = f
    BY <2>2 DEF BankOf
  <2> QED BY <2>4, <2>5
<1> QED BY <1>1, <1>2, <1>3

(* The end of an image: the stream starts anew, and the trailer is written *)
(* if the image was complete and nothing failed.                           *)
LEMMA McubootDone ==
    ASSUME NEW d, DfuOK(d), NEW ok \in BOOLEAN, NEW r \in dfu_target_mcuboot_done(d, ok)
    PROVE  /\ DfuOK(r.d) /\ Empty(r.d) /\ SameModem(d, r.d)
           /\ ~ ok => r.d.slot = d.slot /\ r.d.trailer = d.trailer
           /\ \A f \in File :
                 ok /\ SlotHolds(d, f) /\ d.img + Len(d.img_buf) = Size[f] =>
                     /\ \/ r.d.slot = d.slot /\ (r.d.trailer => d.trailer)
                        \/ Len(r.d.slot) >= Size[f] /\ Starts(r.d.slot, Size[f], f)
                     /\ r.err = "OK" =>
                           r.d.trailer /\ Len(r.d.slot) >= Size[f] /\ Starts(r.d.slot, Size[f], f)
<1> DEFINE ended == IF ~ ok THEN {Ret(d, "OK")}
                    ELSE UNION {IF w.err # "OK" THEN {w} ELSE boot_request_upgrade(w.d) : w \in Flushed(d)}
<1>1. PICK e \in ended : \E s \in reset_flash_context(e.d) : r = Ret(s, e.err)
  BY DEF dfu_target_mcuboot_done
<1>2. PICK s \in reset_flash_context(e.d) : r = Ret(s, e.err)
  BY <1>1
<1>3. r.d = s /\ r.err = e.err
  BY <1>2 DEF Ret
<1>4. SUFFICES /\ DfuOK(e.d) /\ SameModem(d, e.d)
               /\ ~ ok => e.d.slot = d.slot /\ e.d.trailer = d.trailer
               /\ \A f \in File :
                    ok /\ SlotHolds(d, f) /\ d.img + Len(d.img_buf) = Size[f] =>
                        /\ \/ e.d.slot = d.slot /\ (e.d.trailer => d.trailer)
                           \/ Len(e.d.slot) >= Size[f] /\ Starts(e.d.slot, Size[f], f)
                        /\ e.err = "OK" =>
                              e.d.trailer /\ Len(e.d.slot) >= Size[f] /\ Starts(e.d.slot, Size[f], f)
  <2>1. /\ DfuOK(flash_img_init(e.d)) /\ SameModem(e.d, flash_img_init(e.d))
        /\ Empty(flash_img_init(e.d))
        /\ flash_img_init(e.d).slot = e.d.slot /\ flash_img_init(e.d).trailer = e.d.trailer
    BY <1>4, FlashInit
  <2>2. /\ DfuOK(s) /\ SameModem(flash_img_init(e.d), s)
        /\ s.img = flash_img_init(e.d).img /\ s.img_buf = flash_img_init(e.d).img_buf
        /\ s.slot = e.d.slot /\ s.trailer = e.d.trailer
    BY <1>2, <2>1, ContextStored DEF reset_flash_context
  <2>3. Empty(s)
    BY <2>1, <2>2 DEF Empty
  <2>4. SameModem(d, s)
    BY <1>4, <2>1, <2>2 DEF SameModem
  <2> QED BY <1>3, <1>4, <2>2, <2>3, <2>4
<1>5. CASE ~ ok
  BY <1>1, <1>5 DEF Ret, SameModem
<1>6. CASE ok
  <2>1. PICK w \in Flushed(d) : e \in IF w.err # "OK" THEN {w} ELSE boot_request_upgrade(w.d)
    BY <1>1, <1>6
  <2>2. <<>> \in Seq(Unit) /\ TRUE \in BOOLEAN /\ Len(<<>>) = 0
    OBVIOUS
  <2>3. w \in flash_img_buffered_write(d, <<>>, TRUE)
    BY DEF Flushed
  <2>4. /\ DfuOK(w.d) /\ SameModem(d, w.d) /\ SlotKept(d, w.d)
        /\ w.err # "OK" => w.d = d
        /\ w.err = "OK" => w.d.img_buf = <<>>
        /\ w.err = "OK" => Written(d, <<>>, w.d)
    BY <2>2, <2>3, FlashWritten, Zenon
  <2>5. CASE w.err # "OK"
    <3>1. e = w
      BY <2>1, <2>5
    <3> QED BY <1>6, <2>4, <2>5, <3>1
  <2>6. CASE w.err = "OK"
    <3>1. /\ w.d \in DfuState
          /\ w.d.img \in Nat
          /\ w.d.img <= Len(w.d.slot)
      BY <2>4 DEF DfuOK, DfuState
    <3>3. \/ e = Ret(w.d, "EIO")
          \/ e = Ret([w.d EXCEPT !.trailer = TRUE], "OK")
      BY <2>1, <2>6 DEF boot_request_upgrade, May
    <3>4. ASSUME NEW f \in File, SlotHolds(d, f), d.img + Len(d.img_buf) = Size[f]
          PROVE  Len(w.d.slot) >= Size[f] /\ Starts(w.d.slot, Size[f], f)
      <4>1. d.img \in Nat /\ Len(d.img_buf) \in Nat /\ Size[f] \in Nat
        BY ImageFacts DEF DfuOK, DfuState
      <4>2. Holds(<<>>, f, d.img + Len(d.img_buf))
        BY <3>4, <4>1 DEF Holds
      <4>3. SlotHolds(w.d, f) /\ w.d.img + Len(w.d.img_buf) = Size[f] + 0
        BY <2>2, <2>4, <2>6, <3>4, <4>2 DEF Written
      <4>4. w.d.img = Size[f]
        BY <2>2, <2>4, <2>6, <3>1, <4>1, <4>3
      <4>5. Starts(w.d.slot, w.d.img, f)
        BY <4>3 DEF SlotHolds
      <4> QED BY <3>1, <4>4, <4>5
    <3>5. CASE e = Ret(w.d, "EIO")
      <4>1. e.d = w.d /\ e.err = "EIO"
        BY <3>5 DEF Ret
      <4> QED BY <1>6, <2>4, <3>4, <4>1
    <3>6. CASE e = Ret([w.d EXCEPT !.trailer = TRUE], "OK")
      <4> DEFINE t == [w.d EXCEPT !.trailer = TRUE]
      <4>1. e.d = t
        BY <3>6 DEF Ret
      <4>2. t \in DfuState
        BY <3>1 DEF DfuState
      <4>3. t.trailer = TRUE /\ t.img = w.d.img /\ t.slot = w.d.slot /\ SameModem(w.d, t)
        BY <3>1 DEF DfuState, SameModem
      <4> HIDE DEF t
      <4>4. DfuOK(t) /\ SameModem(d, t)
        BY <2>4, <4>2, <4>3 DEF DfuOK, SameModem
      <4> QED BY <1>6, <3>4, <4>1, <4>3, <4>4
    <3> QED BY <3>3, <3>5, <3>6
  <2> QED BY <2>5, <2>6
<1> QED BY <1>5, <1>6

-----------------------------------------------------------------------------
(* The modem target *)

SameSlot(d, e) ==
    /\ e.current_target = d.current_target /\ e.trailer = d.trailer
    /\ e.img = d.img /\ e.img_buf = d.img_buf /\ e.slot = d.slot

(* The socket is open and the offset is the modem's. *)
ModemOpen(d) == d.fd /\ d.offset = modem_offset(d)

(* It has taken what was handed out of a file, as far as nothing was deleted. *)
ModemHolds(d, f, n) == ModemOpen(d) /\ ~ d.dirty /\ BankOf(d, f) /\ Counts(d, n)

LEMMA NoBank ==
    ASSUME NEW f \in File
    PROVE  Len(<<>>) = 0 /\ Holds(<<>>, f, 0) /\ \A d : d.bank = <<>> => BankOf(d, f)
<1>1. Len(<<>>) = 0 /\ Size[f] \in Nat
  BY ImageFacts
<1>2. Holds(<<>>, f, 0)
  BY <1>1 DEF Holds
<1> QED BY <1>1, <1>2 DEF BankOf

LEMMA BankDeleted ==
    ASSUME NEW d, DfuOK(d), NEW r \in delete_banked_modem_fw(d)
    PROVE  /\ DfuOK(r.d) /\ SameSlot(d, r.d) /\ r.d.fd = d.fd
           /\ \/ r.d = d /\ r.err = "EFAULT"
              \/ /\ r.d.bank = <<>> /\ ~ r.d.dirty /\ r.d.offset = 0 /\ ~ r.d.misplaced
                 /\ r.err = "OK"
              \/ r.d.bank = d.bank /\ r.d.misplaced = d.misplaced /\ r.err = "STUCK"
<1> DEFINE e == [d EXCEPT !.bank = <<>>, !.dirty = FALSE, !.offset = 0,
                          !.misplaced = FALSE, !.apply = FALSE]
           p == [d EXCEPT !.dirty = TRUE]
<1>1. d \in DfuState /\ d.img <= Len(d.slot)
  BY DEF DfuOK
<1>2. \/ r.d = d /\ r.err = "EFAULT"
      \/ r.d = e /\ r.err = "OK"
      \/ r.d = p /\ r.err = "STUCK"
  <2>1. r = Ret(e, "OK") \/ r = Ret(d, "EFAULT") \/ r = Ret(p, "STUCK")
    BY Zenon DEF delete_banked_modem_fw, May
  <2> HIDE DEF e, p
  <2> QED BY <2>1 DEF Ret
<1>3. <<>> \in Seq(Unit)
  OBVIOUS
<1>4. e \in DfuState /\ p \in DfuState
  BY <1>1, <1>3 DEF DfuState
<1>5. /\ SameSlot(d, e) /\ e.fd = d.fd /\ e.bank = <<>> /\ e.dirty = FALSE /\ e.offset = 0
      /\ e.misplaced = FALSE
      /\ SameSlot(d, p) /\ p.fd = d.fd /\ p.bank = d.bank /\ p.misplaced = d.misplaced
  BY <1>1 DEF DfuState, SameSlot
<1> HIDE DEF e, p
<1>6. DfuOK(e) /\ DfuOK(p)
  BY <1>1, <1>4, <1>5 DEF DfuOK, SameSlot
<1>7. SameSlot(d, d)
  BY DEF SameSlot
<1> QED BY <1>2, <1>5, <1>6, <1>7

LEMMA ModemOffsetType ==
    ASSUME NEW d, DfuOK(d)
    PROVE  modem_offset(d) \in Nat
  BY DfuAssumption DEF DfuOK, DfuState, modem_offset

LEMMA ModemInit ==
    ASSUME NEW d, DfuOK(d), NEW f \in File, BankOf(d, f), NEW n, NEW i \in dfu_target_modem_init(d, n)
    PROVE  /\ DfuOK(i.d) /\ SameSlot(d, i.d) /\ BankOf(i.d, f)
           /\ i.err = "OK" => ModemOpen(i.d) /\ (i.d.bank = <<>> => ~ i.d.misplaced)
<1> DEFINE closed == [d EXCEPT !.fd = FALSE]
           opened == [d EXCEPT !.fd = TRUE]
           lost   == d.misplaced /\ d.bank # <<>>
           ato    == [opened EXCEPT !.offset = modem_offset(d), !.misplaced = @ /\ d.bank # <<>>]
<1>0. d \in DfuState /\ d.img <= Len(d.slot) /\ modem_offset(d) \in Nat
  BY ModemOffsetType DEF DfuOK
<1>1. \/ i = Ret(closed, "ESOCKET")
      \/ i = Ret(opened, "EVERSION")
      \/ i = Ret(opened, "EFBIG")
      \/ i = Ret(ato, "OK")
      \/ \E r \in delete_banked_modem_fw(ato) : i = IF r.err = "STUCK" THEN r ELSE Ret(r.d, "OK")
  BY DEF dfu_target_modem_init, May
<1>2. closed \in DfuState /\ SameSlot(d, closed) /\ closed.bank = d.bank /\ closed.misplaced = d.misplaced
  BY <1>0 DEF DfuState, SameSlot
<1>3. /\ opened \in DfuState
      /\ SameSlot(d, opened)
      /\ opened.bank = d.bank
      /\ opened.fd
      /\ opened.dirty = d.dirty
      /\ opened.misplaced = d.misplaced
  BY <1>0 DEF DfuState, SameSlot
<1> HIDE DEF closed, opened
<1>4. /\ ato \in DfuState /\ SameSlot(opened, ato) /\ ato.bank = opened.bank /\ ato.fd = opened.fd
      /\ ato.dirty = opened.dirty /\ ato.offset = modem_offset(d) /\ ato.misplaced = lost
  <2>1. (opened.misplaced /\ d.bank # <<>>) \in BOOLEAN
    OBVIOUS
  <2> QED BY <1>0, <1>3, <2>1 DEF DfuState, SameSlot
<1> HIDE DEF ato
<1>5. DfuOK(closed) /\ DfuOK(opened) /\ DfuOK(ato)
  BY <1>0, <1>2, <1>3, <1>4 DEF DfuOK, SameSlot
<1>6. SameSlot(d, ato) /\ ModemOpen(ato) /\ (ato.bank = <<>> => ~ ato.misplaced)
  BY <1>3, <1>4 DEF SameSlot, ModemOpen, modem_offset
<1>6a. BankOf(closed, f) /\ BankOf(opened, f) /\ BankOf(ato, f)
  <2>1. BankOf(closed, f) /\ BankOf(opened, f)
    BY <1>2, <1>3 DEF BankOf
  <2>2. CASE d.bank = <<>>
    BY <1>3, <1>4, <2>1, <2>2, NoBank
  <2>3. CASE d.bank # <<>>
    <3>1. ato.misplaced = d.misplaced
      BY <1>0, <1>4, <2>3 DEF DfuState
    <3> QED BY <1>3, <1>4, <2>1, <3>1 DEF BankOf
  <2> QED BY <2>2, <2>3
<1>7. \A x, y : Ret(x, y).d = x /\ Ret(x, y).err = y
  BY DEF Ret
<1>8. CASE i = Ret(closed, "ESOCKET") \/ i = Ret(opened, "EVERSION") \/ i = Ret(opened, "EFBIG")
  BY <1>2, <1>3, <1>5, <1>6a, <1>7, <1>8
<1>9. CASE i = Ret(ato, "OK")
  BY <1>5, <1>6, <1>6a, <1>7, <1>9
<1>10. CASE \E r \in delete_banked_modem_fw(ato) : i = IF r.err = "STUCK" THEN r ELSE Ret(r.d, "OK")
  <2>1. PICK r \in delete_banked_modem_fw(ato) : i = IF r.err = "STUCK" THEN r ELSE Ret(r.d, "OK")
    BY <1>10
  <2>2. i.d = r.d /\ (i.err = "OK" => r.err # "STUCK")
    BY <1>7, <2>1
  <2>3. /\ DfuOK(r.d) /\ SameSlot(ato, r.d) /\ r.d.fd = ato.fd
        /\ \/ r.d = ato /\ r.err = "EFAULT"
           \/ /\ r.d.bank = <<>> /\ ~ r.d.dirty /\ r.d.offset = 0 /\ ~ r.d.misplaced
              /\ r.err = "OK"
           \/ r.d.bank = ato.bank /\ r.d.misplaced = ato.misplaced /\ r.err = "STUCK"
    BY <1>5, BankDeleted
  <2>4. SameSlot(d, r.d)
    BY <1>6, <2>3 DEF SameSlot
  <2>5. BankOf(r.d, f) /\ (r.err # "STUCK" => ModemOpen(r.d) /\ (r.d.bank = <<>> => ~ r.d.misplaced))
    <3>1. CASE r.d = ato
      BY <1>6, <1>6a, <3>1
    <3>2. CASE r.d.bank = <<>> /\ ~ r.d.dirty /\ r.d.offset = 0 /\ ~ r.d.misplaced
      BY <1>3, <1>4, <2>3, <3>2, NoBank DEF ModemOpen, modem_offset
    <3>3. CASE r.d.bank = ato.bank /\ r.d.misplaced = ato.misplaced /\ r.err = "STUCK"
      BY <1>6a, <3>3 DEF BankOf
    <3> QED BY <2>3, <3>1, <3>2, <3>3
  <2> QED BY <2>2, <2>3, <2>4, <2>5
<1> QED BY <1>1, <1>8, <1>9, <1>10

(* A part of what is to follow is enough to stay within the patch. *)
LEMMA HoldsPart ==
    ASSUME NEW s \in Seq(Unit), NEW f \in File, NEW p \in Nat, NEW n \in 0 .. Len(s), Holds(s, f, p)
    PROVE  /\ SubSeq(s, 1, n) \in Seq(Unit) /\ Len(SubSeq(s, 1, n)) = n
           /\ Holds(SubSeq(s, 1, n), f, p)
<1> DEFINE b == SubSeq(s, 1, n)
<1>1. Len(s) \in Nat /\ Size[f] \in Nat
  BY ImageFacts
<1>2. b \in Seq(Unit) /\ Len(b) = n /\ \A j \in 1 .. n : b[j] = s[j]
  <2>1. b \in Seq(Unit) /\ Len(b) = n - 1 + 1 /\ \A j \in 1 .. n - 1 + 1 : b[j] = s[1 + j - 1]
    BY <1>1, SubSeqFacts
  <2> HIDE DEF b
  <2> QED BY <1>1, <2>1
<1> HIDE DEF b
<1>3. ASSUME NEW i \in 1 .. Len(b) PROVE b[i] = [file |-> f, at |-> p + i - 1]
  <2>1. i \in 1 .. n /\ i \in 1 .. Len(s)
    BY <1>1, <1>2
  <2> QED BY <1>2, <2>1 DEF Holds
<1>4. p + Len(b) <= Size[f]
  BY <1>1, <1>2 DEF Holds
<1> QED BY <1>2, <1>3, <1>4 DEF Holds, b

LEMMA ModemSent ==
    ASSUME NEW d, DfuOK(d), NEW f \in File, NEW m \in Nat, ModemHolds(d, f, m),
           NEW data \in Seq(Unit), Holds(data, f, m), NEW x \in modem_send(d, data)
    PROVE  /\ DfuOK(x.d) /\ SameSlot(d, x.d) /\ BankOf(x.d, f)
           /\ x.err = "OK" => ModemHolds(x.d, f, m + Len(data))
           /\ x.err \in {"OK", "EFAULT"}
<1> DEFINE bank(n) == d.bank \o SubSeq(data, 1, n)
           part(n) == [d EXCEPT !.bank = bank(n)]
           l == Len(data)
           whole   == [part(l) EXCEPT !.offset = @ + l]
<1>0. /\ d \in DfuState /\ d.img <= Len(d.slot) /\ d.bank \in Seq(Unit) /\ d.offset \in Nat
      /\ l \in Nat /\ Len(d.bank) \in Nat /\ Size[f] \in Nat
  BY ImageFacts DEF DfuOK, DfuState
<1>0a. /\ d.fd /\ ~ d.dirty /\ d.offset = Len(d.bank)
       /\ Len(d.bank) <= m /\ (~ d.misplaced => Len(d.bank) = m)
       /\ \A i \in 1 .. Len(d.bank) : d.bank[i].file = f
       /\ ~ d.misplaced => Holds(d.bank, f, 0)
       /\ m + l <= Size[f]
  BY DEF ModemHolds, ModemOpen, modem_offset, Counts, BankOf, Holds
<1>1. x = Ret(whole, "OK") \/ \E n \in 0 .. l - 1 : x = Ret(part(n), "EFAULT")
  BY DEF modem_send, May
<1>2. ASSUME NEW n \in 0 .. l
      PROVE  /\ bank(n) \in Seq(Unit) /\ Len(bank(n)) = Len(d.bank) + n
             /\ Len(bank(n)) <= Size[f]
             /\ \A i \in 1 .. Len(bank(n)) : bank(n)[i].file = f
             /\ ~ d.misplaced => Holds(bank(n), f, 0)
  <2> DEFINE s == SubSeq(data, 1, n)
  <2>1. s \in Seq(Unit) /\ Len(s) = n /\ Holds(s, f, m)
    BY <1>0, HoldsPart
  <2>2. bank(n) = d.bank \o s
    OBVIOUS
  <2> HIDE DEF s, bank
  <2>3. /\ bank(n) \in Seq(Unit) /\ Len(bank(n)) = Len(d.bank) + n
        /\ \A i \in 1 .. Len(d.bank) + Len(s) :
              bank(n)[i] = IF i <= Len(d.bank) THEN d.bank[i] ELSE s[i - Len(d.bank)]
    <3> DEFINE b == d.bank \o s
    <3>1. /\ b \in Seq(Unit) /\ Len(b) = Len(d.bank) + Len(s)
          /\ \A i \in 1 .. Len(d.bank) + Len(s) :
                b[i] = IF i <= Len(d.bank) THEN d.bank[i] ELSE s[i - Len(d.bank)]
      BY <1>0, <2>1, ConcatProperties
    <3>2. bank(n) = b
      BY <2>2
    <3> HIDE DEF b
    <3> QED BY <2>1, <3>1, <3>2
  <2>4. ASSUME ~ d.misplaced PROVE Holds(bank(n), f, 0)
    <3>0. Len(d.bank) = m /\ m = 0 + Len(d.bank) /\ 0 \in Nat
      BY <1>0, <1>0a, <2>4
    <3>1. Holds(s, f, 0 + Len(d.bank))
      BY <2>1, <3>0
    <3> QED BY <1>0, <1>0a, <2>1, <2>2, <2>4, <3>0, <3>1, HoldsJoin
  <2>5. ASSUME NEW i \in 1 .. Len(bank(n)) PROVE bank(n)[i].file = f
    <3>1. i \in 1 .. Len(d.bank) + Len(s)
      BY <2>1, <2>3
    <3>2. CASE i <= Len(d.bank)
      <4>1. bank(n)[i] = d.bank[i] /\ i \in 1 .. Len(d.bank)
        BY <1>0, <2>3, <3>1, <3>2
      <4> QED BY <1>0a, <4>1
    <3>3. CASE ~(i <= Len(d.bank))
      <4>1. bank(n)[i] = s[i - Len(d.bank)] /\ i - Len(d.bank) \in 1 .. Len(s)
        BY <1>0, <2>1, <2>3, <3>1, <3>3
      <4>2. s[i - Len(d.bank)] = [file |-> f, at |-> m + (i - Len(d.bank)) - 1]
        BY <2>1, <4>1 DEF Holds
      <4> QED BY <4>1, <4>2
    <3> QED BY <3>2, <3>3
  <2>6. Len(bank(n)) <= Size[f]
    BY <1>0, <1>0a, <2>3
  <2> QED BY <2>3, <2>4, <2>5, <2>6
<1> HIDE DEF bank
<1>3. ASSUME NEW n \in 0 .. l
      PROVE  /\ part(n) \in DfuState /\ part(n).bank = bank(n) /\ SameSlot(d, part(n))
             /\ part(n).fd = d.fd /\ part(n).dirty = d.dirty /\ part(n).misplaced = d.misplaced
             /\ part(n).offset = d.offset
  BY <1>0, <1>2 DEF DfuState, SameSlot
<1> HIDE DEF part, l
<1>4. l \in 0 .. l
  BY <1>0
<1>5. /\ whole \in DfuState /\ whole.bank = bank(l) /\ SameSlot(part(l), whole)
      /\ whole.fd = part(l).fd /\ whole.dirty = part(l).dirty /\ whole.offset = d.offset + l
      /\ whole.misplaced = part(l).misplaced
  <2>1. part(l).offset + l \in Nat /\ part(l) \in DfuState /\ part(l).bank = bank(l) /\ part(l).offset = d.offset
    BY <1>0, <1>3, <1>4
  <2> QED BY <2>1 DEF DfuState, SameSlot
<1> HIDE DEF whole
<1>6. ASSUME NEW n \in 0 .. l PROVE DfuOK(part(n)) /\ BankOf(part(n), f)
  BY <1>0, <1>2, <1>3 DEF DfuOK, SameSlot, BankOf
<1>7. \A e, y : Ret(e, y).d = e /\ Ret(e, y).err = y
  BY DEF Ret
<1>8. CASE x = Ret(whole, "OK")
  <2>1. SameSlot(d, whole) /\ DfuOK(whole)
    BY <1>0, <1>3, <1>4, <1>5 DEF SameSlot, DfuOK
  <2>2. BankOf(whole, f)
    BY <1>2, <1>3, <1>4, <1>5 DEF BankOf
  <2>3. Len(whole.bank) = Len(d.bank) + l
    BY <1>2, <1>4, <1>5
  <2>4. ModemOpen(whole) /\ ~ whole.dirty
    BY <1>0a, <1>3, <1>4, <1>5, <2>3 DEF ModemOpen, modem_offset
  <2>5. Counts(whole, m + l)
    <3>1. whole.misplaced = d.misplaced
      BY <1>3, <1>4, <1>5
    <3>2. Len(d.bank) <= m /\ (~ d.misplaced => Len(d.bank) = m)
      BY <1>0a
    <3> QED BY <1>0, <2>3, <3>1, <3>2 DEF Counts
  <2>6. ModemHolds(whole, f, m + Len(data))
    BY <2>2, <2>4, <2>5 DEF ModemHolds, l
  <2> QED BY <1>7, <1>8, <2>1, <2>2, <2>6
<1>9. CASE \E n \in 0 .. l - 1 : x = Ret(part(n), "EFAULT")
  <2>1. PICK n \in 0 .. l - 1 : x = Ret(part(n), "EFAULT")
    BY <1>9
  <2>2. n \in 0 .. l
    BY <1>0
  <2> QED BY <1>3, <1>6, <1>7, <2>1, <2>2
<1> QED BY <1>1, <1>8, <1>9

(* The same data is sent again to a modem that has deleted the patch, or   *)
(* has not.                                                                *)
LEMMA ModemRefused ==
    ASSUME NEW d, DfuOK(d), NEW f \in File, NEW m \in Nat, ModemHolds(d, f, m),
           NEW r \in delete_banked_modem_fw(d)
    PROVE  LET again == [r.d EXCEPT !.misplaced = d.misplaced \/ r.d.bank # d.bank]
           IN  /\ DfuOK(again) /\ SameSlot(d, again) /\ BankOf(again, f)
               /\ r.err # "STUCK" => ModemHolds(again, f, m)
<1> DEFINE lost  == d.misplaced \/ r.d.bank # d.bank
           again == [r.d EXCEPT !.misplaced = lost]
<1>1. /\ DfuOK(r.d) /\ SameSlot(d, r.d) /\ r.d.fd = d.fd
      /\ \/ r.d = d /\ r.err = "EFAULT"
         \/ /\ r.d.bank = <<>> /\ ~ r.d.dirty /\ r.d.offset = 0 /\ ~ r.d.misplaced
            /\ r.err = "OK"
         \/ r.d.bank = d.bank /\ r.d.misplaced = d.misplaced /\ r.err = "STUCK"
  BY BankDeleted
<1>2. /\ ModemOpen(d) /\ ~ d.dirty /\ BankOf(d, f) /\ Counts(d, m) /\ d.fd
      /\ d.misplaced \in BOOLEAN
  BY DEF ModemHolds, ModemOpen, DfuOK, DfuState
<1>3. /\ again \in DfuState /\ SameSlot(r.d, again) /\ again.fd = r.d.fd /\ again.bank = r.d.bank
      /\ again.offset = r.d.offset /\ again.dirty = r.d.dirty /\ again.misplaced = lost
  <2>1. r.d \in DfuState /\ lost \in BOOLEAN
    BY <1>1 DEF DfuOK
  <2> HIDE DEF lost
  <2> QED BY <2>1 DEF DfuState, SameSlot
<1>4. r.d.bank = d.bank => lost = d.misplaced
  BY <1>2
<1>5. r.d.bank = <<>> /\ ~ lost => d.bank = <<>> /\ ~ d.misplaced
  OBVIOUS
<1> HIDE DEF again, lost
<1>6. DfuOK(again) /\ SameSlot(d, again)
  BY <1>1, <1>3 DEF DfuOK, SameSlot
<1>7. CASE r.d.bank = d.bank /\ (r.d = d \/ r.err = "STUCK")
  <2>1. BankOf(again, f)
    BY <1>2, <1>3, <1>4, <1>7 DEF BankOf
  <2>2. r.d = d => ModemHolds(again, f, m)
    BY <1>2, <1>3, <1>4, <1>7, <2>1 DEF ModemHolds, ModemOpen, modem_offset, Counts
  <2> QED BY <1>6, <1>7, <2>1, <2>2 DEF again, lost
<1>8. CASE r.d.bank = <<>> /\ ~ r.d.dirty /\ r.d.offset = 0
  <2>0. again.bank = <<>> /\ ~ again.dirty /\ again.offset = 0 /\ again.fd /\ Len(<<>>) = 0
    BY <1>1, <1>2, <1>3, <1>8
  <2>1. BankOf(again, f)
    BY <2>0, NoBank
  <2>2. ModemOpen(again)
    BY <2>0 DEF ModemOpen, modem_offset
  <2>3. Counts(again, m)
    BY <1>2, <1>3, <1>5, <1>8, <2>0 DEF Counts
  <2> QED BY <1>6, <2>0, <2>1, <2>2, <2>3 DEF ModemHolds, again, lost
<1> QED BY <1>1, <1>7, <1>8

LEMMA ModemWritten ==
    ASSUME NEW d, DfuOK(d), NEW f \in File, NEW m \in Nat, ModemHolds(d, f, m),
           NEW data \in Seq(Unit), Holds(data, f, m), NEW w \in dfu_target_modem_write(d, data)
    PROVE  /\ DfuOK(w.d) /\ SameSlot(d, w.d) /\ BankOf(w.d, f)
           /\ w.err = "OK" => ModemHolds(w.d, f, m + Len(data))
<1> DEFINE again(r) == [r.d EXCEPT !.misplaced = d.misplaced \/ r.d.bank # d.bank]
<1>1. \/ w \in modem_send(d, data)
      \/ \E r \in delete_banked_modem_fw(d) :
            \/ w = Ret(again(r), "STUCK")
            \/ /\ r.err # "STUCK"
               /\ \E x \in modem_send(again(r), data) :
                     w = IF x.err = "OK" THEN x ELSE Ret(x.d, "EINVAL")
  <2>1. d.fd
    BY DEF ModemHolds, ModemOpen
  <2> QED BY <2>1 DEF dfu_target_modem_write, modem_send_again, May
<1>2. CASE w \in modem_send(d, data)
  BY <1>2, ModemSent
<1>3. CASE w \notin modem_send(d, data)
  <2>1. PICK r \in delete_banked_modem_fw(d) :
            \/ w = Ret(again(r), "STUCK")
            \/ /\ r.err # "STUCK"
               /\ \E x \in modem_send(again(r), data) :
                     w = IF x.err = "OK" THEN x ELSE Ret(x.d, "EINVAL")
    BY <1>1, <1>3
  <2> DEFINE g == again(r)
  <2>2. DfuOK(g) /\ SameSlot(d, g) /\ BankOf(g, f) /\ (r.err # "STUCK" => ModemHolds(g, f, m))
    BY ModemRefused
  <2> HIDE DEF g
  <2>3. CASE w = Ret(g, "STUCK")
    BY <2>2, <2>3 DEF Ret
  <2>4. CASE /\ r.err # "STUCK"
             /\ \E x \in modem_send(g, data) : w = IF x.err = "OK" THEN x ELSE Ret(x.d, "EINVAL")
    <3>1. PICK x \in modem_send(g, data) : w = IF x.err = "OK" THEN x ELSE Ret(x.d, "EINVAL")
      BY <2>4
    <3>2. /\ DfuOK(x.d) /\ SameSlot(g, x.d) /\ BankOf(x.d, f)
          /\ x.err = "OK" => ModemHolds(x.d, f, m + Len(data))
      BY <2>2, <2>4, ModemSent
    <3>3. w.d = x.d /\ (w.err = "OK" => x.err = "OK")
      BY <3>1 DEF Ret
    <3>4. SameSlot(d, x.d)
      BY <2>2, <3>2 DEF SameSlot
    <3> QED BY <3>2, <3>3, <3>4
  <2> QED BY <2>1, <2>3, <2>4 DEF g
<1> QED BY <1>2, <1>3

LEMMA ModemDone ==
    ASSUME NEW d, DfuOK(d), NEW ok \in BOOLEAN, NEW r \in dfu_target_modem_done(d, ok),
           FotaDiscipline
    PROVE  /\ DfuOK(r.d) /\ SameSlot(d, r.d)
           /\ r.d.bank = d.bank /\ r.d.misplaced = d.misplaced
           /\ ~ ok => r.d.apply = d.apply
           /\ ok => r.d.apply
           /\ d.fd => r.err = "OK"
<1> DEFINE tagged == [d EXCEPT !.apply = TRUE]
           e == IF ok THEN tagged ELSE d
           closed == [e EXCEPT !.fd = FALSE]
<1>0. d \in DfuState /\ d.img <= Len(d.slot)
  BY DEF DfuOK
<1>1. r = (IF e.fd THEN Ret(closed, "OK") ELSE Ret(e, "ECLOSE"))
  <2>1. "apply" \notin Faults /\ "modem_close" \notin Faults
    BY DEF FotaDiscipline
  <2> QED BY <2>1 DEF dfu_target_modem_done, apply_modem_upgrade, May
<1>2. tagged \in DfuState
  BY <1>0 DEF DfuState
<1>3. /\ tagged.apply = TRUE /\ SameSlot(d, tagged)
      /\ tagged.bank = d.bank /\ tagged.misplaced = d.misplaced /\ tagged.fd = d.fd
  BY <1>0 DEF DfuState, SameSlot
<1> HIDE DEF tagged
<1>4. /\ e \in DfuState /\ SameSlot(d, e)
      /\ e.bank = d.bank /\ e.misplaced = d.misplaced /\ e.fd = d.fd
      /\ ~ ok => e.apply = d.apply
      /\ ok => e.apply
  BY <1>0, <1>2, <1>3 DEF SameSlot
<1> HIDE DEF e
<1>5. /\ closed \in DfuState /\ SameSlot(e, closed) /\ closed.bank = e.bank
      /\ closed.misplaced = e.misplaced /\ closed.apply = e.apply
  BY <1>4 DEF DfuState, SameSlot
<1> HIDE DEF closed
<1>6. /\ e.fd => r.d = closed /\ r.err = "OK"
      /\ ~ e.fd => r.d = e
  BY <1>1 DEF Ret
<1> QED BY <1>0, <1>4, <1>5, <1>6 DEF SameSlot, DfuOK

-----------------------------------------------------------------------------
(* Target selection *)

(* The target for a file is selected and holds the first n units of it. *)
Selected(d, f, n) ==
    /\ d.current_target = Type[f]
    /\ d.current_target = "MCUBOOT" => SlotHolds(d, f) /\ d.img + Len(d.img_buf) = n
    /\ d.current_target = "MODEM" => ModemHolds(d, f, n)

(* A patch in the modem stays one of the file, no other target touches it, *)
(* and no other file than this one comes to be applied.                    *)
TargetKept(d, f, e) ==
    /\ Type[f] = "MODEM" /\ BankOf(d, f) => BankOf(e, f)
    /\ Type[f] # "MODEM" => e.bank = d.bank /\ e.misplaced = d.misplaced
    /\ Applied(e) \subseteq Applied(d) \cup {f}

LEMMA TargetWritten ==
    ASSUME NEW d, DfuOK(d), NEW f \in File, NEW n \in Nat, Selected(d, f, n),
           d.current_target # "NULL",
           NEW data \in Seq(Unit), Holds(data, f, n), NEW w \in dfu_target_write(d, data)
    PROVE  /\ DfuOK(w.d) /\ w.d.current_target = d.current_target
           /\ TargetKept(d, f, w.d)
           /\ w.err = "STUCK" => d.current_target = "MODEM"
           /\ w.err = "OK" => Selected(w.d, f, n + Len(data))
<1>0. d.current_target \in {"MCUBOOT", "MODEM"}
  BY DEF DfuOK, DfuState
<1>1. CASE d.current_target = "MCUBOOT"
  <2>1. w \in dfu_target_mcuboot_write(d, data)
    BY <1>1 DEF dfu_target_write
  <2>2. /\ DfuOK(w.d) /\ SameModem(d, w.d) /\ SlotKept(d, w.d)
        /\ w.err # "OK" => w.d = d
        /\ w.err \in {"OK", "ENOSPC", "EIO"}
        /\ w.err = "OK" => Written(d, data, w.d)
    BY <2>1, McubootWritten
  <2>3. /\ w.d.current_target = d.current_target /\ w.d.bank = d.bank
        /\ w.d.misplaced = d.misplaced /\ w.d.apply = d.apply
    BY <2>2 DEF SameModem
  <2>4. SlotHolds(d, f) /\ d.img + Len(d.img_buf) = n /\ Type[f] = "MCUBOOT"
    BY <1>1 DEF Selected
  <2>5. w.err = "OK" => SlotHolds(w.d, f) /\ w.d.img + Len(w.d.img_buf) = n + Len(data)
    BY <2>2, <2>4 DEF Written
  <2>6. Applied(w.d) \subseteq Applied(d) \cup {f}
    <3>1. CASE w.d.slot = d.slot /\ (w.d.trailer => d.trailer)
      BY <2>2, <2>3, <3>1, AppliedSlot
    <3>2. CASE w.err = "OK" /\ w.d.img # 0
      <4>1. w.d.img \in Nat /\ w.d.img <= Len(w.d.slot) /\ Len(w.d.slot) \in Nat
        BY <2>2 DEF DfuOK, DfuState
      <4>2. Starts(w.d.slot, 1, f)
        BY <2>5, <3>2, <4>1 DEF SlotHolds, Starts
      <4>3. Len(w.d.slot) # 0
        BY <3>2, <4>1
      <4> QED BY <2>2, <2>3, <4>2, <4>3, AppliedSlot
    <3> QED BY <2>2, <3>1, <3>2 DEF SlotKept
  <2> QED BY <1>1, <2>2, <2>3, <2>4, <2>5, <2>6 DEF Selected, TargetKept
<1>2. CASE d.current_target = "MODEM"
  <2>1. w \in dfu_target_modem_write(d, data)
    BY <1>2 DEF dfu_target_write
  <2>2. ModemHolds(d, f, n) /\ Type[f] = "MODEM"
    BY <1>2 DEF Selected
  <2>3. /\ DfuOK(w.d) /\ SameSlot(d, w.d) /\ BankOf(w.d, f)
        /\ w.err = "OK" => ModemHolds(w.d, f, n + Len(data))
    BY <2>1, <2>2, ModemWritten
  <2>4. w.d.current_target = d.current_target /\ w.d.slot = d.slot /\ w.d.trailer = d.trailer
    BY <2>3 DEF SameSlot
  <2>5. Applied(w.d) \subseteq Applied(d) \cup {f}
    BY <2>3, <2>4, AppliedBank
  <2> QED BY <1>2, <2>2, <2>3, <2>4, <2>5 DEF Selected, TargetKept
<1> QED BY <1>0, <1>1, <1>2

(* Nothing that is applied, or the modem holds, changes. *)
SameImages(d, e) ==
    /\ e.slot = d.slot /\ e.trailer = d.trailer
    /\ e.bank = d.bank /\ e.apply = d.apply /\ e.misplaced = d.misplaced

LEMMA ImagesKept ==
    ASSUME NEW d, NEW e, SameImages(d, e), NEW f
    PROVE  TargetKept(d, f, e) /\ Applied(e) = Applied(d) /\ (BankOf(d, f) => BankOf(e, f))
<1>1. Applied(e) = Applied(d)
  BY DEF SameImages, Applied
<1> QED BY <1>1 DEF SameImages, TargetKept, BankOf

LEMMA TargetAborted ==
    ASSUME NEW d, DfuOK(d), NEW r \in dfu_target_done(d, FALSE), FotaDiscipline
    PROVE  /\ DfuOK(r.d) /\ r.d.current_target = d.current_target /\ SameImages(d, r.d)
           /\ d.current_target = "MCUBOOT" => Empty(r.d)
<1>0. FALSE \in BOOLEAN
  OBVIOUS
<1>1. CASE d.current_target = "NULL"
  BY <1>1 DEF dfu_target_done, Ret, SameImages
<1>2. CASE d.current_target # "NULL"
  <2>1. r \in target_done(d, FALSE)
    BY <1>2 DEF dfu_target_done
  <2>2. CASE d.current_target = "MCUBOOT"
    <3>1. r \in dfu_target_mcuboot_done(d, FALSE)
      BY <2>1, <2>2 DEF target_done
    <3> QED BY <1>0, <3>1, McubootDone DEF SameModem, SameImages
  <2>3. CASE d.current_target # "MCUBOOT"
    <3>1. r \in dfu_target_modem_done(d, FALSE)
      BY <2>1, <2>3 DEF target_done
    <3> QED BY <1>0, <2>3, <3>1, ModemDone DEF SameSlot, SameImages
  <2> QED BY <2>2, <2>3
<1> QED BY <1>1, <1>2

LEMMA McubootAborts ==
    ASSUME NEW d, NEW r \in dfu_target_mcuboot_done(d, FALSE)
    PROVE  r.err = "OK"
  BY DEF dfu_target_mcuboot_done, Ret

LEMMA TargetReset ==
    ASSUME NEW d, DfuOK(d), NEW r \in dfu_target_reset(d), FotaDiscipline
    PROVE  /\ DfuOK(r.d) /\ r.d.current_target \in {d.current_target, "NULL"}
           /\ SameImages(d, r.d)
           /\ r.d.current_target # "MCUBOOT"
<1>0. FALSE \in BOOLEAN
  OBVIOUS
<1>1. CASE d.current_target = "NULL"
  BY <1>1 DEF dfu_target_reset, Ret, SameImages
<1>2. CASE d.current_target # "NULL"
  <2>1. PICK x \in target_done(d, FALSE) :
            r = IF x.err = "OK" THEN Ret([x.d EXCEPT !.current_target = "NULL"], "OK") ELSE x
    BY <1>2 DEF dfu_target_reset
  <2>2. /\ DfuOK(x.d)
        /\ x.d.current_target = d.current_target
        /\ SameImages(d, x.d)
        /\ d.current_target = "MCUBOOT" => x.err = "OK"
    <3>1. CASE d.current_target = "MCUBOOT"
      <4>1. x \in dfu_target_mcuboot_done(d, FALSE)
        BY <3>1 DEF target_done
      <4> QED BY <1>0, <4>1, McubootDone, McubootAborts DEF SameModem, SameImages
    <3>2. CASE d.current_target # "MCUBOOT"
      <4>1. x \in dfu_target_modem_done(d, FALSE)
        BY <3>2 DEF target_done
      <4> QED BY <1>0, <3>2, <4>1, ModemDone DEF SameSlot, SameImages
    <3> QED BY <3>1, <3>2
  <2>3. CASE x.err # "OK"
    BY <2>1, <2>2, <2>3
  <2>4. CASE x.err = "OK"
    <3> DEFINE e == [x.d EXCEPT !.current_target = "NULL"]
    <3>1. r.d = e
      BY <2>1, <2>4 DEF Ret
    <3>2. x.d \in DfuState /\ x.d.img <= Len(x.d.slot)
      BY <2>2 DEF DfuOK
    <3>3. e \in DfuState /\ e.current_target = "NULL" /\ SameImages(x.d, e) /\ e.img = x.d.img
      BY <3>2 DEF DfuState, SameImages
    <3> HIDE DEF e
    <3> QED BY <2>2, <3>1, <3>2, <3>3 DEF DfuOK, SameImages
  <2> QED BY <2>3, <2>4
<1> QED BY <1>1, <1>2

LEMMA TargetInit ==
    ASSUME NEW d, DfuOK(d), NEW f \in File, d.current_target = "MCUBOOT" => Empty(d),
           Type[f] = "MODEM" => BankOf(d, f),
           NEW n, NEW i \in dfu_target_init(d, Type[f], n)
    PROVE  /\ DfuOK(i.d) /\ TargetKept(d, f, i.d)
           /\ i.d.current_target \in {d.current_target, Type[f]}
           /\ i.err = "STUCK" => i.d.current_target = "MODEM" /\ Type[f] = "MODEM"
           /\ i.err = "OK" => i.d.current_target = Type[f] /\ i.d.current_target # "NULL"
           /\ i.err = "OK" /\ dfu_target_offset_get(i.d) = 0 => Selected(i.d, f, 0)
           /\ i.err = "OK" /\ dfu_target_offset_get(i.d) # 0 => Type[f] = "MODEM" /\ ModemOpen(i.d)
<1> DEFINE e == [d EXCEPT !.current_target = Type[f]]
<1>0. /\ Type[f] \in {"MCUBOOT", "MODEM", "OTHER"} /\ d \in DfuState /\ d.img <= Len(d.slot)
      /\ Size[f] \in Nat /\ DIRTY_IMAGE \in Nat /\ Size[f] < DIRTY_IMAGE
  BY DfuAssumption DEF DfuOK
<1>0a. TargetKept(d, f, d)
  BY ImagesKept DEF SameImages
<1>1. ASSUME NEW x, DfuOK(x), Empty(x), x.current_target = Type[f], Type[f] = "MCUBOOT"
      PROVE  Selected(x, f, 0) /\ dfu_target_offset_get(x) = 0
  <2>1. x.img = 0 /\ x.img_buf = <<>> /\ Len(<<>>) = 0
    BY <1>1 DEF Empty
  <2>2. Starts(x.slot, x.img, f)
    BY <2>1 DEF Starts
  <2>3. Holds(x.img_buf, f, x.img)
    BY <1>0, <2>1 DEF Holds
  <2> QED BY <1>1, <2>1, <2>2, <2>3 DEF Selected, SlotHolds, dfu_target_offset_get
<1>2. CASE Type[f] = "OTHER"
  <2>1. i = Ret(d, "ENOTSUP")
    BY <1>2 DEF dfu_target_init
  <2> QED BY <1>0a, <1>2, <2>1 DEF Ret
<1>3. CASE Type[f] = "MCUBOOT" /\ d.current_target = "MCUBOOT"
  <2>1. i = Ret(d, "OK")
    BY <1>3 DEF dfu_target_init
  <2> QED BY <1>0a, <1>1, <1>3, <2>1 DEF Ret
<1>4. ASSUME Type[f] # "OTHER"
      PROVE  e \in DfuState /\ DfuOK(e) /\ e.current_target = Type[f] /\ SameImages(d, e)
  <2>1. Type[f] \in {"NULL", "MCUBOOT", "MODEM"}
    BY <1>0, <1>4
  <2>2. e \in DfuState /\ e.current_target = Type[f] /\ SameImages(d, e) /\ e.img = d.img
    BY <1>0, <2>1 DEF DfuState, SameImages
  <2> HIDE DEF e
  <2> QED BY <1>0, <2>2 DEF DfuOK, SameImages
<1>5. CASE Type[f] = "MCUBOOT" /\ d.current_target # "MCUBOOT"
  <2>1. e.current_target = "MCUBOOT" /\ DfuOK(e) /\ SameImages(d, e)
    BY <1>4, <1>5
  <2>2. i \in target_init(e, n)
    BY <1>5 DEF dfu_target_init
  <2> HIDE DEF e
  <2>3. i \in dfu_target_mcuboot_init(e, n)
    BY <2>1, <2>2 DEF target_init
  <2>4. /\ DfuOK(i.d) /\ SameModem(e, i.d) /\ i.d.slot = e.slot /\ i.d.trailer = e.trailer
        /\ i.err = "OK" => Empty(i.d)
        /\ i.err # "STUCK"
    BY <2>1, <2>3, McubootInit
  <2>5. i.d.current_target = "MCUBOOT" /\ SameImages(d, i.d)
    BY <2>1, <2>4 DEF SameModem, SameImages
  <2>6. TargetKept(d, f, i.d)
    BY <2>5, ImagesKept
  <2> QED BY <1>1, <1>5, <2>4, <2>5, <2>6
<1>6. CASE Type[f] = "MODEM"
  <2>1. e.current_target = "MODEM" /\ DfuOK(e) /\ SameImages(d, e)
    BY <1>4, <1>6
  <2>2. i \in target_init(e, n)
    BY <1>6 DEF dfu_target_init
  <2> HIDE DEF e
  <2>3. i \in dfu_target_modem_init(e, n)
    BY <2>1, <2>2 DEF target_init
  <2>3a. BankOf(e, f)
    BY <1>6, <2>1, ImagesKept
  <2>4. /\ DfuOK(i.d) /\ SameSlot(e, i.d) /\ BankOf(i.d, f)
        /\ i.err = "OK" => ModemOpen(i.d) /\ (i.d.bank = <<>> => ~ i.d.misplaced)
    BY <2>1, <2>3, <2>3a, ModemInit
  <2>5. i.d.current_target = "MODEM" /\ i.d.slot = d.slot /\ i.d.trailer = d.trailer
    BY <2>1, <2>4 DEF SameSlot, SameImages
  <2>6. TargetKept(d, f, i.d)
    <3>1. Applied(i.d) \subseteq Applied(d) \cup {f}
      BY <2>4, <2>5, AppliedBank
    <3> QED BY <1>6, <2>4, <3>1 DEF TargetKept
  <2>8. ModemOpen(i.d) /\ dfu_target_offset_get(i.d) = 0 => Selected(i.d, f, 0)
    <3> SUFFICES ASSUME ModemOpen(i.d), dfu_target_offset_get(i.d) = 0 PROVE Selected(i.d, f, 0)
      OBVIOUS
    <3>1. i.d.offset = 0 /\ modem_offset(i.d) = 0
      BY <2>5 DEF dfu_target_offset_get, ModemOpen
    <3>2. ~ i.d.dirty /\ Len(i.d.bank) = 0
      BY <1>0, <3>1 DEF modem_offset
    <3>3. Counts(i.d, 0)
      BY <3>2 DEF Counts
    <3> QED BY <1>6, <2>4, <2>5, <3>2, <3>3 DEF Selected, ModemHolds
  <2> QED BY <1>6, <2>4, <2>5, <2>6, <2>8
<1> QED BY <1>0, <1>2, <1>3, <1>5, <1>6

(* The bank of the modem holds as much as a file holds the file. *)
LEMMA WholeBank ==
    ASSUME NEW b \in Seq(Unit), NEW f \in File, Holds(b, f, 0), Len(b) = Size[f]
    PROVE  b = Image(f)
<1> DEFINE im == Image(f)
<1>1. /\ im \in Seq(Unit) /\ Len(im) = Size[f] /\ Size[f] \in Nat
      /\ \A i \in 1 .. Size[f] : im[i] = [file |-> f, at |-> i - 1]
  BY ImageFacts
<1> HIDE DEF im
<1>2. ASSUME NEW i \in 1 .. Len(b) PROVE b[i] = im[i]
  <2>1. b[i] = [file |-> f, at |-> 0 + i - 1] /\ 0 + i - 1 = i - 1
    BY <1>1 DEF Holds
  <2> QED BY <1>1, <2>1
<1>3. b = im
  BY <1>1, <1>2, SeqEqual
<1> QED BY <1>3 DEF im

LEMMA TargetDone ==
    ASSUME NEW d, DfuOK(d), NEW f \in File, Selected(d, f, Size[f]), d.current_target # "NULL",
           NEW r \in dfu_target_done(d, TRUE), FotaDiscipline
    PROVE  /\ DfuOK(r.d) /\ TargetKept(d, f, r.d) /\ r.d.misplaced = d.misplaced
           /\ r.err = "OK" => r.d.current_target = "NULL" /\ (~ d.misplaced => f \in Applied(r.d))
           /\ r.err # "OK" => d.current_target = "MCUBOOT" /\ r.d.current_target = "MCUBOOT" /\ Empty(r.d)
<1>0. /\ TRUE \in BOOLEAN /\ d.current_target \in {"MCUBOOT", "MODEM"}
      /\ Size[f] \in Nat \ {0}
  BY ImageFacts DEF DfuOK, DfuState
<1>1. PICK x \in target_done(d, TRUE) :
          r = IF x.err = "OK" THEN Ret([x.d EXCEPT !.current_target = "NULL"], "OK") ELSE x
  BY DEF dfu_target_done
<1>2. /\ DfuOK(x.d) /\ TargetKept(d, f, x.d) /\ x.d.misplaced = d.misplaced
      /\ x.err = "OK" => (~ d.misplaced => f \in Applied(x.d))
      /\ x.err # "OK" => d.current_target = "MCUBOOT" /\ x.d.current_target = "MCUBOOT" /\ Empty(x.d)
  <2>1. CASE d.current_target = "MCUBOOT"
    <3>1. x \in dfu_target_mcuboot_done(d, TRUE)
      BY <2>1 DEF target_done
    <3>2. SlotHolds(d, f) /\ d.img + Len(d.img_buf) = Size[f] /\ Type[f] = "MCUBOOT"
      BY <2>1 DEF Selected
    <3>3. /\ DfuOK(x.d) /\ Empty(x.d) /\ SameModem(d, x.d)
          /\ \/ x.d.slot = d.slot /\ (x.d.trailer => d.trailer)
             \/ Len(x.d.slot) >= Size[f] /\ Starts(x.d.slot, Size[f], f)
          /\ x.err = "OK" =>
                x.d.trailer /\ Len(x.d.slot) >= Size[f] /\ Starts(x.d.slot, Size[f], f)
      BY <1>0, <3>1, <3>2, McubootDone
    <3>4. /\ x.d.bank = d.bank /\ x.d.apply = d.apply /\ x.d.misplaced = d.misplaced
          /\ x.d.current_target = d.current_target
          /\ x.d.slot \in Seq(Unit) /\ Len(x.d.slot) \in Nat
      BY <3>3 DEF SameModem, DfuOK, DfuState
    <3>5. Applied(x.d) \subseteq Applied(d) \cup {f}
      <4>1. CASE x.d.slot = d.slot /\ (x.d.trailer => d.trailer)
        BY <3>3, <3>4, <4>1, AppliedSlot
      <4>2. CASE Len(x.d.slot) >= Size[f] /\ Starts(x.d.slot, Size[f], f)
        <5>1. Len(x.d.slot) # 0 /\ Starts(x.d.slot, 1, f)
          BY <1>0, <3>4, <4>2 DEF Starts
        <5> QED BY <3>3, <3>4, <5>1, AppliedSlot
      <4> QED BY <3>3, <4>1, <4>2
    <3>6. x.err = "OK" => f \in Applied(x.d)
      <4> SUFFICES ASSUME x.err = "OK" PROVE f \in Applied(x.d)
        OBVIOUS
      <4>1. x.d.trailer /\ Len(x.d.slot) >= Size[f] /\ Starts(x.d.slot, Size[f], f)
        BY <3>3
      <4>2. Size[f] \in 0 .. Len(x.d.slot)
        BY <1>0, <3>4, <4>1
      <4>3. SubSeq(x.d.slot, 1, Size[f]) = Image(f)
        BY <3>4, <4>1, <4>2, WholeSlot
      <4> QED BY <3>2, <4>1, <4>3 DEF Applied
    <3> QED BY <2>1, <3>2, <3>3, <3>4, <3>5, <3>6 DEF TargetKept
  <2>2. CASE d.current_target = "MODEM"
    <3>1. x \in dfu_target_modem_done(d, TRUE)
      BY <2>2 DEF target_done
    <3>2. ModemHolds(d, f, Size[f]) /\ Type[f] = "MODEM"
      BY <2>2 DEF Selected
    <3>3. d.fd /\ BankOf(d, f) /\ (~ d.misplaced => Holds(d.bank, f, 0) /\ Len(d.bank) = Size[f])
      BY <3>2 DEF ModemHolds, ModemOpen, Counts, BankOf
    <3>4. ~ d.misplaced => d.bank = Image(f)
      BY <3>3, WholeBank DEF DfuOK, DfuState
    <3>5. /\ DfuOK(x.d) /\ SameSlot(d, x.d)
          /\ x.d.bank = d.bank /\ x.d.misplaced = d.misplaced
          /\ x.d.apply /\ x.err = "OK"
      BY <1>0, <3>1, <3>3, ModemDone
    <3>6. BankOf(x.d, f)
      BY <3>3, <3>5 DEF BankOf
    <3>7. Applied(x.d) \subseteq Applied(d) \cup {f}
      BY <3>5, <3>6, AppliedBank DEF SameSlot
    <3>8. ~ d.misplaced => f \in Applied(x.d)
      BY <3>2, <3>4, <3>5 DEF Applied
    <3> QED BY <3>2, <3>5, <3>6, <3>7, <3>8 DEF TargetKept
  <2> QED BY <1>0, <2>1, <2>2
<1>3. CASE x.err # "OK"
  BY <1>1, <1>2, <1>3
<1>4. CASE x.err = "OK"
  <2> DEFINE e == [x.d EXCEPT !.current_target = "NULL"]
  <2>1. r.d = e /\ r.err = "OK"
    BY <1>1, <1>4 DEF Ret
  <2>2. x.d \in DfuState /\ x.d.img <= Len(x.d.slot)
    BY <1>2 DEF DfuOK
  <2>3. e \in DfuState /\ e.current_target = "NULL" /\ SameImages(x.d, e) /\ e.img = x.d.img
    BY <2>2 DEF DfuState, SameImages
  <2> HIDE DEF e
  <2>4. DfuOK(e) /\ Applied(e) = Applied(x.d) /\ (BankOf(x.d, f) => BankOf(e, f))
    BY <2>2, <2>3, ImagesKept DEF DfuOK, SameImages
  <2>5. TargetKept(d, f, e)
    BY <1>2, <2>3, <2>4 DEF TargetKept, SameImages
  <2>6. e.misplaced = d.misplaced
    BY <1>2, <2>3 DEF SameImages
  <2> QED BY <1>2, <1>4, <2>1, <2>3, <2>4, <2>5, <2>6
<1> QED BY <1>3, <1>4

-----------------------------------------------------------------------------
(* Connections *)

LEMMA NewSocks ==
    /\ SockOK(NoSock) /\ Silent(NoSock) /\ ~ NoSock.fd
    /\ SockOK(NewSock) /\ Silent(NewSock) /\ NewSock.fd
<1>1. <<>> \in Seq(Item) /\ <<>> \in Seq([file : File, from : Nat, to : Nat]) /\ Len(<<>>) = 0
  OBVIOUS
<1>2. NoEnd(<<>>)
  BY <1>1 DEF NoEnd
<1> QED BY <1>1, <1>2 DEF SockOK, Silent, NoSock, NewSock

LEMMA DisconnectedFacts ==
    ASSUME NEW s, SockOK(s), NEW c \in Disconnected(s), FotaDiscipline
    PROVE  c.s = NoSock /\ (s.fd => c.err = "OK")
  BY DEF Disconnected, May, FotaDiscipline, SockOK

LEMMA ConnectedFacts ==
    ASSUME NEW s, SockOK(s), NEW c \in Connected(s)
    PROVE  /\ c.s \in {s, NoSock, NewSock}
           /\ c.err = "OK" => c.s.fd
           /\ s.fd => c.s = s
<1>1. CASE s.fd
  BY <1>1 DEF Connected
<1>2. CASE ~ s.fd
  BY <1>2, NewSocks DEF Connected, May
<1> QED BY <1>1, <1>2

LEMMA ReconnectedFacts ==
    ASSUME NEW s, SockOK(s), NEW c \in Reconnected(s), FotaDiscipline
    PROVE  c.s \in {NoSock, NewSock}
<1>1. PICK d \in Disconnected(s) : c \in IF d.err # "OK" THEN {d} ELSE Connected(d.s)
  BY DEF Reconnected
<1>2. d.s = NoSock
  BY DisconnectedFacts
<1>3. CASE d.err # "OK"
  BY <1>1, <1>2, <1>3
<1>4. CASE d.err = "OK"
  BY <1>1, <1>2, <1>4, NewSocks, ConnectedFacts
<1> QED BY <1>3, <1>4

LEMMA SilentWaits ==
    ASSUME NEW s, Silent(s), NEW f, NEW p
    PROVE  Waiting(s, f, p)
<1>1. \A i \in 1 .. Len(s.rx) : s.rx[i].k # "end"
  BY DEF Silent, NoEnd
<1>2. Answering(s.rx, f, p)
  BY <1>1 DEF Answering
<1> QED BY <1>2 DEF Waiting, Silent

LEMMA RequestType ==
    ASSUME NEW c, ClientOK(c), PROTO = "TLS"
    PROVE  /\ Request(c) \in [file : File, from : Nat, to : Nat]
           /\ Request(c).file = c.file /\ Request(c).from = c.progress
<1>1. /\ c.file \in File /\ c.progress \in Nat /\ c.file_size \in Nat /\ c.frag \in 0 .. BUF_SIZE
      /\ FRAG_SIZE \in Nat \ {0} /\ BUF_SIZE \in Nat
  BY ClientAssumption DEF ClientOK, ClientRecord
<1>2. RequestEnd(c) \in Nat
  <2> DEFINE off == c.progress + (IF c.frag # 0 THEN c.frag ELSE FRAG_SIZE) - 1
  <2>1. off \in Nat
    BY <1>1
  <2>2. RequestEnd(c) = IF c.file_size # 0 /\ c.file_size < off THEN c.file_size ELSE off
    BY DEF RequestEnd
  <2> HIDE DEF off
  <2> QED BY <1>1, <2>1, <2>2
<1> QED BY <1>1, <1>2 DEF Request

(* A request on a quiet connection. *)
LEMMA RequestFacts ==
    ASSUME NEW s, SockOK(s), Silent(s), NEW c, ClientOK(c), NEW r \in RequestSent(s, c),
           PROTO = "TLS"
    PROVE  /\ SockOK(r.s) /\ r.s.fd = s.fd
           /\ Waiting(r.s, c.file, c.progress)
           /\ r.err = "OK" => s.fd
           /\ r.err # "OK" => r.s = s
<1> DEFINE q == Request(c)
           sent == [s EXCEPT !.reqs = IF s.open THEN Append(s.reqs, q) ELSE s.reqs]
           R == [file : File, from : Nat, to : Nat]
<1>1. q \in R /\ q.file = c.file /\ q.from = c.progress
  BY RequestType
<1>2. \/ ~ s.fd /\ r = [s |-> s, err |-> "EBADF"]
      \/ s.fd /\ r = [s |-> sent, err |-> "OK"]
      \/ s.fd /\ r = [s |-> s, err |-> "ESEND"]
  BY DEF RequestSent, May
<1> HIDE DEF q
<1>3. /\ s \in [fd : BOOLEAN, reqs : Seq(R), rx : Seq(Item), open : BOOLEAN]
      /\ s.reqs = <<>> /\ NoEnd(s.rx)
  BY DEF SockOK, Silent
<1>4. /\ Append(<<>>, q) \in Seq(R) /\ Len(Append(<<>>, q)) = 1 /\ Append(<<>>, q)[1] = q
      /\ <<>> \in Seq(R)
  BY <1>1
<1>5. /\ sent \in [fd : BOOLEAN, reqs : Seq(R), rx : Seq(Item), open : BOOLEAN]
      /\ sent.fd = s.fd /\ sent.rx = s.rx
      /\ sent.reqs = IF s.open THEN Append(<<>>, q) ELSE <<>>
  BY <1>3, <1>4
<1> HIDE DEF sent, R
<1>6. Waiting(s, c.file, c.progress)
  BY SilentWaits
<1>7. CASE \/ ~ s.fd /\ r = [s |-> s, err |-> "EBADF"]
           \/ s.fd /\ r = [s |-> s, err |-> "ESEND"]
  BY <1>6, <1>7
<1>8. CASE s.fd /\ r = [s |-> sent, err |-> "OK"]
  <2>1. r.s = sent /\ r.err = "OK"
    BY <1>8
  <2>2. Waiting(sent, c.file, c.progress)
    BY <1>1, <1>3, <1>4, <1>5, <1>6 DEF Waiting
  <2>3. SockOK(sent)
    BY <1>5, <1>8 DEF SockOK, R
  <2>4. sent.fd = s.fd /\ s.fd
    BY <1>5, <1>8
  <2>5. SockOK(r.s) /\ Waiting(r.s, c.file, c.progress)
    BY <2>1, <2>2, <2>3
  <2>6. r.s.fd = s.fd
    BY <2>1, <2>4
  <2>7. s.fd /\ r.err = "OK"
    BY <2>1, <2>4
  <2>8. r.err # "OK" => r.s = s
    BY <2>1
  <2> QED BY <2>5, <2>6, <2>7, <2>8, Zenon
<1> QED BY <1>2, <1>7, <1>8

-----------------------------------------------------------------------------
(* The network *)

(* What the network does to a connection. *)
Delivered(s, t) ==
    /\ SockOK(t) /\ t.fd = s.fd
    /\ Silent(s) => Silent(t)
    /\ s.reqs = <<>> => t.reqs = <<>> /\ t.rx = s.rx
    /\ \A f \in File, p \in Nat : Waiting(s, f, p) => Waiting(t, f, p)

LEMMA TailOfOne ==
    ASSUME NEW S, NEW s \in Seq(S), Len(s) = 1
    PROVE  Tail(s) = <<>> /\ Head(s) = s[1]
<1>1. s # <<>>
  BY EmptySeq
<1>2. Head(s) = s[1] /\ Tail(s) \in Seq(S) /\ Len(Tail(s)) = Len(s) - 1
  BY <1>1, HeadTailProperties
<1>3. ASSUME Tail(s) # <<>> PROVE FALSE
  <2>1. Len(Tail(s)) \in Nat \ {0}
    BY <1>2, <1>3, EmptySeq
  <2> QED BY <1>2, <2>1
<1> QED BY <1>2, <1>3

(* The server answers a request, with data or a refusal. *)
LEMMA AnswerDelivered ==
    ASSUME SockType, sock.fd, sock.reqs # <<>>, NEW a \in Seq(Item), NEW open \in BOOLEAN, NEW reqs,
           \A f \in File, p \in Nat :
               Head(sock.reqs).file = f /\ Head(sock.reqs).from = p => Answering(a, f, p),
           reqs \in {<<>>, Tail(sock.reqs)},
           sock' = [sock EXCEPT !.rx = sock.rx \o a, !.reqs = reqs, !.open = open]
    PROVE  Delivered(sock, sock')
<1> DEFINE R == [file : File, from : Nat, to : Nat]
           rx == sock.rx \o a
<1>1. /\ sock \in [fd : BOOLEAN, reqs : Seq(R), rx : Seq(Item), open : BOOLEAN]
      /\ sock.reqs \in Seq(R) /\ sock.rx \in Seq(Item)
  BY DEF SockType, SockOK
<1>2. rx \in Seq(Item)
  BY <1>1, ConcatProperties
<1>3. <<>> \in Seq(R) /\ Tail(sock.reqs) \in Seq(R)
  BY <1>1
<1> HIDE DEF R
<1>4. ASSUME NEW f \in File, NEW p \in Nat, Waiting(sock, f, p)
      PROVE  Answering(rx, f, p) /\ reqs = <<>>
  <2>1. /\ NoEnd(sock.rx) /\ Len(sock.reqs) = 1
        /\ sock.reqs[1].file = f /\ sock.reqs[1].from = p
    BY <1>4 DEF Waiting
  <2>2. Tail(sock.reqs) = <<>> /\ Head(sock.reqs) = sock.reqs[1]
    BY <1>1, <2>1, TailOfOne
  <2>3. Answering(a, f, p)
    BY <2>1, <2>2
  <2> QED BY <1>1, <2>1, <2>2, <2>3, AnswerAfter
<1> HIDE DEF rx
<1>5. /\ sock' \in [fd : BOOLEAN, reqs : Seq(R), rx : Seq(Item), open : BOOLEAN]
      /\ sock'.fd = sock.fd /\ sock'.rx = rx /\ sock'.reqs = reqs
  BY <1>1, <1>2, <1>3 DEF rx
<1>6. SockOK(sock')
  BY <1>5 DEF SockOK, R
<1>7. ~ Silent(sock)
  BY DEF Silent
<1>8. ASSUME NEW f \in File, NEW p \in Nat, Waiting(sock, f, p) PROVE Waiting(sock', f, p)
  BY <1>4, <1>5, <1>8 DEF Waiting
<1> QED BY <1>5, <1>6, <1>7, <1>8 DEF Delivered

(* A request or the connection is lost. *)
LEMMA LossDelivered ==
    ASSUME SockType, sock.fd, NEW open \in BOOLEAN, NEW reqs,
           reqs = <<>> \/ (sock.reqs # <<>> /\ reqs = Tail(sock.reqs)),
           sock' = [sock EXCEPT !.reqs = reqs, !.open = open]
    PROVE  Delivered(sock, sock')
<1> DEFINE R == [file : File, from : Nat, to : Nat]
<1>1. /\ sock \in [fd : BOOLEAN, reqs : Seq(R), rx : Seq(Item), open : BOOLEAN]
      /\ sock.reqs \in Seq(R) /\ sock.rx \in Seq(Item)
  BY DEF SockType, SockOK
<1>2. reqs \in Seq(R)
  <2>1. <<>> \in Seq(R)
    BY EmptySeq
  <2>2. sock.reqs # <<>> => Tail(sock.reqs) \in Seq(R)
    BY <1>1, HeadTailProperties
  <2> QED BY <2>1, <2>2
<1>3. Len(sock.reqs) = 1 => reqs = <<>>
  BY <1>1, TailOfOne
<1> HIDE DEF R
<1>5. /\ sock' \in [fd : BOOLEAN, reqs : Seq(R), rx : Seq(Item), open : BOOLEAN]
      /\ sock'.fd = sock.fd /\ sock'.rx = sock.rx /\ sock'.reqs = reqs
  BY <1>1, <1>2
<1>6. SockOK(sock')
  BY <1>5 DEF SockOK, R
<1>7. sock.reqs = <<>> => reqs = <<>>
  OBVIOUS
<1>8. Silent(sock) => Silent(sock')
  BY <1>5, <1>7 DEF Silent
<1>9. ASSUME NEW f \in File, NEW p \in Nat, Waiting(sock, f, p) PROVE Waiting(sock', f, p)
  BY <1>3, <1>5, <1>7, <1>9 DEF Waiting
<1> QED BY <1>5, <1>6, <1>7, <1>8, <1>9 DEF Delivered

LEMMA NetworkDelivers ==
    ASSUME SockType, Network, FotaDiscipline
    PROVE  Delivered(sock, sock') /\ UNCHANGED <<cl, suspended, pc, at, evt, rc>>
<1> DEFINE R == [file : File, from : Nat, to : Nat]
<1>0. /\ sock.reqs \in Seq(R)
      /\ sock.rx \in Seq(Item)
      /\ sock \in [fd : BOOLEAN, reqs : Seq(R), rx : Seq(Item), open : BOOLEAN]
  BY DEF SockType, SockOK
<1>1. sock.reqs # <<>> => Head(sock.reqs) \in R
  BY <1>0, HeadTailProperties
<1>2. CASE ServerAnswers
  <2>1. PICK close \in BOOLEAN :
            sock' = [sock EXCEPT !.rx = sock.rx \o Answer(Head(sock.reqs), close),
                                 !.reqs = IF close THEN <<>> ELSE Tail(sock.reqs), !.open = ~ close]
    BY <1>2 DEF ServerAnswers, May
  <2>2. sock.fd /\ sock.reqs # <<>>
    BY <1>2 DEF ServerAnswers
  <2> DEFINE q == Head(sock.reqs)
             a == Answer(q, close)
             reqs == IF close THEN <<>> ELSE Tail(sock.reqs)
             open == ~ close
  <2>3. a \in Seq(Item) /\ Answering(a, q.file, q.from)
    BY <1>1, <2>2, AnswerMade DEF FotaDiscipline
  <2>4. open \in BOOLEAN /\ reqs \in {<<>>, Tail(sock.reqs)}
    OBVIOUS
  <2>5. sock' = [sock EXCEPT !.rx = sock.rx \o a, !.reqs = reqs, !.open = open]
    BY <2>1
  <2> HIDE DEF a, reqs, open
  <2>6. \A f \in File, p \in Nat : Head(sock.reqs).file = f /\ Head(sock.reqs).from = p => Answering(a, f, p)
    BY <2>3
  <2> HIDE DEF q
  <2>7. Delivered(sock, sock')
    BY <2>2, <2>3, <2>4, <2>5, <2>6, AnswerDelivered
  <2> QED BY <1>2, <2>7 DEF ServerAnswers
<1>3. CASE ServerRefuses
  <2>1. PICK bad \in {<<HdrStart, HdrEnd(FALSE, 0, FALSE)>>, [i \in 1 .. BUF_SIZE |-> HdrStart]} :
            sock' = [sock EXCEPT !.rx = sock.rx \o bad, !.reqs = Tail(sock.reqs)]
    BY <1>3 DEF ServerRefuses
  <2>2. sock.fd /\ sock.reqs # <<>> /\ sock.open
    BY <1>3 DEF ServerRefuses
  <2>3. bad \in Seq(Item) /\ \A i \in 1 .. Len(bad) : bad[i].k = "end" => ~ bad[i].ok
    <3>1. CASE bad = <<HdrStart, HdrEnd(FALSE, 0, FALSE)>>
      <4> DEFINE g == HdrEnd(FALSE, 0, FALSE)
      <4>1. HdrStart \in Item /\ HdrStart.k = "hdr" /\ g \in Item /\ g.ok = FALSE
        BY DEF HdrStart, HdrEnd, Item
      <4> HIDE DEF g
      <4>2. bad \in Seq(Item) /\ Len(bad) = 2 /\ bad[1] = HdrStart /\ bad[2] = g
        BY <3>1, <4>1, PairFacts DEF g
      <4>3. ASSUME NEW i \in 1 .. Len(bad), bad[i].k = "end" PROVE ~ bad[i].ok
        <5>1. i = 1 \/ i = 2
          BY <4>2
        <5> QED BY <4>1, <4>2, <4>3, <5>1
      <4> QED BY <4>2, <4>3
    <3>2. CASE bad = [i \in 1 .. BUF_SIZE |-> HdrStart]
      <4>1. HdrStart \in Item /\ HdrStart.k = "hdr" /\ BUF_SIZE \in Nat
        BY ClientAssumption DEF HdrStart, Item
      <4>2. bad \in [1 .. BUF_SIZE -> Item] /\ \A i \in 1 .. BUF_SIZE : bad[i] = HdrStart
        BY <3>2, <4>1
      <4>3. bad \in Seq(Item) /\ Len(bad) = BUF_SIZE
        BY <4>1, <4>2
      <4> QED BY <4>1, <4>2, <4>3
    <3> QED BY <2>1, <3>1, <3>2
  <2>4. \A f \in File, p \in Nat : Answering(bad, f, p)
    BY <2>3 DEF Answering
  <2>5. sock' = [sock EXCEPT !.rx = sock.rx \o bad, !.reqs = Tail(sock.reqs), !.open = sock.open]
    BY <1>0, <2>1
  <2>6. sock.open \in BOOLEAN
    BY <1>0
  <2>7. Delivered(sock, sock')
    BY <2>2, <2>3, <2>4, <2>5, <2>6, AnswerDelivered
  <2> QED BY <1>3, <2>7 DEF ServerRefuses
<1>4. CASE ServerFails
  <2>1. sock.fd /\ sock.open \in BOOLEAN
    BY <1>0, <1>4 DEF ServerFails
  <2>2. \/ sock.reqs # <<>> /\ sock' = [sock EXCEPT !.reqs = Tail(sock.reqs)]
        \/ sock' = [sock EXCEPT !.reqs = <<>>, !.open = FALSE]
    BY <1>4 DEF ServerFails
  <2>3. CASE sock.reqs # <<>> /\ sock' = [sock EXCEPT !.reqs = Tail(sock.reqs)]
    <3>1. sock' = [sock EXCEPT !.reqs = Tail(sock.reqs), !.open = sock.open]
      BY <1>0, <2>3
    <3>2. Delivered(sock, sock')
      BY <2>1, <2>3, <3>1, LossDelivered
    <3> QED BY <1>4, <3>2 DEF ServerFails
  <2>4. CASE sock' = [sock EXCEPT !.reqs = <<>>, !.open = FALSE]
    <3> DEFINE open == FALSE
               reqs == <<>>
    <3>0. open \in BOOLEAN /\ sock' = [sock EXCEPT !.reqs = reqs, !.open = open]
      BY <2>4
    <3>1. reqs = <<>> \/ (sock.reqs # <<>> /\ reqs = Tail(sock.reqs))
      OBVIOUS
    <3> HIDE DEF open, reqs
    <3>2. Delivered(sock, sock')
      BY <2>1, <3>0, <3>1, LossDelivered
    <3> QED BY <1>4, <3>2 DEF ServerFails
  <2> QED BY <2>2, <2>3, <2>4
<1> QED BY <1>2, <1>3, <1>4 DEF Network

-----------------------------------------------------------------------------
(* The steps of the thread *)

(* What a step of the thread or the network leaves to the targets. *)
Kept ==
    /\ cl'.file = cl.file
    /\ cl'.file_size \in {cl.file_size, Size[cl.file]}
    /\ status = "active" /\ ~ dlc_with_offset_work =>
          Offset' = Offset /\ (cl.progress = DIRTY_IMAGE => cl'.progress = DIRTY_IMAGE)
    /\ dlc_with_offset_work => sock'.fd

ClientKept == SockType' /\ ClientType' /\ ThreadType' /\ ThreadPhase' /\ Kept

LEMMA ClientFields ==
    ASSUME ClientType
    PROVE  /\ cl.file \in File
           /\ cl.frag \in 0 .. BUF_SIZE
           /\ cl.file_size \in Nat
           /\ cl.progress \in Nat
           /\ cl.buf \in Seq(Item) /\ Len(cl.buf) \in Nat /\ Len(cl.buf) <= BUF_SIZE
           /\ Size[cl.file] \in Nat \ {0} /\ DIRTY_IMAGE \in Nat /\ Size[cl.file] < DIRTY_IMAGE
           /\ FRAG_SIZE \in Nat \ {0} /\ BUF_SIZE \in Nat /\ FRAG_SIZE <= BUF_SIZE
<1>1. /\ cl.file \in File
      /\ cl.frag \in 0 .. BUF_SIZE
      /\ cl.file_size \in Nat
      /\ cl.progress \in Nat
      /\ cl.buf \in Seq(Item) /\ Len(cl.buf) <= BUF_SIZE
  BY DEF ClientType, ClientOK, ClientRecord
<1>2. Len(cl.buf) \in Nat
  BY <1>1, LenProperties
<1>3. /\ Size[cl.file] \in Nat \ {0} /\ DIRTY_IMAGE \in Nat /\ Size[cl.file] < DIRTY_IMAGE
      /\ FRAG_SIZE \in Nat \ {0} /\ BUF_SIZE \in Nat /\ FRAG_SIZE <= BUF_SIZE
  BY <1>1, DfuAssumption, ClientAssumption
<1> QED BY <1>1, <1>2, <1>3

(* A step that leaves the connection and the client as they are. *)
LEMMA StillKept ==
    ASSUME IInv, sock' = sock, cl' = cl, Pending' = Pending
    PROVE  SockType' /\ ClientType' /\ Kept
<1>1. SockType' /\ ClientType'
  BY DEF IInv, SockType, ClientType
<1>2. Offset' = Offset
  BY DEF Offset
<1>3. dlc_with_offset_work => sock'.fd
  BY DEF IInv, WorkWaits
<1> QED BY <1>1, <1>2, <1>3 DEF Kept

LEMMA SuspendKeeps ==
    ASSUME IInv, ThreadSuspend, UNCHANGED <<fotaVars, appVars>>
    PROVE  ClientKept
<1>1. /\ ~ suspended /\ pc = "suspend" /\ suspended' = TRUE /\ pc' = "recv" /\ at' = "none"
      /\ sock' = sock /\ cl' = cl /\ evt' = evt
      /\ status' = status /\ dlc_with_offset_work' = dlc_with_offset_work
  BY DEF ThreadSuspend, Running, Goto, fotaVars, appVars
<1>2. Suspending
  BY <1>1 DEF IInv, ThreadPhase
<1>3. ThreadType' /\ ThreadPhase'
  BY <1>1, <1>2 DEF ThreadType, ThreadPhase, Suspending, Quiet
<1>4. CASE status = "active" /\ ~ dlc_with_offset_work
  <2>1. Pending' = Pending
    BY <1>1, <1>2, <1>4 DEF Pending, Suspending
  <2> QED BY <1>1, <1>3, <2>1, StillKept DEF ClientKept
<1>5. CASE ~(status = "active" /\ ~ dlc_with_offset_work)
  <2>1. SockType' /\ ClientType' /\ (dlc_with_offset_work => sock'.fd)
    BY <1>1 DEF IInv, SockType, ClientType, WorkWaits
  <2> QED BY <1>1, <1>3, <1>5, <2>1 DEF ClientKept, Kept
<1> QED BY <1>4, <1>5

LEMMA NoRoomKeeps ==
    ASSUME IInv, RecvNoRoom, UNCHANGED <<fotaVars, appVars>>
    PROVE  ClientKept
<1>1. /\ ~ suspended /\ pc = "recv" /\ suspended' = suspended /\ pc' = "callback" /\ at' = "stop"
      /\ sock' = sock /\ cl' = cl /\ evt' = Error("E2BIG") /\ Len(cl.buf) = BUF_SIZE
      /\ status' = status /\ dlc_with_offset_work' = dlc_with_offset_work
  BY DEF RecvNoRoom, EvtSend, Running, Goto, fotaVars, appVars
<1>2. Receiving /\ ~ dlc_with_offset_work
  BY <1>1 DEF IInv, ThreadPhase
<1>3. ~ cl.has_header
  <2>1. cl.has_header => Len(cl.buf) < FRAG_SIZE
    BY <1>2 DEF Receiving
  <2> QED BY <1>1, <2>1, ClientFields DEF IInv
<1>4. Calling'
  BY <1>1, <1>2 DEF Calling, Receiving, Errors
<1>5. ThreadType' /\ ThreadPhase'
  BY <1>1, <1>2, <1>4 DEF ThreadType, ThreadPhase, IInv
<1>6. Pending' = Pending
  BY <1>1, <1>3 DEF Pending
<1> QED BY <1>1, <1>5, <1>6, StillKept DEF ClientKept

LEMMA FailedKeeps ==
    ASSUME IInv, NEW len \in Int, RecvFailed(len), len = -2 => Quiet, UNCHANGED <<fotaVars,
           appVars>>
    PROVE  ClientKept
<1>1. /\ ~ suspended /\ pc = "recv" /\ suspended' = suspended
      /\ sock' = sock /\ cl' = [cl EXCEPT !.len = len]
      /\ status' = status /\ dlc_with_offset_work' = dlc_with_offset_work
  BY DEF RecvFailed, Running, fotaVars, appVars
<1>2. Receiving /\ ~ dlc_with_offset_work
  BY <1>1 DEF IInv, ThreadPhase
<1>3. /\ cl'.file = cl.file /\ cl'.file_size = cl.file_size /\ cl'.progress = cl.progress
      /\ cl'.buf = cl.buf /\ cl'.has_header = cl.has_header
  BY <1>1 DEF IInv, ClientType, ClientOK, ClientRecord
<1>4. ClientType'
  <2>1. cl' \in ClientRecord
    BY <1>1 DEF IInv, ClientType, ClientOK, ClientRecord
  <2> QED BY <1>3, <2>1 DEF IInv, ClientType, ClientOK
<1>5. SockType'
  BY <1>1 DEF IInv, SockType
<1>6. CASE cl.buf # <<>> /\ cl.has_header
  <2>1. /\ evt' = Fragment(cl) /\ pc' = "callback" /\ at' \in FragmentPlaces
    BY <1>6 DEF RecvFailed, EvtSend, Goto, FragmentPlaces
  <2>2. evt' = Fragment(cl)'
    BY <1>3, <2>1 DEF Fragment
  <2>3. Buffered(cl) /\ sock.fd /\ Quiet /\ status = "active"
    <3>1. /\ Buffered(cl)
          /\ sock.fd
          /\ sock.reqs = <<>>
          /\ Data(sock.rx, cl.file, cl.progress)
          /\ status = "active"
      BY <1>2, <1>6 DEF Receiving
    <3> QED BY <3>1, DataNoEnd DEF Quiet, Silent
  <2>4. Calling'
    BY <1>1, <1>3, <1>6, <2>1, <2>2, <2>3 DEF Calling, Buffered, Quiet
  <2>5. ThreadType' /\ ThreadPhase'
    BY <1>1, <1>2, <2>1, <2>4 DEF ThreadType, ThreadPhase, IInv
  <2>6. Pending' = Pending
    BY <1>1, <1>3, <2>1 DEF Pending, Fragment
  <2>7. Offset' = Offset
    BY <1>3, <2>6 DEF Offset
  <2> QED BY <1>2, <1>3, <1>4, <1>5, <2>5, <2>7 DEF ClientKept, Kept
<1>7. CASE ~(cl.buf # <<>> /\ cl.has_header)
  <2>1. Pending = 0
    BY <1>1, <1>7, EmptySeq DEF Pending
  <2>2. CASE len = -2
    <3>1. pc' = "send_again" /\ evt' = evt /\ at' = at
      BY <1>7, <2>2 DEF RecvFailed, Goto
    <3>2. SendingAgain'
      BY <1>1, <1>2, <2>2 DEF SendingAgain, Receiving, Quiet
    <3>3. ThreadType' /\ ThreadPhase'
      BY <1>1, <1>2, <3>1, <3>2 DEF ThreadType, ThreadPhase, IInv
    <3>4. Offset' = Offset
      BY <1>3, <2>1, <3>1 DEF Offset, Pending
    <3> QED BY <1>2, <1>3, <1>4, <1>5, <3>3, <3>4 DEF ClientKept, Kept
  <2>3. CASE len # -2
    <3>1. pc' = "callback" /\ evt' = Error("ECONNRESET") /\ at' = "reset"
      BY <1>7, <2>3 DEF RecvFailed, Goto, EvtSend
    <3>2. Calling'
      BY <1>1, <1>2, <3>1 DEF Calling, Receiving, Errors
    <3>3. ThreadType' /\ ThreadPhase'
      BY <1>1, <1>2, <3>1, <3>2 DEF ThreadType, ThreadPhase, IInv
    <3>4. Offset' = Offset
      BY <1>3, <2>1, <3>1 DEF Offset, Pending, Error
    <3> QED BY <1>2, <1>3, <1>4, <1>5, <3>3, <3>4 DEF ClientKept, Kept
  <2> QED BY <2>2, <2>3
<1> QED BY <1>6, <1>7

LEMMA AfterFragmentKeeps ==
    ASSUME IInv, FotaDiscipline, AfterFragment, UNCHANGED <<fotaVars, appVars>>
    PROVE  ClientKept
<1>1. /\ ~ suspended /\ pc = "return" /\ suspended' = suspended /\ rc' = rc
      /\ at \in FragmentPlaces
      /\ status' = status /\ dlc_with_offset_work' = dlc_with_offset_work
      /\ first_fragment' = first_fragment
  BY DEF AfterFragment, Running, fotaVars, appVars, FragmentPlaces
<1>2. Returning /\ (dlc_with_offset_work => rc # "OK") /\ Pending = 0
  BY <1>1 DEF IInv, ThreadPhase, Pending
<1>3. CASE rc # "OK"
  <2>1. pc' = "suspend" /\ sock' = sock /\ cl' = cl /\ evt' = evt /\ at' = at
    BY <1>1, <1>3 DEF AfterFragment, Goto
  <2>2. Suspending
    BY <1>1, <1>2, <1>3 DEF Returning, FragmentPlaces
  <2>3. Suspending'
    BY <1>1, <2>1, <2>2 DEF Suspending, Quiet
  <2>4. ThreadType' /\ ThreadPhase'
    BY <1>1, <2>1, <2>3 DEF ThreadType, ThreadPhase, IInv
  <2>5. Pending' = Pending
    BY <1>2, <2>1 DEF Pending
  <2> QED BY <2>1, <2>4, <2>5, StillKept DEF ClientKept
<1>4. CASE rc = "OK"
  <2>1. /\ status = "active" /\ ~ first_fragment /\ ~ dlc_with_offset_work
        /\ cl.file_size = Size[cl.file] /\ sock.fd /\ Quiet
    BY <1>1, <1>2, <1>4 DEF Returning, FragmentPlaces
  <2>2. CASE at = "partial"
    <3>1. /\ pc' = "callback" /\ sock' = sock /\ cl' = cl
          /\ evt' = Error("ECONNRESET") /\ at' = "reset"
      BY <1>4, <2>2 DEF AfterFragment, EvtSend, Goto
    <3>2. Calling'
      BY <1>1, <2>1, <3>1 DEF Calling, Errors
    <3>3. ThreadType' /\ ThreadPhase'
      BY <1>1, <2>1, <3>1, <3>2 DEF ThreadType, ThreadPhase, IInv
    <3>4. Pending' = Pending
      BY <1>2, <3>1 DEF Pending, Error
    <3> QED BY <3>1, <3>3, <3>4, StillKept DEF ClientKept
  <2>3. CASE at = "partial_timeout"
    <3>1. /\ pc' = "send_again" /\ sock' = sock /\ cl' = cl /\ at' = at
      BY <1>4, <2>3 DEF AfterFragment, Goto
    <3>2. SendingAgain'
      BY <1>1, <2>1, <3>1 DEF SendingAgain, Quiet
    <3>3. ThreadType' /\ ThreadPhase'
      BY <1>1, <2>1, <3>1, <3>2 DEF ThreadType, ThreadPhase, IInv
    <3>4. Pending' = Pending
      BY <1>2, <3>1 DEF Pending
    <3> QED BY <3>1, <3>3, <3>4, StillKept DEF ClientKept
  <2>4. CASE at = "fragment" /\ cl.progress = cl.file_size
    <3>1. /\ pc' = "callback" /\ sock' = sock /\ cl' = cl
          /\ evt' = [id |-> "DONE"] /\ at' = "stop"
      BY <1>4, <2>4 DEF AfterFragment, EvtSend, Goto
    <3>2. Calling'
      BY <1>1, <2>1, <2>4, <3>1 DEF Calling, Quiet
    <3>3. ThreadType' /\ ThreadPhase'
      BY <1>1, <2>1, <3>1, <3>2 DEF ThreadType, ThreadPhase, IInv
    <3>4. Pending' = Pending
      BY <1>2, <3>1 DEF Pending
    <3> QED BY <3>1, <3>3, <3>4, StillKept DEF ClientKept
  <2>5. CASE at = "fragment" /\ cl.progress # cl.file_size
    <3>1. /\ pc' = "send_again" /\ cl' = [cl EXCEPT !.connection_close = FALSE] /\ at' = at
          /\ (sock' = sock \/ \E r \in Reconnected(sock) : sock' = r.s)
      BY <1>4, <2>5 DEF AfterFragment, Goto
    <3>2. sock' \in {sock, NoSock, NewSock}
      BY <3>1, ReconnectedFacts DEF IInv, SockType
    <3>3. SockType' /\ Quiet'
      BY <2>1, <3>2, NewSocks DEF IInv, SockType, Quiet
    <3>4. SendingAgain'
      BY <1>1, <2>1, <3>3 DEF SendingAgain
    <3>5. ThreadType' /\ ThreadPhase'
      BY <1>1, <2>1, <3>1, <3>4 DEF ThreadType, ThreadPhase, IInv
    <3>6. /\ cl'.file = cl.file /\ cl'.file_size = cl.file_size /\ cl'.progress = cl.progress
          /\ cl'.buf = cl.buf
      BY <3>1 DEF IInv, ClientType, ClientOK, ClientRecord
    <3>7. ClientType'
      <4>1. cl' \in ClientRecord
        BY <3>1 DEF IInv, ClientType, ClientOK, ClientRecord
      <4> QED BY <3>6, <4>1 DEF IInv, ClientType, ClientOK
    <3>8. Offset' = Offset
      BY <1>2, <3>1, <3>6 DEF Offset, Pending
    <3> QED BY <2>1, <3>3, <3>5, <3>6, <3>7, <3>8 DEF ClientKept, Kept
  <2> QED BY <1>1, <2>2, <2>3, <2>4, <2>5 DEF FragmentPlaces
<1> QED BY <1>3, <1>4

LEMMA AfterResetKeeps ==
    ASSUME IInv, FotaDiscipline, AfterReset, UNCHANGED <<fotaVars, appVars>>
    PROVE  ClientKept
<1>1. /\ ~ suspended /\ pc = "return" /\ suspended' = suspended /\ rc' = rc
      /\ at = "reset" /\ cl' = cl
      /\ status' = status /\ dlc_with_offset_work' = dlc_with_offset_work
  BY DEF AfterReset, Running, fotaVars, appVars
<1>2. Returning /\ ~ dlc_with_offset_work /\ Pending = 0
  BY <1>1 DEF IInv, ThreadPhase, Pending, FragmentPlaces
<1>3. CASE rc # "OK"
  <2>1. pc' = "suspend" /\ sock' = sock /\ evt' = evt /\ at' = at
    BY <1>1, <1>3 DEF AfterReset, Goto
  <2>2. Suspending
    BY <1>1, <1>2, <1>3 DEF Returning
  <2>3. Suspending'
    BY <1>1, <2>1, <2>2 DEF Suspending, Quiet
  <2>4. ThreadType' /\ ThreadPhase'
    BY <1>1, <1>2, <2>1, <2>3 DEF ThreadType, ThreadPhase, IInv
  <2>5. Pending' = Pending
    BY <1>2, <2>1 DEF Pending
  <2> QED BY <1>1, <2>1, <2>4, <2>5, StillKept DEF ClientKept
<1>4. CASE rc = "OK"
  <2>1. status = "active"
    BY <1>1, <1>2, <1>4 DEF Returning, FragmentPlaces
  <2>2. PICK r \in Reconnected(sock) :
            /\ sock' = r.s
            /\ IF r.err = "OK" THEN Goto("send_again") /\ UNCHANGED <<evt, at>>
               ELSE EvtSend(Error("EHOSTDOWN"), "stop")
    BY <1>4 DEF AfterReset
  <2>3. SockType' /\ Quiet'
    BY <2>2, ReconnectedFacts, NewSocks DEF IInv, SockType, Quiet
  <2>4. ClientType'
    BY <1>1 DEF IInv, ClientType
  <2>5. ThreadType' /\ ThreadPhase' /\ Pending' = 0
    <3>1. CASE r.err = "OK"
      <4>1. pc' = "send_again" /\ at' = at
        BY <2>2, <3>1 DEF Goto
      <4>2. SendingAgain'
        BY <1>1, <2>1, <2>3 DEF SendingAgain
      <4> QED BY <1>1, <1>2, <4>1, <4>2 DEF ThreadType, ThreadPhase, Pending, IInv
    <3>2. CASE r.err # "OK"
      <4>1. pc' = "callback" /\ at' = "stop" /\ evt' = Error("EHOSTDOWN")
        BY <2>2, <3>2 DEF EvtSend, Goto
      <4>2. Calling'
        BY <1>1, <2>1, <4>1 DEF Calling, Errors
      <4>3. Pending' = 0
        BY <4>1 DEF Pending, Error
      <4> QED BY <1>1, <1>2, <4>1, <4>2, <4>3 DEF ThreadType, ThreadPhase, IInv
    <3> QED BY <3>1, <3>2
  <2>6. Offset' = Offset
    BY <1>1, <1>2, <2>5 DEF Offset
  <2> QED BY <1>1, <1>2, <2>3, <2>4, <2>5, <2>6 DEF ClientKept, Kept
<1> QED BY <1>3, <1>4

LEMMA AfterStopKeeps ==
    ASSUME IInv, AfterStop, UNCHANGED <<fotaVars, appVars>>
    PROVE  ClientKept
<1>1. /\ ~ suspended /\ pc = "return" /\ suspended' = suspended /\ rc' = rc /\ pc' = "suspend"
      /\ at = "stop" /\ at' = at /\ cl' = cl /\ sock' = sock
      /\ status' = status /\ dlc_with_offset_work' = dlc_with_offset_work
  BY DEF AfterStop, Running, Goto, fotaVars, appVars
<1>2. Returning /\ Pending' = Pending
  BY <1>1 DEF IInv, ThreadPhase, Pending
<1>3. Suspending
  BY <1>1, <1>2 DEF Returning, FragmentPlaces
<1>4. Suspending'
  BY <1>1, <1>3 DEF Suspending, Quiet
<1>5. ThreadType' /\ ThreadPhase'
  BY <1>1, <1>4 DEF ThreadType, ThreadPhase, IInv
<1> QED BY <1>1, <1>2, <1>5, StillKept DEF ClientKept

LEMMA SendAgainKeeps ==
    ASSUME IInv, FotaDiscipline, SendAgain, UNCHANGED <<fotaVars, appVars>>
    PROVE  ClientKept
<1>1. /\ ~ suspended /\ pc = "send_again" /\ suspended' = suspended
      /\ status' = status /\ dlc_with_offset_work' = dlc_with_offset_work
  BY DEF SendAgain, Running, fotaVars, appVars
<1>2. status = "active" /\ Silent(sock) /\ ~ dlc_with_offset_work /\ Pending = 0
  BY <1>1 DEF IInv, ThreadPhase, SendingAgain, Quiet, Pending
<1> DEFINE c == [cl EXCEPT !.buf = <<>>, !.has_header = FALSE]
<1>3. Asks(cl) /\ PROTO = "TLS"
  BY DEF Asks, FotaDiscipline
<1>4. cl' = c /\ \E r \in RequestSent(sock, c) :
                     /\ sock' = r.s
                     /\ IF r.err = "OK" THEN Goto("recv") /\ UNCHANGED <<evt, at>>
                        ELSE EvtSend(Error("ECONNRESET"), "reset")
  BY <1>3 DEF SendAgain
<1>5. <<>> \in Seq(Item) /\ Len(<<>>) = 0 /\ BUF_SIZE \in Nat
  BY EmptySeq, ClientAssumption
<1>6. c \in ClientRecord
  BY <1>5 DEF IInv, ClientType, ClientOK, ClientRecord
<1>7. /\ c.file = cl.file /\ c.progress = cl.progress /\ c.buf = <<>> /\ ~ c.has_header
      /\ c.file_size = cl.file_size
  BY DEF IInv, ClientType, ClientOK, ClientRecord
<1> HIDE DEF c
<1>8. ClientOK(c)
  BY <1>5, <1>6, <1>7 DEF IInv, ClientType, ClientOK
<1>9. PICK r \in RequestSent(sock, c) :
          /\ sock' = r.s
          /\ IF r.err = "OK" THEN Goto("recv") /\ UNCHANGED <<evt, at>>
             ELSE EvtSend(Error("ECONNRESET"), "reset")
  BY <1>4
<1>10. /\ SockOK(r.s) /\ r.s.fd = sock.fd /\ Waiting(r.s, c.file, c.progress)
       /\ r.err = "OK" => sock.fd
  BY <1>2, <1>3, <1>8, RequestFacts DEF IInv, SockType
<1>11. SockType' /\ ClientType'
  BY <1>4, <1>8, <1>9, <1>10 DEF SockType, ClientType
<1>12. ThreadType' /\ ThreadPhase' /\ Pending' = 0
  <2>1. CASE r.err = "OK"
    <3>1. pc' = "recv" /\ at' = at
      BY <1>9, <2>1 DEF Goto
    <3>2. NoEnd(cl'.buf)
      BY <1>4, <1>5, <1>7 DEF NoEnd
    <3>3. Receiving'
      BY <1>1, <1>2, <1>4, <1>7, <1>9, <1>10, <2>1, <3>2 DEF Receiving
    <3> QED BY <1>1, <1>2, <1>4, <1>7, <3>1, <3>3 DEF ThreadType, ThreadPhase, Pending, IInv
  <2>2. CASE r.err # "OK"
    <3>1. pc' = "callback" /\ at' = "reset" /\ evt' = Error("ECONNRESET")
      BY <1>9, <2>2 DEF EvtSend, Goto
    <3>2. Calling'
      BY <1>1, <1>2, <3>1 DEF Calling, Errors
    <3>3. Pending' = 0
      BY <3>1 DEF Pending, Error
    <3> QED BY <1>1, <1>2, <3>1, <3>2, <3>3 DEF ThreadType, ThreadPhase, IInv
  <2> QED BY <2>1, <2>2
<1>13. Offset' = Offset
  BY <1>2, <1>4, <1>7, <1>12 DEF Offset
<1> QED BY <1>2, <1>4, <1>7, <1>11, <1>12, <1>13 DEF ClientKept, Kept

(* http_parse() after the header, with k more items of data in the buffer. *)
Parsed(q, b, k) ==
    [c  |-> [q EXCEPT !.buf = b, !.progress = q.progress + k],
     rc |-> IF Len(b) < FRAG_SIZE /\ q.progress + k # q.file_size THEN "more" ELSE "fragment"]

(* Where the thread goes on. *)
GoesOn(p) ==
    CASE p.rc = "more"     -> Goto("recv") /\ UNCHANGED <<evt, at>>
      [] p.rc = "stuck"    -> Goto("stuck") /\ UNCHANGED <<evt, at>>
      [] p.rc = "bad"      -> EvtSend(Error("EBADMSG"), "stop")
      [] p.rc = "fragment" -> EvtSend(Fragment(p.c), "fragment")

LEMMA ParsedFields ==
    ASSUME NEW q \in ClientRecord, NEW b \in Seq(Item), NEW k \in Nat
    PROVE  LET c == [Parsed(q, b, k).c EXCEPT !.len = 1]
           IN  /\ c \in ClientRecord
               /\ c.file = q.file /\ c.file_size = q.file_size /\ c.has_header = q.has_header
               /\ c.buf = b /\ c.progress = q.progress + k
               /\ Parsed(q, b, k).c.buf = b
<1> DEFINE d == [q EXCEPT !.buf = b, !.progress = q.progress + k]
           c == [d EXCEPT !.len = 1]
<1>1. q.progress + k \in Nat /\ 1 \in Int
  BY DEF ClientRecord
<1>2. /\ d \in ClientRecord
      /\ d.file = q.file /\ d.file_size = q.file_size /\ d.has_header = q.has_header
      /\ d.buf = b /\ d.progress = q.progress + k
  BY <1>1 DEF ClientRecord
<1>3. Parsed(q, b, k).c = d
  BY DEF Parsed
<1> HIDE DEF d
<1>4. /\ c \in ClientRecord
      /\ c.file = d.file /\ c.file_size = d.file_size /\ c.has_header = d.has_header
      /\ c.buf = d.buf /\ c.progress = d.progress
  BY <1>1, <1>2 DEF ClientRecord
<1> HIDE DEF c
<1>5. c = [Parsed(q, b, k).c EXCEPT !.len = 1]
  BY <1>3 DEF c
<1> QED BY <1>2, <1>3, <1>4, <1>5

(* The data of the answer, or the next part of it, has been received. *)
LEMMA BodyKeeps ==
    ASSUME IInv, Running("recv"), UNCHANGED <<fotaVars, appVars>>, UNCHANGED <<suspended, rc>>,
           NEW q \in ClientRecord, q.file = cl.file, q.file_size = Size[cl.file], q.has_header,
           q.progress = cl.progress,
           NEW b \in Seq(Item), Len(b) <= BUF_SIZE, NEW k \in Nat,
           Offset \in Nat, Offset < Size[cl.file], cl.progress + k = Offset + Len(b),
           Data(b, cl.file, Offset),
           sock'.fd, SockOK(sock'), sock'.reqs = <<>>, Data(sock'.rx, cl.file, cl.progress + k),
           cl' = [Parsed(q, b, k).c EXCEPT !.len = 1],
           GoesOn(Parsed(q, b, k))
    PROVE  ClientKept
<1>0. /\ cl.file \in File /\ cl.progress \in Nat /\ Len(b) \in Nat /\ Size[cl.file] \in Nat
      /\ DIRTY_IMAGE \in Nat /\ Size[cl.file] < DIRTY_IMAGE /\ FRAG_SIZE \in Nat \ {0}
  BY ClientFields, LenProperties DEF IInv
<1>1. /\ ~ suspended /\ pc = "recv" /\ suspended' = suspended
      /\ status' = status /\ dlc_with_offset_work' = dlc_with_offset_work
  BY DEF Running, fotaVars, appVars
<1>2. status = "active" /\ ~ dlc_with_offset_work
  BY <1>1 DEF IInv, ThreadPhase, Receiving
<1>3. /\ cl' \in ClientRecord
      /\ cl'.file = cl.file /\ cl'.file_size = Size[cl.file] /\ cl'.has_header
      /\ cl'.buf = b /\ cl'.progress = cl.progress + k /\ Parsed(q, b, k).c.buf = b
  BY ParsedFields
<1>4. Offset + Len(b) <= Size[cl.file]
  BY DEF Data
<1>5. /\ cl'.progress <= Size[cl'.file]
      /\ Len(cl'.buf) <= cl'.progress
      /\ cl'.progress - Len(cl'.buf) = Offset
  <2>1. Offset + Len(b) <= Size[cl.file] => Len(b) <= Offset + Len(b) /\ Offset + Len(b) - Len(b) = Offset
    BY <1>0
  <2> QED BY <1>3, <1>4, <2>1
<1>6. ClientType'
  BY <1>3, <1>5 DEF ClientType, ClientOK
<1>7. Buffered(cl)'
  BY <1>3, <1>5 DEF Buffered
<1>8. NoEnd(sock'.rx)
  BY DataNoEnd
<1>9. Quiet'
  BY <1>8 DEF Quiet, Silent
<1>10. CASE Parsed(q, b, k).rc = "more"
  <2>1. pc' = "recv" /\ evt' = evt /\ at' = at
    BY <1>10 DEF GoesOn, Goto
  <2>2. Len(b) < FRAG_SIZE /\ cl.progress + k # Size[cl.file]
    BY <1>10 DEF Parsed
  <2>3. cl'.progress < Size[cl'.file]
    <3>1. cl.progress + k < Size[cl.file]
      BY <1>0, <1>4, <2>2
    <3> QED BY <1>3, <3>1
  <2>4. Receiving'
    BY <1>1, <1>2, <1>3, <1>7, <2>2, <2>3 DEF Receiving
  <2>5. ThreadType' /\ ThreadPhase'
    BY <1>1, <1>2, <2>1, <2>4 DEF IInv, ThreadType, ThreadPhase
  <2>6. Pending' = Len(cl'.buf)
    BY <1>3, <2>1 DEF Pending
  <2>7. Offset' = Offset
    BY <1>5, <2>6 DEF Offset
  <2>8. cl.progress # DIRTY_IMAGE
    BY <1>0, <1>4
  <2> QED BY <1>2, <1>3, <1>6, <2>5, <2>7, <2>8 DEF ClientKept, Kept, SockType
<1>11. CASE Parsed(q, b, k).rc = "fragment"
  <2>1. pc' = "callback" /\ evt' = Fragment(Parsed(q, b, k).c) /\ at' = "fragment"
    BY <1>11 DEF GoesOn, EvtSend, Goto
  <2>2. evt' = Fragment(cl')
    BY <1>3, <2>1 DEF Fragment
  <2>3. Len(b) >= FRAG_SIZE \/ cl.progress + k = Size[cl.file]
    <3>1. ~(Len(b) < FRAG_SIZE /\ cl.progress + k # Size[cl.file])
      BY <1>11 DEF Parsed
    <3> QED BY <1>0, <3>1
  <2>4. Len(b) # 0
    BY <1>0, <2>3
  <2>5. cl'.buf # <<>>
    BY <1>3, <2>4
  <2>6. Calling'
    BY <1>1, <1>2, <1>7, <1>9, <2>1, <2>2, <2>5 DEF Calling, FragmentPlaces
  <2>7. ThreadType' /\ ThreadPhase'
    BY <1>1, <1>2, <2>1, <2>6 DEF IInv, ThreadType, ThreadPhase, FragmentPlaces
  <2>8. Pending' = Len(cl'.buf)
    BY <1>3, <2>1 DEF Pending, Fragment
  <2>9. Offset' = Offset
    BY <1>5, <2>8 DEF Offset
  <2>10. cl.progress # DIRTY_IMAGE
    BY <1>0, <1>4
  <2> QED BY <1>2, <1>3, <1>6, <2>7, <2>9, <2>10 DEF ClientKept, Kept, SockType
<1> QED BY <1>10, <1>11 DEF Parsed

LEMMA ReceivedAt ==
    ASSUME NEW all, NEW b, NEW r, NEW n \in Nat, NEW j \in 1 .. n, Len(b) \in Nat,
           Received(all, b, r, n)
    PROVE  all[Len(b) + j] = r[j]
<1>1. Len(b) + j \in 1 .. Len(b) + n /\ ~(Len(b) + j <= Len(b)) /\ Len(b) + j - Len(b) = j
  OBVIOUS
<1>2. all[Len(b) + j] = IF Len(b) + j <= Len(b) THEN b[Len(b) + j] ELSE r[Len(b) + j - Len(b)]
  BY <1>1 DEF Received
<1> QED BY <1>1, <1>2

LEMMA EndFields ==
    ASSUME NEW x \in Item, x.k = "end"
    PROVE  x.ok \in BOOLEAN /\ x.size \in Nat /\ x.close \in BOOLEAN
<1>1. CASE x \in [k : {"hdr"}]
  BY <1>1
<1>2. CASE x \in [k : {"end"}, ok : BOOLEAN, size : Nat, close : BOOLEAN]
  BY <1>2
<1>3. CASE x \in [k : {"data"}, unit : Unit]
  BY <1>3
<1> QED BY <1>1, <1>2, <1>3 DEF Item

(* What http_parse() makes of the n items that were received. *)
LEMMA ParseCases ==
    ASSUME NEW c \in ClientRecord, NEW all \in Seq(Item), NEW items \in Seq(Item),
           all = c.buf \o items, NEW p \in http_parse(c, items)
    PROVE  LET h == FirstEnd(all)
               q == HeaderParsed(c, all[h])
               b == SubSeq(all, h + 1, Len(all))
           IN  /\ c.has_header => p = Parsed(c, all, Counted(Len(all), Len(items)))
               /\ ~ c.has_header /\ HdrEnds(all) = {} =>
                     p.c = [c EXCEPT !.buf = all] /\ p.rc \in {"more", "bad", "stuck"}
               /\ ~ c.has_header /\ HdrEnds(all) # {} /\ ~ all[h].ok =>
                     p.c = [c EXCEPT !.buf = all] /\ p.rc = "bad"
               /\ ~ c.has_header /\ HdrEnds(all) # {} /\ all[h].ok /\ q \in ClientRecord =>
                     p = Parsed(q, b, Counted(Len(b), Len(items)))
<1> DEFINE h == FirstEnd(all)
           q == HeaderParsed(c, all[h])
           b == SubSeq(all, h + 1, Len(all))
           body(x, y) ==
             LET offset == Len(y)
                 new    == [x EXCEPT !.buf = y, !.progress = x.progress + Counted(offset, Len(items))]
             IN  [c |-> new,
                  rc |-> IF offset < FRAG_SIZE /\ new.progress # new.file_size
                         THEN "more" ELSE "fragment"]
<1>1. ASSUME NEW x \in ClientRecord, NEW y
      PROVE  body(x, y) = Parsed(x, y, Counted(Len(y), Len(items)))
  <2> DEFINE k == Counted(Len(y), Len(items))
             new == [x EXCEPT !.buf = y, !.progress = x.progress + k]
  <2>1. new.progress = x.progress + k /\ new.file_size = x.file_size
    BY DEF ClientRecord
  <2> HIDE DEF k
  <2> QED BY <2>1 DEF Parsed, k
<1> DEFINE ends(r) == [c |-> [c EXCEPT !.buf = all], rc |-> r]
<1>2. p \in IF c.has_header THEN {body(c, all)}
            ELSE IF HdrEnds(all) = {}
            THEN {ends("more")} \cup May("stale", {ends("bad"), ends("stuck")})
            ELSE IF ~ all[h].ok THEN {ends("bad")}
            ELSE {body(q, b)}
  BY DEF http_parse
<1>2a. \A r : ends(r).c = [c EXCEPT !.buf = all] /\ ends(r).rc = r
  OBVIOUS
<1> HIDE DEF h, q, b, body, ends
<1>3. c.has_header => p = Parsed(c, all, Counted(Len(all), Len(items)))
  BY <1>1, <1>2
<1>4. /\ ~ c.has_header /\ HdrEnds(all) = {} =>
            p.c = [c EXCEPT !.buf = all] /\ p.rc \in {"more", "bad", "stuck"}
      /\ ~ c.has_header /\ HdrEnds(all) # {} /\ ~ all[h].ok =>
            p.c = [c EXCEPT !.buf = all] /\ p.rc = "bad"
  <2>1. ~ c.has_header /\ HdrEnds(all) = {} => p \in {ends("more"), ends("bad"), ends("stuck")}
    BY <1>2 DEF May
  <2>2. ~ c.has_header /\ HdrEnds(all) # {} /\ ~ all[h].ok => p = ends("bad")
    BY <1>2
  <2> QED BY <1>2a, <2>1, <2>2
<1>5. ~ c.has_header /\ HdrEnds(all) # {} /\ all[h].ok /\ q \in ClientRecord =>
          p = Parsed(q, b, Counted(Len(b), Len(items)))
  BY <1>1, <1>2
<1> QED BY <1>3, <1>4, <1>5 DEF h, q, b

(* A step of RecvData: n items are taken off the connection. *)
LEMMA DataKeeps ==
    ASSUME IInv, FotaDiscipline, RecvData, UNCHANGED <<fotaVars, appVars>>
    PROVE  ClientKept
<1>1. /\ Running("recv") /\ UNCHANGED <<suspended, rc>> /\ sock.fd
      /\ ~ suspended /\ pc = "recv" /\ suspended' = suspended
      /\ status' = status /\ dlc_with_offset_work' = dlc_with_offset_work
  BY DEF RecvData, Running, fotaVars, appVars
<1>2. Receiving /\ ~ dlc_with_offset_work
  BY <1>1 DEF IInv, ThreadPhase
<1>3. PICK n \in 1 .. Len(sock.rx) :
          /\ Len(cl.buf) + n <= BUF_SIZE
          /\ \E p \in http_parse(cl, SubSeq(sock.rx, 1, n)) :
                 /\ cl' = [p.c EXCEPT !.len = 1]
                 /\ sock' = [sock EXCEPT !.rx = SubSeq(sock.rx, n + 1, Len(sock.rx))]
                 /\ GoesOn(p)
  BY DEF RecvData, GoesOn
<1>3a. PICK p \in http_parse(cl, SubSeq(sock.rx, 1, n)) :
          /\ cl' = [p.c EXCEPT !.len = 1]
          /\ sock' = [sock EXCEPT !.rx = SubSeq(sock.rx, n + 1, Len(sock.rx))]
          /\ GoesOn(p)
  BY <1>3
<1> DEFINE rx == sock.rx
           items == SubSeq(rx, 1, n)
           rest == SubSeq(rx, n + 1, Len(rx))
           all == cl.buf \o items
           f == cl.file
           R == [file : File, from : Nat, to : Nat]
<1>4. /\ sock \in [fd : BOOLEAN, reqs : Seq(R), rx : Seq(Item), open : BOOLEAN]
      /\ rx \in Seq(Item) /\ Len(rx) \in Nat
  BY LenProperties DEF IInv, SockType, SockOK
<1>5. /\ cl \in ClientRecord
      /\ f \in File
      /\ cl.progress \in Nat
      /\ cl.buf \in Seq(Item)
      /\ Len(cl.buf) \in Nat
      /\ Size[f] \in Nat \ {0} /\ BUF_SIZE \in Nat /\ FRAG_SIZE \in Nat \ {0}
      /\ DIRTY_IMAGE \in Nat /\ Size[f] < DIRTY_IMAGE
  BY ClientFields DEF IInv, ClientType, ClientOK
<1>6. items \in Seq(Item) /\ Len(items) = n
  <2>1. items \in Seq(Item) /\ Len(items) = n - 1 + 1
    BY <1>4, SubSeqFacts
  <2> QED BY <2>1
<1>7. rest \in Seq(Item)
  <2> HIDE DEF rx
  <2>1. /\ n + 1 \in Nat /\ 1 <= n + 1 /\ n + 1 <= Len(rx) + 1 /\ Len(rx) <= Len(rx)
        /\ rx \in Seq(Item) /\ Len(rx) \in Nat
    BY <1>4 DEF rx
  <2> QED BY <2>1, SubSeqFacts
<1>8. Received(all, cl.buf, rx, n)
  <2> HIDE DEF rx
  <2>1. n \in 0 .. Len(rx) /\ rx \in Seq(Item)
    BY <1>4 DEF rx
  <2> QED BY <1>5, <2>1, ReceivedFacts
<1>9. all \in Seq(Item) /\ Len(all) = Len(cl.buf) + n /\ Len(all) <= BUF_SIZE /\ Len(all) \in Nat
  BY <1>3, <1>5, <1>8 DEF Received
<1>10. /\ cl' = [p.c EXCEPT !.len = 1]
       /\ GoesOn(p)
  BY <1>3a
<1>11. /\ sock' \in [fd : BOOLEAN, reqs : Seq(R), rx : Seq(Item), open : BOOLEAN]
       /\ sock'.fd = sock.fd /\ sock'.rx = rest /\ sock'.reqs = sock.reqs
  BY <1>3a, <1>4, <1>7
<1>12. SockOK(sock') /\ sock'.fd
  BY <1>1, <1>11 DEF SockOK
<1>13. p \in http_parse(cl, items) /\ all = cl.buf \o items
  OBVIOUS
<1>14. /\ n \in 0 .. Len(rx) /\ n + 1 \in Nat /\ 1 <= n + 1 /\ n + 1 <= Len(rx) + 1
       /\ n \in Nat /\ n >= 1 /\ n <= Len(rx) /\ n \in 1 .. Len(rx)
  BY <1>4
<1>17. ASSUME NEW g \in File, NEW o \in Nat, Data(rx, g, o)
       PROVE  Data(items, g, o) /\ Data(rest, g, o + n)
  BY <1>4, <1>14, <1>17, DataSplit
<1>18. ASSUME NEW g \in File, NEW o \in Nat, Answering(rx, g, o), \A j \in 1 .. n : rx[j].k # "end"
       PROVE  Answering(rest, g, o)
  BY <1>4, <1>14, <1>18, AnswerSkip
<1>19. ASSUME NoEnd(rx) PROVE NoEnd(rest)
  BY <1>4, <1>14, <1>19, NoEndSplit
<1>20. ASSUME NEW g \in File, NEW o \in Nat, NoEnd(cl.buf), Answering(rx, g, o),
              HdrEnds(all) # {}, all[FirstEnd(all)].ok
       PROVE  /\ FirstEnd(all) \in Len(cl.buf) + 1 .. Len(all)
              /\ all[FirstEnd(all)].size = Size[g] /\ o < Size[g]
              /\ Data(SubSeq(all, FirstEnd(all) + 1, Len(all)), g, o)
              /\ Data(rest, g, o + (Len(all) - FirstEnd(all)))
  <2> HIDE DEF all, rx
  <2> QED BY <1>4, <1>5, <1>8, <1>14, <1>20, AnswerParse
<1>21. ASSUME NEW j \in 1 .. n PROVE all[Len(cl.buf) + j] = rx[j]
  <2>1. n \in Nat /\ Len(cl.buf) \in Nat
    BY <1>5, <1>14
  <2> HIDE DEF all, rx
  <2> QED BY <1>8, <2>1, ReceivedAt
<1> HIDE DEF rx, items, rest, all, f, R
<1>15. CASE cl.has_header
  <2>1. /\ Buffered(cl) /\ cl.progress < Size[f] /\ sock.reqs = <<>> /\ Data(rx, f, cl.progress)
        /\ cl.file_size = Size[f] /\ Len(cl.buf) <= cl.progress
        /\ Data(cl.buf, f, cl.progress - Len(cl.buf))
    BY <1>2, <1>15 DEF Receiving, Buffered, f, rx
  <2>2. Data(items, f, cl.progress) /\ Data(rest, f, cl.progress + n)
    BY <1>5, <1>17, <2>1
  <2>3. Offset = cl.progress - Len(cl.buf) /\ Offset \in Nat /\ Offset + Len(cl.buf) = cl.progress
    <3>1. Pending = Len(cl.buf)
      BY <1>1, <1>15 DEF Pending
    <3> QED BY <1>5, <2>1, <3>1 DEF Offset
  <2>4. Data(all, f, Offset)
    <3>1. Data(cl.buf, f, Offset) /\ Data(items, f, Offset + Len(cl.buf))
      BY <2>1, <2>2, <2>3
    <3> QED BY <1>5, <1>6, <1>13, <2>3, <3>1, DataJoin
  <2>5. Counted(Len(all), Len(items)) = n
    BY <1>5, <1>6, <1>9 DEF Counted
  <2>6. p = Parsed(cl, all, n)
    <3>1. p = Parsed(cl, all, Counted(Len(all), Len(items)))
      BY <1>5, <1>6, <1>9, <1>13, <1>15, ParseCases
    <3> QED BY <2>5, <3>1
  <2>7. Offset < Size[f] /\ cl.progress + n = Offset + Len(all) /\ n \in Nat
    BY <1>5, <1>9, <2>1, <2>3
  <2>8. /\ sock'.reqs = <<>> /\ Data(sock'.rx, f, cl.progress + n)
        /\ cl' = [Parsed(cl, all, n).c EXCEPT !.len = 1]
    BY <1>10, <1>11, <2>1, <2>2, <2>6
  <2>9. GoesOn(Parsed(cl, all, n))
    BY <1>10, <2>6
  <2> QED BY <1>1, <1>5, <1>9, <1>12, <1>15, <2>1, <2>3, <2>4, <2>7, <2>8, <2>9, BodyKeeps DEF f
<1>16. CASE ~ cl.has_header
  <2>1. /\ NoEnd(cl.buf)
        /\ Waiting(sock, f, cl.progress)
        /\ status = "active"
        /\ Answering(rx, f, cl.progress)
    BY <1>2, <1>16 DEF Receiving, f, Waiting, rx
  <2>2. Pending = 0 /\ Offset = cl.progress
    BY <1>5, <1>16 DEF Pending, Offset
  <2> DEFINE h == FirstEnd(all)
             c == [cl EXCEPT !.buf = all]
             g == [c EXCEPT !.len = 1]
  <2>3. /\ c \in ClientRecord /\ c.file = f /\ c.progress = cl.progress /\ c.buf = all
        /\ c.file_size = cl.file_size /\ c.has_header = cl.has_header
    BY <1>5, <1>9 DEF ClientRecord, f
  <2>4. /\ g \in ClientRecord /\ g.file = f /\ g.progress = cl.progress /\ g.buf = all
        /\ g.file_size = cl.file_size /\ g.has_header = cl.has_header
    <3> HIDE DEF c
    <3> QED BY <2>3 DEF ClientRecord
  <2>5. ClientOK(g)
    <3> HIDE DEF g
    <3> QED BY <1>9, <2>4 DEF IInv, ClientType, ClientOK, f
  <2>5a. /\ HdrEnds(all) = {} => p.c = c /\ p.rc \in {"more", "bad", "stuck"}
         /\ HdrEnds(all) # {} /\ ~ all[h].ok => p.c = c /\ p.rc = "bad"
    BY <1>5, <1>6, <1>9, <1>13, <1>16, ParseCases
  <2>6. CASE HdrEnds(all) = {} /\ p.c = c /\ p.rc = "more"
    <3>2. cl' = g /\ pc' = "recv" /\ evt' = evt /\ at' = at
      <4> HIDE DEF c
      <4> QED BY <1>10, <2>6 DEF GoesOn, Goto
    <3> HIDE DEF c, g
    <3>3. NoEnd(all)
      BY <1>9, <2>6, NoHdrEnds
    <3>4. \A j \in 1 .. n : rx[j].k # "end"
      <4>1. ASSUME NEW j \in 1 .. n PROVE rx[j].k # "end"
        <5>1. Len(cl.buf) + j \in 1 .. Len(all)
          BY <1>5, <1>9, <1>14
        <5>2. all[Len(cl.buf) + j] = rx[j]
          BY <1>21
        <5>3. all[Len(cl.buf) + j].k # "end"
          BY <3>3, <5>1 DEF NoEnd
        <5> QED BY <5>2, <5>3
      <4> QED BY <4>1
    <3>5. Answering(rest, f, cl.progress)
      BY <1>5, <1>18, <2>1, <3>4
    <3>6. NoEnd(rx) => NoEnd(rest)
      BY <1>19
    <3>7. Waiting(sock', f, cl.progress)
      BY <1>11, <2>1, <3>5, <3>6 DEF Waiting, rx
    <3>8. Receiving'
      BY <1>1, <1>12, <1>16, <2>1, <2>4, <3>2, <3>3, <3>7 DEF Receiving
    <3>9. ThreadType' /\ ThreadPhase'
      BY <1>1, <1>2, <3>2, <3>8 DEF IInv, ThreadType, ThreadPhase
    <3>10. Offset' = Offset
      BY <1>5, <1>16, <2>2, <2>4, <3>2 DEF Offset, Pending
    <3> QED BY <1>2, <1>12, <2>4, <2>5, <3>2, <3>9, <3>10 DEF ClientKept, Kept, SockType,
               ClientType, f
  <2>6a. CASE p.c = c /\ p.rc = "stuck"
    <3>2. cl' = g /\ pc' = "stuck" /\ evt' = evt /\ at' = at
      <4> HIDE DEF c
      <4> QED BY <1>10, <2>6a DEF GoesOn, Goto
    <3> HIDE DEF c, g
    <3>4. ThreadType' /\ ThreadPhase'
      BY <1>1, <1>2, <2>1, <3>2 DEF IInv, ThreadType, ThreadPhase
    <3>5. Offset' = Offset
      BY <1>5, <1>16, <2>2, <2>4, <3>2 DEF Offset, Pending
    <3> QED BY <1>2, <1>12, <2>4, <2>5, <3>2, <3>4, <3>5 DEF ClientKept, Kept, SockType,
               ClientType, f
  <2>7. CASE p.c = c /\ p.rc = "bad"
    <3>2. cl' = g /\ pc' = "callback" /\ evt' = Error("EBADMSG") /\ at' = "stop"
      <4> HIDE DEF c
      <4> QED BY <1>10, <2>7 DEF GoesOn, Goto, EvtSend
    <3> HIDE DEF c, g
    <3>3. Calling'
      BY <1>1, <2>1, <3>2 DEF Calling, Errors
    <3>4. ThreadType' /\ ThreadPhase'
      BY <1>1, <1>2, <3>2, <3>3 DEF IInv, ThreadType, ThreadPhase
    <3>5. Offset' = Offset
      BY <1>5, <1>16, <2>2, <2>4, <3>2 DEF Offset, Pending, Error
    <3> QED BY <1>2, <1>12, <2>4, <2>5, <3>2, <3>4, <3>5 DEF ClientKept, Kept, SockType,
               ClientType, f
  <2>8. CASE HdrEnds(all) # {} /\ all[h].ok
    <3> DEFINE x == all[h]
               q == HeaderParsed(cl, x)
               b == SubSeq(all, h + 1, Len(all))
    <3>1. /\ h \in Len(cl.buf) + 1 .. Len(all) /\ x.size = Size[f] /\ cl.progress < Size[f]
          /\ Data(b, f, cl.progress) /\ Data(rest, f, cl.progress + (Len(all) - h))
      BY <1>5, <1>20, <2>1, <2>8
    <3>2. h \in 1 .. Len(all) /\ x.k = "end"
      BY <1>9, <2>8, FirstEndFacts
    <3>3. x \in Item
      BY <1>9, <3>2, ElementOfSeq
    <3>4. b \in Seq(Item) /\ Len(b) = Len(all) - h
      <4>1. h + 1 \in Nat /\ 1 <= h + 1 /\ h + 1 <= Len(all) + 1 /\ h \in Nat
        BY <1>9, <3>2
      <4>2. b \in Seq(Item) /\ Len(b) = Len(all) - (h + 1) + 1
        BY <1>9, <4>1, SubSeqFacts
      <4> HIDE DEF h, b
      <4> QED BY <1>9, <4>1, <4>2
    <3>5. sock.reqs = <<>>
      <4>1. SUFFICES ASSUME sock.reqs # <<>> PROVE FALSE
        OBVIOUS
      <4>2. NoEnd(rx)
        BY <2>1, <4>1 DEF Waiting, rx
      <4>3. PICK j \in 1 .. n : h = Len(cl.buf) + j
        <5>0. h \in Len(cl.buf) + 1 .. Len(cl.buf) + n
          BY <1>9, <3>1
        <5> HIDE DEF h
        <5>1. h - Len(cl.buf) \in 1 .. n /\ h = Len(cl.buf) + (h - Len(cl.buf))
          BY <1>5, <1>14, <5>0
        <5> QED BY <5>1
      <4>4. x = rx[j] /\ j \in 1 .. Len(rx)
        BY <1>4, <1>14, <1>21, <4>3
      <4> QED BY <3>2, <4>2, <4>4 DEF NoEnd
    <3>6. cl.file_size \in {0, Size[f]}
      BY <2>1 DEF IInv, Counting, f
    <3>7. /\ q \in ClientRecord /\ q.file = f /\ q.file_size = Size[f] /\ q.has_header
          /\ q.progress = cl.progress
      <4>1. x.size \in Nat /\ x.close \in BOOLEAN
        BY <3>2, <3>3, EndFields
      <4> HIDE DEF x
      <4> QED BY <1>5, <3>1, <3>6, <4>1 DEF HeaderParsed, ClientRecord, f
    <3>8. p = Parsed(q, b, Counted(Len(b), Len(items)))
      <4>1. ~ cl.has_header /\ HdrEnds(all) # {} /\ all[h].ok /\ q \in ClientRecord =>
                p = Parsed(q, b, Counted(Len(b), Len(items)))
        BY <1>5, <1>6, <1>9, <1>13, ParseCases
      <4> QED BY <1>16, <2>8, <3>7, <4>1
    <3> HIDE DEF x, q, b, h, c, g
    <3>9. Counted(Len(b), Len(items)) = Len(b) /\ Len(b) \in Nat /\ Len(b) <= BUF_SIZE
      BY <1>5, <1>6, <1>9, <3>1, <3>4 DEF Counted
    <3>10. p = Parsed(q, b, Len(b))
      BY <3>8, <3>9
    <3>11. /\ sock'.reqs = <<>> /\ Data(sock'.rx, f, cl.progress + Len(b))
           /\ cl' = [Parsed(q, b, Len(b)).c EXCEPT !.len = 1]
      BY <1>10, <1>11, <3>1, <3>4, <3>5, <3>10
    <3>12. GoesOn(Parsed(q, b, Len(b)))
      BY <1>10, <3>10
    <3> QED BY <1>1, <1>5, <1>12, <2>2, <3>1, <3>4, <3>7, <3>9, <3>11, <3>12, BodyKeeps DEF f
  <2> QED BY <2>5a, <2>6, <2>6a, <2>7, <2>8
<1> QED BY <1>5, <1>15, <1>16 DEF ClientRecord

LEMMA ThreadKeeps ==
    ASSUME IInv, FotaDiscipline, Thread, UNCHANGED <<fotaVars, appVars>>
    PROVE  ClientKept /\ pc # "stuck"
<1>0. pc # "stuck"
  BY DEF Thread, ThreadSuspend, RecvNoRoom, RecvData, RecvClosed, RecvError, RecvTimeout,
         RecvFailed, AfterFragment, AfterReset, AfterStop, SendAgain, Running
<1>1. CASE RecvClosed
  <2>1. RecvFailed(0) /\ 0 \in Int /\ 0 # -2
    BY <1>1 DEF RecvClosed
  <2> QED BY <1>0, <2>1, FailedKeeps
<1>2. CASE RecvError
  <2>1. RecvFailed(-1) /\ -1 \in Int /\ -1 # -2
    BY <1>2 DEF RecvError
  <2> QED BY <1>0, <2>1, FailedKeeps
<1>3. CASE RecvTimeout
  <2>1. RecvFailed(-2) /\ -2 \in Int /\ sock.rx = <<>> /\ sock.reqs = <<>>
    BY <1>3 DEF RecvTimeout, FotaDiscipline
  <2>2. Quiet
    BY <2>1, NewSocks DEF Quiet, Silent, NoSock
  <2> QED BY <1>0, <2>1, <2>2, FailedKeeps
<1> QED
  BY <1>0, <1>1, <1>2, <1>3, SuspendKeeps, NoRoomKeeps, DataKeeps, AfterFragmentKeeps,
     AfterResetKeeps, AfterStopKeeps, SendAgainKeeps DEF Thread

LEMMA NetworkKeeps ==
    ASSUME IInv, FotaDiscipline, Network, UNCHANGED <<fotaVars, appVars>>
    PROVE  ClientKept /\ pc' = pc
<1>1. /\ Delivered(sock, sock') /\ cl' = cl /\ suspended' = suspended /\ pc' = pc
      /\ at' = at /\ evt' = evt /\ rc' = rc
      /\ status' = status /\ dlc_with_offset_work' = dlc_with_offset_work
      /\ first_fragment' = first_fragment
  BY NetworkDelivers DEF IInv, fotaVars, appVars
<1>2. /\ SockOK(sock') /\ sock'.fd = sock.fd /\ (Quiet => Quiet')
      /\ sock.reqs = <<>> => sock'.reqs = <<>> /\ sock'.rx = sock.rx
      /\ \A f \in File, p \in Nat : Waiting(sock, f, p) => Waiting(sock', f, p)
  BY <1>1 DEF Delivered, Quiet
<1>3. Receiving => Receiving'
  <2>1. Waiting(sock, cl.file, cl.progress) => Waiting(sock', cl.file, cl.progress)
    BY <1>2, ClientFields DEF IInv
  <2> QED BY <1>1, <1>2, <2>1 DEF Receiving
<1>4. Calling => Calling'
  BY <1>1, <1>2 DEF Calling, Fragment
<1>5. Suspending => Suspending'
  BY <1>1, <1>2 DEF Suspending
<1>6. Returning => Returning'
  BY <1>1, <1>2, <1>5 DEF Returning
<1>7. SendingAgain => SendingAgain'
  BY <1>1, <1>2 DEF SendingAgain
<1>8. ThreadPhase' /\ ThreadType'
  BY <1>1, <1>3, <1>4, <1>5, <1>6, <1>7 DEF IInv, ThreadType, ThreadPhase
<1>9. Offset' = Offset
  BY <1>1 DEF Offset, Pending
<1>10. dlc_with_offset_work => sock'.fd
  BY <1>2 DEF IInv, WorkWaits
<1> QED BY <1>1, <1>2, <1>8, <1>9, <1>10 DEF ClientKept, Kept, SockType, IInv, ClientType

(* The targets are not touched by the thread and the network. *)
LEMMA ClientStepKeeps ==
    ASSUME IInv, ClientKept, pc = "stuck" => pc' = "stuck", UNCHANGED <<fotaVars, appVars>>
    PROVE  IInv'
<1>1. /\ dfu' = dfu
      /\ first_fragment' = first_fragment
      /\ socket_retries_left' = socket_retries_left
      /\ dlc_with_offset_work' = dlc_with_offset_work
      /\ status' = status /\ want' = want /\ files' = files
  BY DEF fotaVars, appVars
<1>2. FotaType' /\ DfuType'
  BY <1>1 DEF IInv, FotaType, DfuType
<1>3. TargetOfDevice' /\ TargetWaits'
  BY <1>1 DEF IInv, TargetOfDevice, TargetWaits
<1>4. WorkWaits'
  BY <1>1 DEF IInv, WorkWaits, ClientKept, Kept
<1>5. Counting'
  <2>1. ~(first_fragment /\ dlc_with_offset_work)
    BY DEF IInv, WorkWaits
  <2> QED BY <1>1, <2>1 DEF IInv, Counting, ClientKept, Kept
<1>6. TargetCounts'
  BY <1>1 DEF IInv, TargetCounts, ClientKept, Kept
<1> QED BY <1>2, <1>3, <1>4, <1>5, <1>6 DEF IInv, ClientKept

-----------------------------------------------------------------------------
(* The callback *)

LEMMA CallbackFacts ==
    ASSUME IInv, Running("callback")
    PROVE  /\ ~ suspended
           /\ pc = "callback"
           /\ Calling
           /\ status = "active"
           /\ ~ dlc_with_offset_work
           /\ cl.file = want /\ want \in files /\ want \in File /\ files \in Devices
           /\ at \in FragmentPlaces \cup {"reset", "stop"}
           /\ Size[want] \in Nat \ {0} /\ Size[want] < DIRTY_IMAGE
           /\ cl.progress \in Nat
<1>1. ~ suspended /\ pc = "callback" /\ Calling /\ status = "active" /\ ~ dlc_with_offset_work
  BY DEF Running, IInv, ThreadPhase, Calling
<1>2. /\ cl.file = want /\ want \in files /\ want \in File /\ files \in Devices
      /\ at \in FragmentPlaces \cup {"reset", "stop"}
  BY <1>1 DEF IInv, Counting, FotaType, Calling
<1>3. Size[want] \in Nat \ {0} /\ Size[want] < DIRTY_IMAGE /\ cl.progress \in Nat
  BY <1>2, ClientFields DEF IInv
<1> QED BY <1>1, <1>2, <1>3

(* Files of one device. *)
LEMMA OneModemFile ==
    ASSUME FotaDiscipline, files \in Devices, NEW f \in files, NEW g \in files,
           Type[f] = "MODEM", Type[g] = "MODEM"
    PROVE  f = g
  BY DEF FotaDiscipline

LEMMA BankOfDevice ==
    ASSUME FotaDiscipline, files \in Devices, NEW f \in files, NEW e, TargetKept(dfu, f, e),
           TargetOfDevice
    PROVE  \A g \in files : Type[g] = "MODEM" => BankOf(e, g)
<1>1. ASSUME NEW g \in files, Type[g] = "MODEM" PROVE BankOf(e, g)
  <2>1. BankOf(dfu, g)
    BY <1>1 DEF TargetOfDevice
  <2>2. CASE Type[f] = "MODEM"
    <3>1. f = g
      BY <1>1, <2>2, OneModemFile
    <3> QED BY <2>1, <2>2, <3>1 DEF TargetKept
  <2>3. CASE Type[f] # "MODEM"
    <3>1. e.bank = dfu.bank /\ e.misplaced = dfu.misplaced
      BY <2>3 DEF TargetKept
    <3> QED BY <2>1, <3>1 DEF BankOf
  <2> QED BY <2>2, <2>3
<1> QED BY <1>1

LEMMA KeptTwice ==
    ASSUME NEW d, NEW e, NEW h, NEW f, TargetKept(d, f, e), TargetKept(e, f, h)
    PROVE  TargetKept(d, f, h)
  BY DEF TargetKept

(* An update goes on or fails, and no other file comes to be applied. *)
Works ==
    /\ Applied(dfu') \subseteq Applied(dfu) \cup {want}
    /\ want' = want /\ status' \in {"active", "error"}

(* The update ends: what the targets are left with. *)
TargetsLeft(d, first) ==
    /\ DfuOK(d)
    /\ d.current_target # "NULL" => \E f \in files : Type[f] = d.current_target
    /\ \A f \in files : Type[f] = "MODEM" => BankOf(d, f)
    /\ first /\ d.current_target = "MCUBOOT" => Empty(d)
    /\ ~ first => d.current_target = "MCUBOOT" /\ Empty(d)

LEMMA UpdateEnds ==
    ASSUME IInv, Running("callback"), Return(rc'), rc' # "OK" \/ at = "stop",
           UNCHANGED <<dlc_with_offset_work, want, files>>,
           socket_retries_left' = socket_retries_left,
           status' \in {"error", "finished"}, first_fragment' \in BOOLEAN,
           SockOK(sock'), Silent(sock'), TargetsLeft(dfu', first_fragment')
    PROVE  IInv'
<1>1. /\ ~ suspended /\ pc = "callback" /\ ~ dlc_with_offset_work
      /\ at \in FragmentPlaces \cup {"reset", "stop"}
  BY CallbackFacts
<1>2. pc' = "return" /\ suspended' = suspended /\ at' = at /\ cl' = cl
  BY DEF Return
<1>3. SockType' /\ ClientType' /\ DfuType'
  BY <1>2 DEF IInv, SockType, ClientType, DfuType, TargetsLeft
<1>4. FotaType'
  BY DEF IInv, FotaType
<1>5. status' # "active"
  OBVIOUS
<1>6. Returning' /\ ThreadType'
  BY <1>1, <1>2, <1>5 DEF Returning, Suspending, Quiet, FragmentPlaces, ThreadType, IInv
<1>7. ThreadPhase'
  BY <1>1, <1>2, <1>6 DEF ThreadPhase
<1>8. Counting' /\ WorkWaits' /\ TargetCounts'
  BY <1>1, <1>5 DEF Counting, WorkWaits, TargetCounts
<1>9. TargetOfDevice' /\ TargetWaits'
  BY <1>5 DEF TargetOfDevice, TargetWaits, TargetsLeft
<1> QED BY <1>3, <1>4, <1>6, <1>7, <1>8, <1>9 DEF IInv

(* The target was freed: it left the MCUboot target empty. *)
LEMMA AbortLeaves ==
    ASSUME IInv, FotaDiscipline, NEW f \in files, NEW d, DfuOK(d), TargetKept(dfu, f, d),
           d.current_target # "NULL" => \E g \in files : Type[g] = d.current_target,
           NEW r \in dfu_target_done(d, FALSE)
    PROVE  TargetsLeft(r.d, TRUE) /\ TargetKept(dfu, f, r.d)
<1>1. /\ DfuOK(r.d) /\ r.d.current_target = d.current_target /\ SameImages(d, r.d)
      /\ d.current_target = "MCUBOOT" => Empty(r.d)
  BY TargetAborted
<1>2. TargetKept(dfu, f, r.d)
  BY <1>1, ImagesKept, KeptTwice
<1>3. \A g \in files : Type[g] = "MODEM" => BankOf(r.d, g)
  BY <1>2, BankOfDevice DEF IInv, FotaType
<1> QED BY <1>1, <1>2, <1>3 DEF TargetsLeft

(* A call that never returns: the update stays under way. *)
LEMMA StuckKeeps ==
    ASSUME IInv, FotaDiscipline, Running("callback"),
           NEW d, DfuOK(d), TargetKept(dfu, want, d),
           d.current_target = "MODEM", Type[want] = "MODEM",
           NeverReturns(d), UNCHANGED <<socket_retries_left, want, files>>
    PROVE  IInv' /\ Works
<1>1. /\ ~ suspended /\ status = "active" /\ ~ dlc_with_offset_work
      /\ cl.file = want /\ want \in files /\ want \in File /\ files \in Devices
      /\ at \in FragmentPlaces \cup {"reset", "stop"}
  BY CallbackFacts
<1>2. /\ dfu' = d /\ pc' = "stuck" /\ suspended' = suspended /\ at' = at /\ cl' = cl
      /\ sock' = sock /\ first_fragment' = first_fragment /\ status' = status
      /\ dlc_with_offset_work' = dlc_with_offset_work
  BY DEF NeverReturns
<1>3. SockType' /\ ClientType' /\ FotaType' /\ DfuType'
  BY <1>2 DEF IInv, SockType, ClientType, FotaType, DfuType
<1>4. ThreadType' /\ ThreadPhase'
  BY <1>1, <1>2 DEF IInv, ThreadType, ThreadPhase
<1>5. Counting' /\ WorkWaits' /\ TargetCounts'
  BY <1>1, <1>2 DEF IInv, Counting, WorkWaits, TargetCounts
<1>6. \A f \in files : Type[f] = "MODEM" => BankOf(d, f)
  BY <1>1, BankOfDevice DEF IInv
<1>7. TargetOfDevice'
  BY <1>1, <1>2, <1>6 DEF TargetOfDevice
<1>8. TargetWaits'
  BY <1>1, <1>2 DEF TargetWaits
<1>9. Works
  BY <1>1, <1>2 DEF Works, TargetKept
<1> QED BY <1>3, <1>4, <1>5, <1>7, <1>8, <1>9 DEF IInv

LEMMA ErrorKeeps ==
    ASSUME IInv, FotaDiscipline, OnError
    PROVE  IInv' /\ Works /\ status = "active"
<1>1. /\ Running("callback") /\ evt.id = "ERROR" /\ evt' = NoEvt
      /\ dlc_with_offset_work' = dlc_with_offset_work /\ want' = want /\ files' = files
  BY DEF OnError
<1>2. /\ ~ suspended /\ pc = "callback" /\ Calling /\ status = "active" /\ ~ dlc_with_offset_work
      /\ want \in files /\ files \in Devices
  BY <1>1, CallbackFacts
<1>3. PICK e \in Errors : evt = Error(e) /\ at = IF e = "ECONNRESET" THEN "reset" ELSE "stop"
  BY <1>1, <1>2 DEF Calling, Fragment
<1>4. evt.error = e /\ e # "OK"
  BY <1>3 DEF Error, Errors
<1>5. CASE MayRetry
  <2>1. /\ socket_retries_left' = socket_retries_left - 1 /\ Return("OK")
        /\ UNCHANGED <<sock, dfu, first_fragment, status>>
    BY <1>5 DEF OnError
  <2>2. /\ rc' = "OK"
        /\ pc' = "return"
        /\ suspended' = suspended
        /\ at' = at
        /\ cl' = cl
        /\ at = "reset"
    BY <1>3, <1>4, <1>5, <2>1 DEF Return, MayRetry
  <2>3. SockType' /\ ClientType' /\ DfuType' /\ TargetOfDevice' /\ TargetWaits'
    BY <1>1, <1>2, <2>1, <2>2 DEF IInv, SockType, ClientType, DfuType, TargetOfDevice, TargetWaits
  <2>4. FotaType'
    <3>1. socket_retries_left' \in 0 .. FOTA_SOCKET_RETRIES
      BY <1>5, <2>1, FotaAssumption DEF IInv, FotaType, MayRetry
    <3> QED BY <1>1, <2>1, <3>1 DEF IInv, FotaType
  <2>5. Returning' /\ ThreadType' /\ ThreadPhase'
    <3>1. Returning'
      BY <1>2, <2>1, <2>2 DEF Returning
    <3> QED BY <1>1, <1>2, <2>2, <3>1 DEF ThreadType, ThreadPhase, IInv
  <2>6. Pending = 0 /\ Pending' = 0
    BY <1>1, <1>2, <2>2 DEF Pending
  <2>7. Offset' = Offset
    BY <2>2, <2>6 DEF Offset
  <2>8. Counting' /\ WorkWaits' /\ TargetCounts'
    BY <1>1, <1>2, <2>1, <2>2, <2>7 DEF IInv, Counting, WorkWaits, TargetCounts
  <2>9. Works
    BY <1>1, <1>2, <2>1 DEF Works
  <2> QED BY <1>2, <2>3, <2>4, <2>5, <2>8, <2>9 DEF IInv
<1>6. CASE ~ MayRetry
  <2>1. PICK c \in Disconnected(sock), r \in dfu_target_done(dfu, FALSE) :
            /\ sock' = c.s /\ dfu' = r.d /\ first_fragment' = TRUE /\ status' = "error"
            /\ Return(evt.error) /\ socket_retries_left' = socket_retries_left
    BY <1>6 DEF OnError, send_evt
  <2>2. sock' = NoSock
    BY <2>1, DisconnectedFacts DEF IInv, SockType
  <2>3. SockOK(sock') /\ Silent(sock')
    BY <2>2, NewSocks
  <2>4. TargetKept(dfu, want, dfu) /\ DfuOK(dfu)
    BY DEF TargetKept, IInv, DfuType
  <2>5. TargetsLeft(dfu', first_fragment') /\ TargetKept(dfu, want, dfu')
    BY <1>2, <2>1, <2>4, AbortLeaves DEF IInv, TargetOfDevice
  <2>6. rc' # "OK" /\ Return(rc')
    BY <1>4, <2>1 DEF Return
  <2>7. IInv'
    BY <1>1, <2>1, <2>3, <2>5, <2>6, UpdateEnds
  <2> QED BY <1>1, <1>2, <2>1, <2>5, <2>7 DEF Works, TargetKept
<1> QED BY <1>5, <1>6

LEMMA DoneKeeps ==
    ASSUME IInv, FotaDiscipline, OnDone
    PROVE  /\ IInv'
           /\ status = "active" /\ want' = want
           /\ Applied(dfu') \subseteq Applied(dfu) \cup {want}
           /\ dfu'.misplaced = dfu.misplaced
           /\ \/ status' = "finished" /\ (~ dfu.misplaced => want \in Applied(dfu'))
              \/ status' = "error"
<1>1. /\ Running("callback") /\ evt.id = "DONE" /\ evt' = NoEvt
      /\ dlc_with_offset_work' = dlc_with_offset_work /\ want' = want /\ files' = files
      /\ socket_retries_left' = socket_retries_left
  BY DEF OnDone
<1>2. /\ ~ suspended /\ pc = "callback" /\ Calling /\ status = "active" /\ ~ dlc_with_offset_work
      /\ cl.file = want /\ want \in files /\ want \in File /\ files \in Devices
      /\ Size[want] \in Nat \ {0} /\ Size[want] < DIRTY_IMAGE
  BY <1>1, CallbackFacts
<1>3. at = "stop" /\ cl.progress = Size[want] /\ ~ first_fragment /\ sock.fd /\ Quiet
  BY <1>1, <1>2 DEF Calling, Fragment, Error
<1>4. Offset = Size[want]
  BY <1>1, <1>2, <1>3 DEF Offset, Pending
<1>5. Selected(dfu, want, Size[want]) /\ dfu.current_target # "NULL" /\ DfuOK(dfu)
  BY <1>2, <1>3, <1>4
     DEF IInv, TargetOfDevice, TargetWaits, TargetCounts, Selected, ModemHolds, ModemOpen, DfuType
<1>6. PICK r \in dfu_target_done(dfu, TRUE) :
          /\ dfu' = r.d
          /\ IF r.err # "OK"
             THEN send_evt("error") /\ Return(r.err) /\ UNCHANGED <<sock, first_fragment>>
             ELSE \E c \in Disconnected(sock) :
                  /\ sock' = c.s
                  /\ IF c.err = "OK"
                     THEN send_evt("finished") /\ first_fragment' = TRUE /\ Return("OK")
                     ELSE send_evt("error") /\ Return(c.err) /\ UNCHANGED first_fragment
  BY DEF OnDone
<1>7. /\ DfuOK(r.d) /\ TargetKept(dfu, want, r.d) /\ r.d.misplaced = dfu.misplaced
      /\ r.err = "OK" => r.d.current_target = "NULL" /\ (~ dfu.misplaced => want \in Applied(r.d))
      /\ r.err # "OK" => dfu.current_target = "MCUBOOT" /\ r.d.current_target = "MCUBOOT" /\ Empty(r.d)
  BY <1>2, <1>5, TargetDone
<1>8. \A f \in files : Type[f] = "MODEM" => BankOf(r.d, f)
  BY <1>2, <1>7, BankOfDevice DEF IInv
<1>8a. Applied(dfu') \subseteq Applied(dfu) \cup {want} /\ dfu'.misplaced = dfu.misplaced
  BY <1>6, <1>7 DEF TargetKept
<1>9. CASE r.err # "OK"
  <2>1. status' = "error" /\ Return(r.err) /\ sock' = sock /\ first_fragment' = first_fragment
    BY <1>6, <1>9 DEF send_evt
  <2>2. SockOK(sock') /\ Silent(sock') /\ first_fragment' \in BOOLEAN
    BY <1>3, <2>1 DEF IInv, SockType, Quiet, FotaType
  <2>3. TargetsLeft(dfu', first_fragment')
    BY <1>6, <1>7, <1>8, <1>9 DEF TargetsLeft, IInv, TargetOfDevice
  <2>4. Return(rc')
    BY <2>1 DEF Return
  <2>5. IInv'
    BY <1>1, <1>3, <2>1, <2>2, <2>3, <2>4, UpdateEnds
  <2> QED BY <1>1, <1>2, <1>8a, <2>1, <2>5
<1>10. CASE r.err = "OK"
  <2>1. PICK c \in Disconnected(sock) :
            /\ sock' = c.s
            /\ IF c.err = "OK"
               THEN send_evt("finished") /\ first_fragment' = TRUE /\ Return("OK")
               ELSE send_evt("error") /\ Return(c.err) /\ UNCHANGED first_fragment
    BY <1>6, <1>10
  <2>2. c.s = NoSock /\ c.err = "OK"
    BY <1>3, DisconnectedFacts DEF IInv, SockType
  <2>3. status' = "finished" /\ first_fragment' = TRUE /\ Return("OK") /\ sock' = NoSock
    BY <2>1, <2>2 DEF send_evt
  <2>4. SockOK(sock') /\ Silent(sock')
    BY <2>3, NewSocks
  <2>5. TargetsLeft(dfu', first_fragment')
    BY <1>6, <1>7, <1>8, <1>10, <2>3 DEF TargetsLeft
  <2>6. Return(rc')
    BY <2>3 DEF Return
  <2>7. IInv'
    BY <1>1, <1>3, <2>3, <2>4, <2>5, <2>6, UpdateEnds
  <2> QED BY <1>1, <1>2, <1>6, <1>7, <1>8a, <1>10, <2>3, <2>7
<1> QED BY <1>9, <1>10

(* A fragment that continues what the target holds is written. *)
LEMMA WriteKeeps ==
    ASSUME IInv, FotaDiscipline, Running("callback"), evt.id = "FRAGMENT",
           NEW d, DfuOK(d), TargetKept(dfu, want, d),
           Selected(d, want, Offset), d.current_target # "NULL",
           WriteFragment(d, evt.data),
           UNCHANGED <<socket_retries_left, want, files>>
    PROVE  IInv' /\ Works
<1>1. /\ ~ suspended /\ pc = "callback" /\ Calling /\ status = "active" /\ ~ dlc_with_offset_work
      /\ cl.file = want /\ want \in files /\ want \in File /\ files \in Devices
      /\ Size[want] \in Nat \ {0} /\ Size[want] < DIRTY_IMAGE /\ cl.progress \in Nat
  BY CallbackFacts
<1>2. /\ evt = Fragment(cl) /\ at \in FragmentPlaces /\ cl.buf # <<>> /\ Buffered(cl)
      /\ sock.fd /\ Quiet
  BY <1>1 DEF Calling, Error
<1>3. cl.buf \in Seq(Item) /\ Len(cl.buf) \in Nat
  BY ClientFields DEF IInv
<1>4. /\ Data(cl.buf, want, cl.progress - Len(cl.buf))
      /\ Len(cl.buf) <= cl.progress
      /\ cl.has_header
      /\ cl.file_size = Size[want]
  BY <1>1, <1>2 DEF Buffered
<1>5. Offset = cl.progress - Len(cl.buf) /\ Offset \in Nat /\ Offset + Len(cl.buf) = cl.progress
  BY <1>1, <1>3, <1>4 DEF Offset, Pending
<1> DEFINE data == evt.data
<1>6. data = Units(cl.buf)
  BY <1>2 DEF Fragment
<1>7. data \in Seq(Unit) /\ Len(data) = Len(cl.buf) /\ Holds(data, want, Offset)
  BY <1>1, <1>3, <1>4, <1>5, <1>6, UnitsFacts
<1>8. PICK w \in dfu_target_write(d, data) :
        IF w.err = "STUCK" THEN NeverReturns(w.d)
        ELSE IF w.err = "OK"
        THEN /\ dfu' = w.d
             /\ first_fragment' = FALSE
             /\ Return("OK")
             /\ UNCHANGED <<sock, status, dlc_with_offset_work>>
        ELSE \E r \in dfu_target_done(w.d, FALSE), c \in Disconnected(sock) :
             /\ dfu' = r.d
             /\ sock' = c.s
             /\ first_fragment' = TRUE
             /\ send_evt("error")
             /\ Return(w.err)
             /\ UNCHANGED dlc_with_offset_work
  BY DEF WriteFragment
<1> HIDE DEF data
<1>9. /\ DfuOK(w.d) /\ w.d.current_target = d.current_target /\ TargetKept(d, want, w.d)
      /\ w.err = "STUCK" => d.current_target = "MODEM"
      /\ w.err = "OK" => Selected(w.d, want, Offset + Len(data))
  BY <1>1, <1>5, <1>7, TargetWritten
<1>10. TargetKept(dfu, want, w.d)
  BY <1>9, KeptTwice
<1>11. w.d.current_target = Type[want]
  BY <1>9 DEF Selected
<1>11a. CASE w.err = "STUCK"
  <2>1. NeverReturns(w.d) /\ w.d.current_target = "MODEM" /\ Type[want] = "MODEM"
    BY <1>8, <1>9, <1>11, <1>11a
  <2> QED BY <1>9, <1>10, <2>1, StuckKeeps
<1>12. CASE w.err = "OK"
  <2>1. /\ dfu' = w.d /\ first_fragment' = FALSE /\ sock' = sock /\ status' = status
        /\ dlc_with_offset_work' = dlc_with_offset_work /\ want' = want /\ files' = files
        /\ rc' = "OK" /\ pc' = "return" /\ suspended' = suspended /\ at' = at /\ cl' = cl
        /\ socket_retries_left' = socket_retries_left
    BY <1>8, <1>12 DEF Return
  <2>2. SockType' /\ ClientType' /\ FotaType' /\ DfuType'
    BY <1>9, <2>1 DEF IInv, SockType, ClientType, FotaType, DfuType
  <2>3. Returning'
    BY <1>1, <1>2, <1>4, <2>1 DEF Returning, Quiet
  <2>4. ThreadType' /\ ThreadPhase'
    BY <1>1, <2>1, <2>3 DEF IInv, ThreadType, ThreadPhase
  <2>5. Offset' = cl.progress
    BY <1>1, <2>1 DEF Offset, Pending
  <2>6. Selected(w.d, want, cl.progress)
    BY <1>5, <1>7, <1>9, <1>12
  <2>7. cl.progress <= Size[want]
    BY <1>1, <1>5, <1>7 DEF Holds
  <2>8. Counting' /\ WorkWaits'
    BY <1>1, <1>4, <2>1 DEF IInv, Counting, WorkWaits
  <2>9. TargetCounts'
    BY <1>1, <2>1, <2>5, <2>6 DEF TargetCounts, Selected, ModemHolds
  <2>10. \A f \in files : Type[f] = "MODEM" => BankOf(w.d, f)
    BY <1>1, <1>10, BankOfDevice DEF IInv
  <2>11. TargetOfDevice'
    BY <1>1, <1>11, <2>1, <2>10 DEF TargetOfDevice
  <2>12. TargetWaits'
    BY <1>1, <1>9, <2>1, <2>6 DEF TargetWaits, Selected, ModemHolds, ModemOpen
  <2>13. Works
    BY <1>1, <1>10, <2>1 DEF Works, TargetKept
  <2> QED BY <2>2, <2>4, <2>8, <2>9, <2>11, <2>12, <2>13 DEF IInv
<1>13. CASE w.err # "OK" /\ w.err # "STUCK"
  <2>1. PICK r \in dfu_target_done(w.d, FALSE), c \in Disconnected(sock) :
            /\ dfu' = r.d /\ sock' = c.s /\ first_fragment' = TRUE /\ status' = "error"
            /\ Return(w.err) /\ dlc_with_offset_work' = dlc_with_offset_work
    BY <1>8, <1>13 DEF send_evt
  <2>2. SockOK(sock') /\ Silent(sock')
    BY <2>1, DisconnectedFacts, NewSocks DEF IInv, SockType
  <2>3. TargetsLeft(dfu', first_fragment') /\ TargetKept(dfu, want, dfu')
    BY <1>1, <1>9, <1>10, <1>11, <2>1, AbortLeaves
  <2>4. Return(rc') /\ rc' # "OK"
    BY <1>13, <2>1 DEF Return
  <2>5. IInv'
    BY <2>1, <2>2, <2>3, <2>4, UpdateEnds
  <2> QED BY <2>1, <2>3, <2>5 DEF Works, TargetKept
<1> QED BY <1>11a, <1>12, <1>13

LEMMA FragmentKeeps ==
    ASSUME IInv, FotaDiscipline, OnFragment
    PROVE  IInv' /\ Works /\ status = "active"
<1>1. /\ Running("callback") /\ evt.id = "FRAGMENT" /\ evt' = NoEvt
      /\ UNCHANGED <<socket_retries_left, want, files>>
      /\ IF first_fragment THEN FirstFragment(evt.data) ELSE WriteFragment(dfu, evt.data)
  BY DEF OnFragment
<1>2. /\ ~ suspended /\ pc = "callback" /\ Calling /\ status = "active" /\ ~ dlc_with_offset_work
      /\ cl.file = want /\ want \in files /\ want \in File /\ files \in Devices
      /\ Size[want] \in Nat \ {0} /\ Size[want] < DIRTY_IMAGE /\ cl.progress \in Nat
      /\ DIRTY_IMAGE \in Nat
  BY <1>1, CallbackFacts, DfuAssumption
<1>3. /\ evt = Fragment(cl) /\ at \in FragmentPlaces /\ cl.buf # <<>> /\ Buffered(cl)
      /\ sock.fd /\ Quiet
  BY <1>1, <1>2 DEF Calling, Error
<1>4. cl.buf \in Seq(Item) /\ Len(cl.buf) \in Nat
  BY ClientFields DEF IInv
<1>5. /\ Data(cl.buf, want, cl.progress - Len(cl.buf))
      /\ Len(cl.buf) <= cl.progress
      /\ cl.has_header
  BY <1>2, <1>3 DEF Buffered
<1>6. Offset = cl.progress - Len(cl.buf) /\ Offset \in Nat /\ Offset + Len(cl.buf) = cl.progress
  BY <1>1, <1>2, <1>4, <1>5 DEF Offset, Pending
<1>7. cl.progress # DIRTY_IMAGE
  <2>1. Offset + Len(cl.buf) <= Size[want]
    BY <1>5, <1>6 DEF Data
  <2> QED BY <1>2, <1>6, <2>1
<1>8. DfuOK(dfu) /\ TargetKept(dfu, want, dfu)
  BY DEF IInv, DfuType, TargetKept
<1>9. CASE ~ first_fragment
  <2>1. Selected(dfu, want, Offset) /\ dfu.current_target # "NULL"
    BY <1>2, <1>7, <1>9
       DEF IInv, TargetOfDevice, TargetWaits, TargetCounts, Selected, ModemHolds, ModemOpen
  <2>2. WriteFragment(dfu, evt.data)
    BY <1>1, <1>9
  <2> QED BY <1>1, <1>2, <1>8, <2>1, <2>2, WriteKeeps
<1>10. CASE first_fragment
  <2>1. Offset = 0
    BY <1>2, <1>10 DEF IInv, Counting
  <2> DEFINE data == evt.data
  <2>2. dfu_target_img_type(data) = Type[want]
    <3>1. data = Units(cl.buf)
      BY <1>3 DEF Fragment
    <3>2. data \in Seq(Unit) /\ Len(data) = Len(cl.buf) /\ Holds(data, want, 0)
      BY <1>2, <1>4, <1>5, <1>6, <2>1, <3>1, UnitsFacts
    <3>3. Len(cl.buf) # 0
      BY <1>3, <1>4, EmptySeq
    <3> HIDE DEF data
    <3>4. 1 \in 1 .. Len(data) /\ 0 + 1 - 1 = 0
      BY <1>4, <3>2, <3>3
    <3>5. data[1] = [file |-> want, at |-> 0]
      BY <3>2, <3>4 DEF Holds
    <3>6. Head(data) = data[1]
      BY <3>2, <3>4
    <3> QED BY <3>5, <3>6 DEF dfu_target_img_type
  <2>3. PICK i \in dfu_target_init(dfu, Type[want], cl.file_size) :
          IF i.err = "STUCK" THEN NeverReturns(i.d)
          ELSE IF i.err # "OK"
          THEN \E r \in dfu_target_reset(i.d) :
               /\ dfu' = r.d
               /\ first_fragment' = TRUE
               /\ send_evt("error")
               /\ Return(i.err)
               /\ UNCHANGED <<sock, dlc_with_offset_work>>
          ELSE IF dfu_target_offset_get(i.d) # 0
          THEN /\ dfu' = i.d
               /\ first_fragment' = FALSE
               /\ dlc_with_offset_work' = TRUE
               /\ Return("REFUSED")
               /\ UNCHANGED <<sock, status>>
          ELSE WriteFragment(i.d, evt.data)
    BY <1>1, <1>10, <2>2 DEF FirstFragment
  <2> HIDE DEF data
  <2>4. /\ dfu.current_target = "MCUBOOT" => Empty(dfu)
        /\ Type[want] = "MODEM" => BankOf(dfu, want)
    BY <1>2, <1>10 DEF IInv, TargetWaits, TargetOfDevice
  <2>5. /\ DfuOK(i.d) /\ TargetKept(dfu, want, i.d)
        /\ i.d.current_target \in {dfu.current_target, Type[want]}
        /\ i.err = "STUCK" => i.d.current_target = "MODEM" /\ Type[want] = "MODEM"
        /\ i.err = "OK" => i.d.current_target = Type[want] /\ i.d.current_target # "NULL"
        /\ i.err = "OK" /\ dfu_target_offset_get(i.d) = 0 => Selected(i.d, want, 0)
        /\ i.err = "OK" /\ dfu_target_offset_get(i.d) # 0 => Type[want] = "MODEM" /\ ModemOpen(i.d)
    BY <1>2, <1>8, <2>3, <2>4, TargetInit
  <2>6. \A f \in files : Type[f] = "MODEM" => BankOf(i.d, f)
    BY <1>2, <2>5, BankOfDevice DEF IInv
  <2>6a. CASE i.err = "STUCK"
    <3>1. NeverReturns(i.d)
      BY <2>3, <2>6a
    <3> QED BY <1>1, <1>2, <2>5, <2>6a, <3>1, StuckKeeps
  <2>7. CASE i.err # "OK" /\ i.err # "STUCK"
    <3>1. PICK r \in dfu_target_reset(i.d) :
              /\ dfu' = r.d /\ first_fragment' = TRUE /\ status' = "error" /\ Return(i.err)
              /\ sock' = sock /\ dlc_with_offset_work' = dlc_with_offset_work
      BY <2>3, <2>7 DEF send_evt
    <3>2. SockOK(sock') /\ Silent(sock')
      BY <1>3, <3>1 DEF IInv, SockType, Quiet
    <3>3. /\ DfuOK(r.d) /\ r.d.current_target \in {i.d.current_target, "NULL"}
          /\ SameImages(i.d, r.d) /\ r.d.current_target # "MCUBOOT"
      BY <2>5, TargetReset
    <3>3a. TargetKept(dfu, want, r.d)
      BY <2>5, <3>3, ImagesKept, KeptTwice
    <3>3b. \A f \in files : Type[f] = "MODEM" => BankOf(r.d, f)
      BY <1>2, <3>3a, BankOfDevice DEF IInv
    <3>4. r.d.current_target # "NULL" => \E f \in files : Type[f] = r.d.current_target
      BY <1>2, <2>5, <3>3 DEF IInv, TargetOfDevice
    <3>5. TargetsLeft(dfu', first_fragment')
      BY <3>1, <3>3, <3>3b, <3>4 DEF TargetsLeft
    <3>6. Return(rc') /\ rc' # "OK"
      BY <2>7, <3>1 DEF Return
    <3>7. IInv'
      BY <1>1, <3>1, <3>2, <3>5, <3>6, UpdateEnds
    <3> QED BY <1>1, <1>2, <3>1, <3>3a, <3>7 DEF Works, TargetKept
  <2>8. CASE i.err = "OK" /\ dfu_target_offset_get(i.d) # 0
    <3>1. /\ dfu' = i.d /\ first_fragment' = FALSE /\ dlc_with_offset_work' = TRUE
          /\ sock' = sock /\ status' = status /\ want' = want /\ files' = files
          /\ rc' = "REFUSED" /\ pc' = "return" /\ suspended' = suspended /\ at' = at /\ cl' = cl
          /\ socket_retries_left' = socket_retries_left
      BY <1>1, <2>3, <2>8 DEF Return
    <3>2. SockType' /\ ClientType' /\ FotaType' /\ DfuType'
      BY <2>5, <3>1 DEF IInv, SockType, ClientType, FotaType, DfuType
    <3>3. Returning'
      BY <1>3, <3>1 DEF Returning, Suspending, Quiet, FragmentPlaces
    <3>4. ThreadType' /\ ThreadPhase'
      BY <1>2, <1>3, <3>1, <3>3 DEF IInv, ThreadType, ThreadPhase
    <3>5. Counting' /\ WorkWaits' /\ TargetCounts'
      BY <1>2, <1>3, <2>5, <2>8, <3>1 DEF IInv, Counting, WorkWaits, TargetCounts
    <3>6. TargetOfDevice'
      BY <1>2, <2>5, <2>6, <2>8, <3>1 DEF TargetOfDevice
    <3>7. TargetWaits'
      BY <1>2, <2>5, <2>8, <3>1 DEF TargetWaits, ModemOpen
    <3>8. Works
      BY <1>2, <2>5, <3>1 DEF Works, TargetKept
    <3> QED BY <1>2, <3>2, <3>4, <3>5, <3>6, <3>7, <3>8 DEF IInv
  <2>9. CASE i.err = "OK" /\ dfu_target_offset_get(i.d) = 0
    <3>1. WriteFragment(i.d, evt.data)
      BY <2>3, <2>9
    <3>2. Selected(i.d, want, Offset) /\ i.d.current_target # "NULL"
      BY <2>1, <2>5, <2>9
    <3> QED BY <1>1, <1>2, <2>5, <3>1, <3>2, WriteKeeps
  <2> QED BY <2>6a, <2>7, <2>8, <2>9
<1> QED BY <1>9, <1>10

-----------------------------------------------------------------------------
(* Other contexts *)

(* download_client_start() of a file from an offset within it. *)
LEMMA StartedFacts ==
    ASSUME NEW b \in ClientRecord, NEW f \in File, NEW o \in Nat, o <= Size[f] \/ o = DIRTY_IMAGE
    PROVE  LET c == StartedClient(b, f, o)
           IN  /\ ClientOK(c)
               /\ c.file = f /\ c.progress = o /\ c.buf = <<>> /\ ~ c.has_header /\ c.file_size = 0
               /\ NoEnd(c.buf)
<1> DEFINE c == StartedClient(b, f, o)
<1>1. <<>> \in Seq(Item) /\ Len(<<>>) = 0 /\ BUF_SIZE \in Nat /\ 0 \in Nat
  BY EmptySeq, ClientAssumption
<1>2. c \in ClientRecord
  BY <1>1 DEF StartedClient, ClientRecord
<1>3. c.file = f /\ c.progress = o /\ c.buf = <<>> /\ ~ c.has_header /\ c.file_size = 0
  BY DEF StartedClient, ClientRecord
<1> HIDE DEF c
<1>4. ClientOK(c) /\ NoEnd(c.buf)
  BY <1>1, <1>2, <1>3 DEF ClientOK, NoEnd
<1> QED BY <1>3, <1>4 DEF c

LEMMA OffsetKeeps ==
    ASSUME IInv, FotaDiscipline, download_with_offset
    PROVE  IInv'
<1> DEFINE o == dfu_target_offset_get(dfu)
           c == StartedClient(cl, cl.file, o)
<1>1. /\ dlc_with_offset_work /\ dlc_with_offset_work' = FALSE
      /\ pc' = pc /\ at' = at /\ evt' = evt /\ rc' = rc /\ dfu' = dfu
      /\ first_fragment' = first_fragment /\ socket_retries_left' = socket_retries_left
      /\ status' = status /\ want' = want /\ files' = files
  BY DEF download_with_offset, appVars
<1>2. status = "active" /\ ~ first_fragment /\ dfu.current_target = "MODEM" /\ sock.fd
  BY <1>1 DEF IInv, WorkWaits
<1>3. PICK r \in RequestSent(sock, c) :
          /\ sock' = r.s /\ suspended' = IF r.err = "OK" THEN FALSE ELSE suspended
  BY <1>2 DEF download_with_offset
<1>4. cl' = c
  BY <1>2 DEF download_with_offset
<1>5. \/ suspended /\ pc = "recv"
      \/ ~ suspended /\ pc = "suspend"
      \/ ~ suspended /\ pc = "return" /\ rc # "OK" /\ at \in FragmentPlaces
  BY <1>1 DEF IInv, ThreadPhase, ThreadType
<1>6. Silent(sock)
  <2>1. suspended \/ pc = "suspend" => Suspending
    BY DEF IInv, ThreadPhase
  <2>2. ~ suspended /\ pc = "return" => Returning
    BY DEF IInv, ThreadPhase
  <2>3. Suspending => Quiet
    BY <1>1 DEF Suspending
  <2> QED BY <1>5, <2>1, <2>2, <2>3 DEF Returning, Quiet
<1>7. cl.file = want /\ want \in files /\ want \in File /\ Type[want] = "MODEM"
  BY <1>2 DEF IInv, Counting, FotaType, TargetOfDevice
<1>8. BankOf(dfu, want) /\ ModemOpen(dfu) /\ DfuOK(dfu)
  BY <1>2, <1>5, <1>7 DEF IInv, TargetOfDevice, TargetWaits, ModemOpen, DfuType
<1>9. dfu.bank \in Seq(Unit) /\ Len(dfu.bank) \in Nat /\ Size[want] \in Nat /\ DIRTY_IMAGE \in Nat
  BY <1>7, <1>8, LenProperties, ImageFacts, DfuAssumption DEF DfuOK, DfuState
<1>10. o = IF dfu.dirty THEN DIRTY_IMAGE ELSE Len(dfu.bank)
  BY <1>2, <1>8 DEF dfu_target_offset_get, ModemOpen, modem_offset
<1>11. Len(dfu.bank) <= Size[want]
  BY <1>8 DEF BankOf
<1>12. o \in Nat /\ (o <= Size[want] \/ o = DIRTY_IMAGE)
  BY <1>9, <1>10, <1>11
<1> HIDE DEF o
<1>13. /\ ClientOK(c)
       /\ c.file = want /\ c.progress = o /\ c.buf = <<>> /\ ~ c.has_header /\ c.file_size = 0
       /\ NoEnd(c.buf)
  BY <1>7, <1>12, StartedFacts DEF IInv, ClientType, ClientOK
<1> HIDE DEF c
<1>14. SockOK(r.s) /\ r.s.fd = sock.fd /\ Waiting(r.s, c.file, c.progress)
  BY <1>3, <1>6, <1>13, RequestFacts DEF IInv, SockType, FotaDiscipline
<1>15. SockType' /\ ClientType' /\ FotaType' /\ DfuType'
  BY <1>1, <1>3, <1>4, <1>13, <1>14 DEF IInv, SockType, ClientType, FotaType, DfuType
<1>16. Receiving' /\ Suspending'
  BY <1>1, <1>2, <1>3, <1>4, <1>13, <1>14 DEF Receiving, Suspending
<1>17. ~ suspended /\ pc = "return" => Returning'
  BY <1>1, <1>5, <1>16 DEF Returning, FragmentPlaces
<1>18. ThreadType' /\ ThreadPhase'
  <2>1. suspended' \in BOOLEAN /\ (suspended' => suspended)
    BY <1>3 DEF IInv, ThreadType
  <2>2. ThreadType'
    BY <1>1, <2>1 DEF IInv, ThreadType
  <2>3. CASE suspended /\ pc = "recv"
    BY <1>1, <1>16, <2>2, <2>3 DEF ThreadPhase
  <2>4. CASE ~ suspended /\ pc = "suspend"
    BY <1>1, <1>16, <2>1, <2>2, <2>4 DEF ThreadPhase
  <2>5. CASE ~ suspended /\ pc = "return"
    BY <1>1, <1>17, <2>1, <2>2, <2>5 DEF ThreadPhase
  <2> QED BY <1>5, <2>3, <2>4, <2>5
<1>19. Offset' = o
  <2>1. Pending' = 0
    BY <1>4, <1>13 DEF Pending
  <2> QED BY <1>4, <1>12, <1>13, <2>1 DEF Offset
<1>20. Counting' /\ WorkWaits'
  BY <1>1, <1>2, <1>4, <1>7, <1>13 DEF Counting, WorkWaits
<1>21. TargetCounts'
  BY <1>1, <1>2, <1>4, <1>9, <1>10, <1>13, <1>19 DEF TargetCounts, Counts
<1>22. TargetOfDevice' /\ TargetWaits'
  BY <1>1 DEF IInv, TargetOfDevice, TargetWaits
<1> QED BY <1>15, <1>18, <1>20, <1>21, <1>22 DEF IInv

(* An attempt to start an update that failed. *)
LEMMA NotStarted ==
    ASSUME IInv, status # "active", SockOK(sock'), Silent(sock'), ClientOK(cl'),
           socket_retries_left' \in 0 .. FOTA_SOCKET_RETRIES,
           UNCHANGED <<suspended, status, want>>,
           UNCHANGED <<pc, at, evt, rc, dfu, first_fragment, dlc_with_offset_work, files>>
    PROVE  IInv'
<1>1. SockType' /\ ClientType' /\ FotaType' /\ DfuType' /\ ThreadType'
  BY DEF IInv, SockType, ClientType, FotaType, DfuType, ThreadType
<1>2. Suspending' /\ Quiet'
  BY DEF Suspending, Quiet
<1>3. Returning => Returning'
  BY <1>2 DEF Returning
<1>4. ~ Receiving /\ ~ Calling /\ ~ SendingAgain
  BY DEF Receiving, Calling, SendingAgain
<1>5. ThreadPhase'
  BY <1>2, <1>3, <1>4 DEF IInv, ThreadPhase
<1>6. Counting' /\ WorkWaits' /\ TargetCounts'
  BY DEF IInv, Counting, WorkWaits, TargetCounts
<1>7. TargetOfDevice' /\ TargetWaits'
  BY DEF IInv, TargetOfDevice, TargetWaits
<1> QED BY <1>1, <1>5, <1>6, <1>7 DEF IInv

LEMMA StartKeeps ==
    ASSUME IInv, FotaDiscipline, fota_download_start
    PROVE  IInv'
<1>1. /\ status # "active" /\ socket_retries_left' = FOTA_SOCKET_RETRIES
      /\ UNCHANGED <<pc, at, evt, rc, dfu, first_fragment, dlc_with_offset_work, files>>
  BY DEF fota_download_start, MayStart
<1>2. socket_retries_left' \in 0 .. FOTA_SOCKET_RETRIES
  BY <1>1, FotaAssumption
<1>3. ~ dlc_with_offset_work
  BY <1>1 DEF IInv, WorkWaits
<1>4. /\ suspended => pc = "recv" /\ Suspending
      /\ ~ suspended => pc = "suspend" \/ pc = "return"
      /\ ~ suspended /\ pc = "suspend" => Suspending
      /\ ~ suspended /\ pc = "return" => Suspending /\ at # "none" /\ (rc # "OK" \/ at = "stop")
  BY <1>1 DEF IInv, ThreadType, ThreadPhase, Receiving, Calling, SendingAgain, Returning
<1>5. Silent(sock)
  BY <1>1, <1>4 DEF Suspending, Quiet
<1>6. PICK f \in files, frag \in FragOverrides, k \in Connected(sock) :
        LET c == StartedClient([cl EXCEPT !.frag = IF sock.fd THEN cl.frag ELSE frag], f, 0)
        IN  IF k.err # "OK"
            THEN sock' = k.s /\ UNCHANGED <<cl, suspended, status, want>>
            ELSE /\ cl' = c
                 /\ \E r \in RequestSent(k.s, c) :
                    IF r.err = "OK"
                    THEN /\ sock' = r.s
                         /\ suspended' = FALSE
                         /\ status' = "active"
                         /\ want' = f
                    ELSE /\ \E x \in Disconnected(r.s) : sock' = x.s
                         /\ UNCHANGED <<suspended, status, want>>
  BY DEF fota_download_start
<1> DEFINE b == [cl EXCEPT !.frag = IF sock.fd THEN cl.frag ELSE frag]
           c == StartedClient(b, f, 0)
<1>7. f \in File /\ files \in Devices
  BY FotaAssumption DEF IInv, FotaType
<1>8. b \in ClientRecord
  BY ClientAssumption DEF IInv, ClientType, ClientOK, ClientRecord
<1>9. 0 \in Nat /\ 0 <= Size[f] /\ Size[f] \in Nat
  BY <1>7, ImageFacts
<1>10. IF k.err # "OK"
       THEN sock' = k.s /\ UNCHANGED <<cl, suspended, status, want>>
       ELSE /\ cl' = c
            /\ \E r \in RequestSent(k.s, c) :
                IF r.err = "OK"
                THEN /\ sock' = r.s
                     /\ suspended' = FALSE
                     /\ status' = "active"
                     /\ want' = f
                ELSE /\ \E x \in Disconnected(r.s) : sock' = x.s
                     /\ UNCHANGED <<suspended, status, want>>
  BY <1>6
<1> HIDE DEF b
<1>11. /\ ClientOK(c)
       /\ c.file = f /\ c.progress = 0 /\ c.buf = <<>> /\ ~ c.has_header /\ c.file_size = 0
       /\ NoEnd(c.buf)
  BY <1>7, <1>8, <1>9, StartedFacts
<1> HIDE DEF c
<1>12. k.s \in {sock, NoSock, NewSock} /\ (k.err = "OK" => k.s.fd)
  BY ConnectedFacts DEF IInv, SockType
<1>13. SockOK(k.s) /\ Silent(k.s)
  BY <1>5, <1>12, NewSocks DEF IInv, SockType
<1>14. CASE k.err # "OK"
  <2>1. sock' = k.s /\ cl' = cl /\ UNCHANGED <<suspended, status, want>>
    BY <1>10, <1>14
  <2>2. SockOK(sock') /\ Silent(sock') /\ ClientOK(cl')
    BY <1>13, <2>1 DEF IInv, ClientType
  <2> QED BY <1>1, <1>2, <2>1, <2>2, NotStarted
<1>15. CASE k.err = "OK"
  <2>1. PICK r \in RequestSent(k.s, c) :
            IF r.err = "OK"
            THEN /\ sock' = r.s
                 /\ suspended' = FALSE
                 /\ status' = "active"
                 /\ want' = f
            ELSE /\ \E x \in Disconnected(r.s) : sock' = x.s
                 /\ UNCHANGED <<suspended, status, want>>
    BY <1>10, <1>15
  <2>2. cl' = c
    BY <1>10, <1>15
  <2>3. /\ SockOK(r.s) /\ r.s.fd = k.s.fd /\ Waiting(r.s, c.file, c.progress)
        /\ r.err = "OK" => k.s.fd
    BY <1>11, <1>13, RequestFacts DEF FotaDiscipline
  <2>4. CASE r.err # "OK"
    <3>1. PICK x \in Disconnected(r.s) : sock' = x.s
      BY <2>1, <2>4
    <3>2. UNCHANGED <<suspended, status, want>>
      BY <2>1, <2>4
    <3>3. SockOK(sock') /\ Silent(sock')
      BY <2>3, <3>1, DisconnectedFacts, NewSocks
    <3>4. ClientOK(cl')
      BY <1>11, <2>2
    <3> QED BY <1>1, <1>2, <3>2, <3>3, <3>4, NotStarted
  <2>5. CASE r.err = "OK"
    <3>1. sock' = r.s /\ suspended' = FALSE /\ status' = "active" /\ want' = f
      BY <2>1, <2>5
    <3>2. SockType' /\ ClientType' /\ FotaType' /\ DfuType' /\ ThreadType'
      BY <1>1, <1>2, <1>7, <1>11, <2>2, <2>3, <3>1
         DEF IInv, SockType, ClientType, FotaType, DfuType, ThreadType
    <3>3. Receiving' /\ Suspending'
      BY <1>1, <1>3, <1>11, <2>2, <2>3, <2>5, <3>1 DEF Receiving, Suspending
    <3>4. ThreadPhase'
      <4>1. ~ suspended /\ pc = "return" => Returning'
        BY <1>1, <1>4, <3>3 DEF Returning
      <4> QED BY <1>1, <1>3, <1>4, <3>1, <3>3, <4>1 DEF ThreadPhase
    <3>5. Offset' = 0
      BY <1>11, <2>2 DEF Offset, Pending
    <3>6. Counting' /\ WorkWaits'
      BY <1>1, <1>3, <1>11, <2>2, <3>1, <3>5 DEF Counting, WorkWaits
    <3>7. ~ first_fragment => Type[f] = "MCUBOOT" /\ dfu.current_target = "MCUBOOT" /\ Empty(dfu)
      <4>1. SUFFICES ASSUME ~ first_fragment
                     PROVE  Type[f] = "MCUBOOT" /\ dfu.current_target = "MCUBOOT" /\ Empty(dfu)
        OBVIOUS
      <4>2. dfu.current_target = "MCUBOOT" /\ Empty(dfu)
        BY <1>1, <4>1 DEF IInv, TargetWaits
      <4>3. PICK g \in files : Type[g] = "MCUBOOT"
        BY <4>2 DEF IInv, TargetOfDevice
      <4>4. (\A h \in files : Type[h] = "MCUBOOT") \/ (\A h \in files : Type[h] # "MCUBOOT")
        BY <1>7 DEF FotaDiscipline
      <4> QED BY <4>2, <4>3, <4>4
    <3>8. Empty(dfu) => SlotHolds(dfu, f) /\ dfu.img + Len(dfu.img_buf) = 0
      <4>1. Len(<<>>) = 0
        BY EmptySeq
      <4> QED BY <1>9, <4>1 DEF Empty, SlotHolds, Starts, Holds
    <3>9. TargetCounts'
      BY <1>1, <3>1, <3>5, <3>7, <3>8 DEF TargetCounts
    <3>10. TargetOfDevice'
      BY <1>1, <3>1, <3>7 DEF IInv, TargetOfDevice
    <3>11. TargetWaits'
      BY <1>1, <3>1, <3>7 DEF IInv, TargetWaits
    <3> QED BY <3>2, <3>4, <3>6, <3>9, <3>10, <3>11 DEF IInv
  <2> QED BY <2>4, <2>5
<1> QED BY <1>14, <1>15

(* The client when the device has started. *)
LEMMA FirstClient ==
    LET c == [file |-> CHOOSE f \in File : TRUE, frag |-> 0, file_size |-> 0,
              progress |-> 0, buf |-> <<>>, has_header |-> FALSE,
              connection_close |-> FALSE, len |-> 1]
    IN  ClientOK(c) /\ c.file \in File
<1> DEFINE g == CHOOSE f \in File : TRUE
           c == [file |-> g, frag |-> 0, file_size |-> 0,
                 progress |-> 0, buf |-> <<>>, has_header |-> FALSE,
                 connection_close |-> FALSE, len |-> 1]
<1>1. g \in File
  BY DfuAssumption
<1> HIDE DEF g
<1>2. <<>> \in Seq(Item) /\ Len(<<>>) = 0 /\ BUF_SIZE \in Nat /\ 0 \in 0 .. BUF_SIZE
  BY EmptySeq, ClientAssumption
<1>3. c \in ClientRecord
  BY <1>1, <1>2 DEF ClientRecord
<1>4. Len(c.buf) <= BUF_SIZE /\ c.progress <= Size[c.file] /\ c.file \in File
  BY <1>1, <1>2, ImageFacts
<1>5. ClientOK(c) /\ c.file \in File
  BY <1>3, <1>4 DEF ClientOK
<1> QED BY <1>5 DEF g

LEMMA FirstTarget ==
    /\ DfuOK(DfuInit) /\ DfuInit.current_target = "NULL"
    /\ \A f \in File : BankOf(DfuInit, f)
<1>1. <<>> \in Seq(Unit) /\ Len(<<>>) = 0
  BY EmptySeq
<1>2. DfuInit \in DfuState
  BY <1>1 DEF DfuInit, DfuState
<1>3. /\ DfuInit.img = 0
      /\ DfuInit.slot = <<>>
      /\ DfuInit.bank = <<>>
      /\ DfuInit.current_target = "NULL"
  BY DEF DfuInit
<1>4. \A f \in File : BankOf(DfuInit, f)
  BY <1>3, NoBank
<1> QED BY <1>1, <1>2, <1>3, <1>4 DEF DfuOK

LEMMA RebootedTarget ==
    ASSUME NEW d, DfuOK(d)
    PROVE  /\ DfuOK(Rebooted(d)) /\ Rebooted(d).current_target = "NULL"
           /\ Rebooted(d).bank = d.bank /\ Rebooted(d).misplaced = d.misplaced
           /\ Applied(Rebooted(d)) = {}
<1> DEFINE x == d.dirty \/ d.apply \/ \E f \in File : d.bank = Image(f)
           e == Rebooted(d)
<1>1. x \in BOOLEAN
  OBVIOUS
<1>2. e = [DfuInit EXCEPT !.slot = d.slot, !.saved = d.saved,
                          !.bank = d.bank, !.misplaced = d.misplaced, !.dirty = x]
  BY DEF Rebooted
<1> HIDE DEF x, e
<1>3. /\ DfuInit \in DfuState
      /\ DfuInit.current_target = "NULL"
      /\ DfuInit.img = 0
      /\ DfuInit.trailer = FALSE /\ DfuInit.apply = FALSE
  BY FirstTarget DEF DfuOK, DfuInit
<1>4. d \in DfuState
  BY DEF DfuOK
<1>5. /\ e \in DfuState /\ e.current_target = DfuInit.current_target /\ e.img = DfuInit.img
      /\ e.slot = d.slot /\ e.bank = d.bank /\ e.misplaced = d.misplaced
      /\ e.trailer = DfuInit.trailer /\ e.apply = DfuInit.apply
  BY <1>1, <1>2, <1>3, <1>4 DEF DfuState
<1>6. 0 <= Len(d.slot)
  BY <1>4, LenProperties DEF DfuState
<1>7. Applied(e) = {}
  BY <1>3, <1>5 DEF Applied
<1> QED BY <1>3, <1>5, <1>6, <1>7 DEF DfuOK, e

LEMMA InitKeeps ==
    ASSUME Init
    PROVE  IInv
<1>1. /\ sock = NoSock /\ suspended = TRUE /\ pc = "recv" /\ at = "none" /\ dfu = DfuInit
      /\ first_fragment = TRUE /\ socket_retries_left = 0 /\ dlc_with_offset_work = FALSE
      /\ status = "idle" /\ want = cl.file /\ files \in Devices
  BY DEF Init, ClientInit
<1>2. ClientType /\ cl.file \in File
  BY FirstClient DEF Init, ClientInit, ClientType
<1>3. SockType /\ Quiet
  BY <1>1, NewSocks DEF SockType, Quiet
<1>4. FotaType
  <2>1. 0 \in 0 .. FOTA_SOCKET_RETRIES
    BY FotaAssumption
  <2> QED BY <1>1, <1>2, <2>1 DEF FotaType
<1>5. /\ DfuType /\ dfu.current_target = "NULL"
      /\ \A f \in files : BankOf(dfu, f)
  BY <1>1, FirstTarget, FotaAssumption DEF DfuType
<1>6. ThreadType /\ ThreadPhase
  BY <1>1, <1>3 DEF ThreadType, ThreadPhase, Suspending
<1>7. Counting /\ TargetOfDevice /\ TargetWaits /\ WorkWaits /\ TargetCounts
  BY <1>1, <1>5 DEF Counting, TargetOfDevice, TargetWaits, WorkWaits, TargetCounts
<1> QED BY <1>2, <1>3, <1>4, <1>5, <1>6, <1>7 DEF IInv

LEMMA RebootKeeps ==
    ASSUME IInv, Reboot
    PROVE  IInv'
<1>1. /\ sock' = NoSock /\ suspended' = TRUE /\ pc' = "recv" /\ at' = "none" /\ dfu' = Rebooted(dfu)
      /\ first_fragment' = TRUE /\ socket_retries_left' = 0 /\ dlc_with_offset_work' = FALSE
      /\ status' = "idle" /\ want' = want /\ files' = files
  BY DEF Reboot
<1>2. ClientType'
  BY FirstClient DEF Reboot, ClientType
<1>3. SockType' /\ Quiet'
  BY <1>1, NewSocks DEF SockType, Quiet
<1>4. FotaType'
  <2>1. 0 \in 0 .. FOTA_SOCKET_RETRIES
    BY FotaAssumption
  <2> QED BY <1>1, <2>1 DEF IInv, FotaType
<1>5. /\ DfuType' /\ dfu'.current_target = "NULL"
      /\ dfu'.bank = dfu.bank /\ dfu'.misplaced = dfu.misplaced
  BY <1>1, RebootedTarget DEF IInv, DfuType
<1>6. ThreadType' /\ ThreadPhase'
  BY <1>1, <1>3 DEF ThreadType, ThreadPhase, Suspending
<1>7. Counting' /\ TargetWaits' /\ WorkWaits' /\ TargetCounts'
  BY <1>1, <1>5 DEF Counting, TargetWaits, WorkWaits, TargetCounts
<1>8. TargetOfDevice'
  BY <1>1, <1>5 DEF IInv, TargetOfDevice, BankOf
<1> QED BY <1>2, <1>3, <1>4, <1>5, <1>6, <1>7, <1>8 DEF IInv

-----------------------------------------------------------------------------
(* The invariant *)

LEMMA StepKeeps ==
    ASSUME IInv, FotaDiscipline, [Next]_vars
    PROVE  IInv'
<1>1. CASE ClientStep
  BY <1>1, ThreadKeeps, ClientStepKeeps DEF ClientStep
<1>2. CASE NetworkStep
  BY <1>2, NetworkKeeps, ClientStepKeeps DEF NetworkStep
<1>3. CASE UNCHANGED vars
  <2>1. UNCHANGED <<sock, cl, suspended, pc, at, evt, rc>> /\ UNCHANGED <<fotaVars, appVars>>
    BY <1>3 DEF vars, clientVars
  <2>2. Pending' = Pending /\ Quiet' = Quiet /\ Fragment(cl)' = Fragment(cl)
    BY <2>1 DEF Pending, Quiet, Fragment
  <2>3. SockType' /\ ClientType' /\ Kept
    BY <2>1, <2>2, StillKept
  <2>4. /\ status' = status
        /\ dlc_with_offset_work' = dlc_with_offset_work
        /\ first_fragment' = first_fragment
    BY <2>1 DEF fotaVars, appVars
  <2>5. ThreadType' /\ ThreadPhase'
    BY <2>1, <2>2, <2>4
       DEF IInv, ThreadType, ThreadPhase, Receiving, Calling, Returning, Suspending, SendingAgain
  <2> QED BY <2>1, <2>3, <2>5, ClientStepKeeps DEF ClientKept
<1> QED
  BY <1>1, <1>2, <1>3, FragmentKeeps, DoneKeeps, ErrorKeeps, OffsetKeeps, StartKeeps,
     RebootKeeps
     DEF Next

LEMMA Invariant ==
    ASSUME FotaDiscipline
    PROVE  Spec => []IInv
<1>1. Init => IInv
  BY InitKeeps
<1>2. IInv /\ [Next]_vars => IInv'
  <2> SUFFICES ASSUME IInv, [Next]_vars PROVE IInv'
    OBVIOUS
  <2> QED BY StepKeeps
<1> QED BY <1>1, <1>2, PTL DEF Spec

(* Every variable has its type: recv() never fills the buffer past its     *)
(* end, no more retries are made than configured, and the count of a       *)
(* download stays within its file or is the offset of a modem that could   *)
(* not be cleaned, whatever fails while files are downloaded. (The copy in *)
(* http_parse() that a request still in the buffer makes wrap around does  *)
(* leave the buffer; the thread is then "stuck".)                          *)
THEOREM TypeCorrect == FotaDiscipline => (Spec => []TypeOK)
<1> SUFFICES ASSUME FotaDiscipline PROVE Spec => []TypeOK
  OBVIOUS
<1>1. IInv => TypeOK
  <2> SUFFICES ASSUME IInv PROVE TypeOK
    OBVIOUS
  <2>1. sock.fd \in BOOLEAN /\ sock.open \in BOOLEAN
    BY DEF IInv, SockType, SockOK
  <2>2. /\ Len(cl.buf) <= BUF_SIZE
        /\ cl.file \in File
        /\ cl.file_size \in Nat
        /\ cl.progress \in Nat
        /\ cl.progress <= Size[cl.file] \/ cl.progress = DIRTY_IMAGE
        /\ Size[cl.file] \in Nat /\ DIRTY_IMAGE \in Nat
    BY ClientFields DEF IInv, ClientType, ClientOK
  <2>3. cl.progress <= Size[cl.file] + DIRTY_IMAGE
    BY <2>2
  <2>4. dfu \in DfuState
    BY DEF IInv, DfuType, DfuOK
  <2> QED BY <2>1, <2>2, <2>3, <2>4 DEF IInv, ThreadType, FotaType, TypeOK
<1> QED BY <1>1, Invariant, PTL

LEMMA HoldsPrefix ==
    ASSUME NEW s \in Seq(Unit), NEW f \in File, Holds(s, f, 0)
    PROVE  IsPrefix(s, Image(f))
<1> DEFINE im == Image(f)
           n == Len(s)
<1>1. /\ im \in Seq(Unit) /\ Len(im) = Size[f] /\ Size[f] \in Nat
      /\ \A i \in 1 .. Size[f] : im[i] = [file |-> f, at |-> i - 1]
  BY ImageFacts
<1>2. n \in Nat /\ n <= Size[f]
  <2>1. n \in Nat /\ 0 + n <= Size[f]
    BY LenProperties DEF Holds
  <2> QED BY <1>1, <2>1
<1>3. \A i \in 1 .. n : s[i] = [file |-> f, at |-> i - 1]
  <2>1. ASSUME NEW i \in 1 .. n PROVE s[i] = [file |-> f, at |-> i - 1]
    <3>1. s[i] = [file |-> f, at |-> 0 + i - 1] /\ 0 + i - 1 = i - 1
      BY <1>2 DEF Holds
    <3> QED BY <3>1
  <2> QED BY <2>1
<1>4. n = Len(s)
  OBVIOUS
<1> HIDE DEF im, n
<1> DEFINE a == SubSeq(s, 1, n)
           b == SubSeq(im, 1, n)
<1>5. a \in Seq(Unit) /\ Len(a) = n /\ \A j \in 1 .. n : a[j] = s[j]
  <2>1. /\ a \in Seq(Unit) /\ Len(a) = n - 1 + 1
        /\ \A j \in 1 .. n - 1 + 1 : a[j] = s[1 + j - 1]
    BY <1>2, <1>4, SubSeqFacts
  <2> HIDE DEF a
  <2> QED BY <1>2, <2>1
<1>6. b \in Seq(Unit) /\ Len(b) = n /\ \A j \in 1 .. n : b[j] = im[j]
  <2>1. /\ b \in Seq(Unit) /\ Len(b) = n - 1 + 1
        /\ \A j \in 1 .. n - 1 + 1 : b[j] = im[1 + j - 1]
    BY <1>1, <1>2, SubSeqFacts
  <2> HIDE DEF b
  <2> QED BY <1>2, <2>1
<1> HIDE DEF a, b
<1>7. \A j \in 1 .. n : a[j] = b[j]
  <2>1. ASSUME NEW j \in 1 .. n PROVE a[j] = b[j]
    <3>1. j \in 1 .. Size[f]
      BY <1>1, <1>2
    <3> QED BY <1>1, <1>3, <1>5, <1>6, <3>1
  <2> QED BY <2>1
<1>8. a = b
  BY <1>5, <1>6, <1>7, SeqEqual
<1> QED BY <1>1, <1>2, <1>4, <1>8 DEF IsPrefix, im, n, a, b

(* What the MCUboot target holds, in flash and in its buffer. *)
LEMMA SlotPrefix ==
    ASSUME NEW d, DfuOK(d), NEW f \in File, SlotHolds(d, f)
    PROVE  LET s == SubSeq(d.slot, 1, d.img) \o d.img_buf
           IN  s \in Seq(Unit) /\ Len(s) = d.img + Len(d.img_buf) /\ Holds(s, f, 0)
<1> DEFINE a == SubSeq(d.slot, 1, d.img)
<1>1. /\ d.slot \in Seq(Unit) /\ d.img \in Nat /\ d.img_buf \in Seq(Unit) /\ d.img <= Len(d.slot)
      /\ Len(d.img_buf) \in Nat /\ Size[f] \in Nat
  BY LenProperties, ImageFacts DEF DfuOK, DfuState
<1>2. /\ a \in Seq(Unit) /\ Len(a) = d.img - 1 + 1
      /\ \A j \in 1 .. d.img - 1 + 1 : a[j] = d.slot[1 + j - 1]
  BY <1>1, SubSeqFacts
<1> HIDE DEF a
<1>3. Len(a) = d.img /\ d.img + Len(d.img_buf) <= Size[f]
  BY <1>1, <1>2 DEF SlotHolds, Holds
<1>4. ASSUME NEW i \in 1 .. Len(a) PROVE a[i] = [file |-> f, at |-> 0 + i - 1]
  <2>1. /\ i \in 1 .. d.img /\ i \in 1 .. d.img - 1 + 1
        /\ 1 + i - 1 = i /\ 0 + i - 1 = i - 1
    BY <1>1, <1>3
  <2>2. a[i] = d.slot[i] /\ d.slot[i] = [file |-> f, at |-> i - 1]
    BY <1>2, <2>1 DEF SlotHolds, Starts
  <2> QED BY <2>1, <2>2
<1>5. Holds(a, f, 0)
  <2>1. 0 + Len(a) <= Size[f]
    BY <1>1, <1>3
  <2> QED BY <1>4, <2>1 DEF Holds
<1>6. Holds(d.img_buf, f, 0 + Len(a))
  <2>1. 0 + Len(a) = d.img
    BY <1>1, <1>3
  <2> QED BY <2>1 DEF SlotHolds
<1>7. /\ a \o d.img_buf \in Seq(Unit) /\ Len(a \o d.img_buf) = Len(a) + Len(d.img_buf)
      /\ Holds(a \o d.img_buf, f, 0)
  BY <1>1, <1>2, <1>5, <1>6, HoldsJoin
<1> QED BY <1>3, <1>7 DEF a

(* No fragment is lost, handed out twice or out of order, however often    *)
(* the connection is lost or reset, a request is repeated, a fragment is   *)
(* cut short by a timeout or a download is resumed: once the target is     *)
(* selected it holds exactly the start of the file that was asked for, as  *)
(* far as the download client has counted. The exception is a modem that   *)
(* refused data after the first, and got the rest in the wrong place.      *)
THEOREM DataKeptInOrder == FotaDiscipline => (Spec => []DataInOrder)
<1> SUFFICES ASSUME FotaDiscipline PROVE Spec => []DataInOrder
  OBVIOUS
<1>1. IInv => DataInOrder
  <2> SUFFICES ASSUME IInv, status = "active", ~ first_fragment, ~ dlc_with_offset_work,
                      pc # "stuck", ~ dfu.misplaced
               PROVE  /\ IsPrefix(Stored, Image(want))
                      /\ cl.progress # DIRTY_IMAGE => Len(Stored) = Offset
    BY DEF DataInOrder, Offset
  <2>1. want \in File /\ want \in files /\ Type[want] = dfu.current_target /\ DfuOK(dfu)
    BY DEF IInv, FotaType, Counting, TargetOfDevice, DfuType
  <2>2. CASE dfu.current_target = "MODEM"
    <3>1. Stored = dfu.bank
      BY <2>2 DEF Stored
    <3>2. dfu.bank \in Seq(Unit) /\ Holds(dfu.bank, want, 0)
      BY <2>1, <2>2 DEF IInv, TargetOfDevice, BankOf, DfuOK, DfuState
    <3>3. cl.progress # DIRTY_IMAGE => Len(dfu.bank) = Offset
      BY <2>2 DEF IInv, TargetCounts, Counts
    <3> QED BY <2>1, <3>1, <3>2, <3>3, HoldsPrefix
  <2>3. CASE dfu.current_target = "MCUBOOT"
    <3>1. Stored = SubSeq(dfu.slot, 1, dfu.img) \o dfu.img_buf
      BY <2>3 DEF Stored
    <3>2. SlotHolds(dfu, want) /\ dfu.img + Len(dfu.img_buf) = Offset
      BY <2>3 DEF IInv, TargetCounts
    <3>3. Stored \in Seq(Unit) /\ Len(Stored) = dfu.img + Len(dfu.img_buf) /\ Holds(Stored, want, 0)
      BY <2>1, <3>1, <3>2, SlotPrefix
    <3>4. IsPrefix(Stored, Image(want))
      BY <2>1, <3>3, HoldsPrefix
    <3> QED BY <3>2, <3>3, <3>4
  <2> QED BY <2>1, <2>2, <2>3 DEF IInv, TargetWaits, DfuOK, DfuState
<1> QED BY <1>1, Invariant, PTL

(* The library keeps its promise to the application: an update that was    *)
(* started is reported finished or failed once, finished only when what    *)
(* the slot or the modem then holds is the complete image of its file and  *)
(* is applied at the next boot (or the modem lost the start of it), and no *)
(* update makes another file than its own be applied, over earlier updates *)
(* that wrote the same slot.                                               *)
THEOREM UpdateImplemented == FotaDiscipline => (Spec => ImplementsUpdate)
<1> SUFFICES ASSUME FotaDiscipline PROVE Spec => ImplementsUpdate
  OBVIOUS
<1>1. Init => Update!Init
  <2> SUFFICES ASSUME Init PROVE Update!Init
    OBVIOUS
  <2>1. status = "idle" /\ dfu.misplaced = FALSE
    BY DEF Init, DfuInit
  <2>2. Applied(dfu) = {}
    BY DEF Init, DfuInit, Applied
  <2>3. want \in File
    BY InitKeeps DEF IInv, FotaType
  <2> QED BY <2>1, <2>2, <2>3 DEF Update!Init
<1>2. IInv /\ [Next]_vars => [Update!Next]_(Update!vars)
  <2> SUFFICES ASSUME IInv, [Next]_vars, ~ UNCHANGED <<status, want, Applied(dfu), dfu.misplaced>>
               PROVE  Update!Next
    BY DEF Update!vars
  <2>0. dfu'.misplaced \in BOOLEAN
    BY StepKeeps DEF IInv, DfuType, DfuOK, DfuState
  <2>1. CASE ClientStep \/ NetworkStep \/ UNCHANGED vars
    <3>1. status' = status /\ want' = want /\ dfu' = dfu
      BY <2>1 DEF ClientStep, NetworkStep, vars, fotaVars, appVars
    <3>2. Applied(dfu)' = Applied(dfu)
      BY <3>1 DEF Applied
    <3> QED BY <3>1, <3>2
  <2>2. CASE OnFragment \/ OnError
    <3>1. Works /\ status = "active"
      BY <2>2, FragmentKeeps, ErrorKeeps
    <3> QED
      BY <2>0, <3>1 DEF Works, Update!Next, Update!Fail, Update!Work, Update!Writes
  <2>3. CASE OnDone
    BY <2>0, <2>3, DoneKeeps DEF Update!Next, Update!Finish, Update!Fail, Update!Writes
  <2>4. CASE download_with_offset
    <3>1. status' = status /\ want' = want /\ dfu' = dfu
      BY <2>4 DEF download_with_offset, appVars
    <3>2. Applied(dfu)' = Applied(dfu)
      BY <3>1 DEF Applied
    <3> QED BY <3>1, <3>2
  <2>5. CASE fota_download_start
    <3>1. /\ status # "active" /\ dfu' = dfu
          /\ \/ status' = status /\ want' = want
             \/ status' = "active" /\ want' \in files
      BY <2>5 DEF fota_download_start, MayStart
    <3>2. files \subseteq File
      BY FotaAssumption DEF IInv, FotaType
    <3>3. Applied(dfu)' = Applied(dfu)
      BY <3>1 DEF Applied
    <3> QED BY <3>1, <3>2, <3>3 DEF Update!Next, Update!Start
  <2>6. CASE Reboot
    <3>1. status' = "idle" /\ dfu' = Rebooted(dfu) /\ want' = want
      BY <2>6 DEF Reboot
    <3>2. Applied(dfu') = {} /\ dfu'.misplaced = dfu.misplaced
      BY <3>1, RebootedTarget DEF IInv, DfuType
    <3> QED BY <3>1, <3>2 DEF Update!Next, Update!Reboot
  <2> QED BY <2>1, <2>2, <2>3, <2>4, <2>5, <2>6 DEF Next
<1> QED BY <1>1, <1>2, Invariant, PTL DEF Spec, ImplementsUpdate, Update!Spec
=============================================================================
