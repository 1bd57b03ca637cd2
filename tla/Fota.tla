-------------------------------- MODULE Fota --------------------------------
(***************************************************************************)
(* Firmware update over the air: fota_download.c between the download      *)
(* client, whose callback it implements, and the DFU targets. The          *)
(* application starts updates and gets FINISHED or ERROR; the device may    *)
(* be reset at any time.                                                   *)
(***************************************************************************)
EXTENDS DownloadClient, SequencesExt

CONSTANTS
    FOTA_SOCKET_RETRIES,    \* CONFIG_FOTA_SOCKET_RETRIES
    Devices,                \* sets of files; a device is updated from one of them
    StartInCallback         \* the application starts an update from its event
                            \* handler, not only after the thread has stopped

ASSUME FotaAssumption ==
    /\ FOTA_SOCKET_RETRIES \in Nat
    /\ Devices \subseteq SUBSET File
    /\ StartInCallback \in BOOLEAN

VARIABLES
    dfu,                    \* the DFU targets
    first_fragment,         \* static of download_client_callback()
    socket_retries_left,
    dlc_with_offset_work,   \* the delayed work is scheduled
    status,                 \* what the application knows of its last update
    want,                   \* the file of the last update
    files                   \* the files this device is updated from

fotaVars == <<dfu, first_fragment, socket_retries_left, dlc_with_offset_work>>
appVars  == <<status, want, files>>
vars     == <<clientVars, fotaVars, appVars>>

Init ==
    /\ ClientInit
    /\ dfu = DfuInit
    /\ first_fragment = TRUE
    /\ socket_retries_left = 0
    /\ dlc_with_offset_work = FALSE
    /\ status = "idle"
    /\ want = cl.file
    /\ files \in Devices

-----------------------------------------------------------------------------
(* download_client_callback() *)

Return(err) == rc' = err /\ pc' = "return" /\ UNCHANGED <<suspended, at, cl>>
send_evt(id) == status' = id

\* A call that never returns keeps the thread in the callback.
NeverReturns(d) ==
    /\ dfu' = d
    /\ pc' = "stuck"
    /\ UNCHANGED <<suspended, at, cl, rc, sock, first_fragment, status, dlc_with_offset_work>>

\* dfu_target_write() of a fragment; on an error the target is freed and the
\* connection closed.
WriteFragment(d, data) ==
    \E w \in dfu_target_write(d, data) :
        IF w.err = "STUCK" THEN NeverReturns(w.d)
        ELSE IF w.err = "OK"
        THEN /\ dfu' = w.d
             /\ first_fragment' = FALSE
             /\ Return("OK")
             /\ UNCHANGED <<sock, status, dlc_with_offset_work>>
        ELSE \E r \in dfu_target_done(w.d, FALSE), c \in Disconnected(sock) :
             /\ dfu' = r.d
             /\ sock' = c.s
             /\ first_fragment' = TRUE
             /\ send_evt("error")
             /\ Return(w.err)
             /\ UNCHANGED dlc_with_offset_work

\* The first fragment selects the target. A target that already holds a part of
\* the image refuses the fragment, and a download from its offset is scheduled.
FirstFragment(data) ==
    \E i \in dfu_target_init(dfu, dfu_target_img_type(data), cl.file_size) :
        IF i.err = "STUCK" THEN NeverReturns(i.d)
        ELSE IF i.err # "OK"
        THEN \E r \in dfu_target_reset(i.d) :
             /\ dfu' = r.d
             /\ first_fragment' = TRUE
             /\ send_evt("error")
             /\ Return(i.err)
             /\ UNCHANGED <<sock, dlc_with_offset_work>>
        ELSE IF dfu_target_offset_get(i.d) # 0
        THEN /\ dfu' = i.d
             /\ first_fragment' = FALSE
             /\ dlc_with_offset_work' = TRUE
             /\ Return("REFUSED")
             /\ UNCHANGED <<sock, status>>
        ELSE WriteFragment(i.d, data)

OnFragment ==
    /\ Running("callback")
    /\ evt.id = "FRAGMENT"
    /\ IF first_fragment THEN FirstFragment(evt.data) ELSE WriteFragment(dfu, evt.data)
    /\ evt' = NoEvt
    /\ UNCHANGED <<socket_retries_left, want, files>>

\* The image is complete: the target is told, then the connection is closed.
OnDone ==
    /\ Running("callback")
    /\ evt.id = "DONE"
    /\ \E r \in dfu_target_done(dfu, TRUE) :
        /\ dfu' = r.d
        /\ IF r.err # "OK"
           THEN send_evt("error") /\ Return(r.err) /\ UNCHANGED <<sock, first_fragment>>
           ELSE \E c \in Disconnected(sock) :
                /\ sock' = c.s
                /\ IF c.err = "OK"
                   THEN send_evt("finished") /\ first_fragment' = TRUE /\ Return("OK")
                   ELSE send_evt("error") /\ Return(c.err) /\ UNCHANGED first_fragment
    /\ evt' = NoEvt
    /\ UNCHANGED <<socket_retries_left, dlc_with_offset_work, want, files>>

\* A mutant: the number of retries is not limited.
RetriesUnlimited == evt.error = "ECONNRESET"

MayRetry == socket_retries_left # 0 /\ evt.error = "ECONNRESET"

\* A lost connection is retried a number of times in an update; any other error
\* ends it.
OnError ==
    /\ Running("callback")
    /\ evt.id = "ERROR"
    /\ IF MayRetry
       THEN /\ socket_retries_left' = socket_retries_left - 1
            /\ Return("OK")
            /\ UNCHANGED <<sock, dfu, first_fragment, status>>
       ELSE \E c \in Disconnected(sock), r \in dfu_target_done(dfu, FALSE) :
            /\ sock' = c.s
            /\ dfu' = r.d
            /\ first_fragment' = TRUE
            /\ send_evt("error")
            /\ Return(evt.error)
            /\ UNCHANGED socket_retries_left
    /\ evt' = NoEvt
    /\ UNCHANGED <<dlc_with_offset_work, want, files>>

-----------------------------------------------------------------------------
(* Other contexts *)

\* download_with_offset(), in the system work queue: the result of the start is
\* only logged. The work is delayed by a second, for the thread to suspend.
download_with_offset ==
    /\ dlc_with_offset_work
    /\ "slow_thread" \in Faults \/ suspended
    /\ dlc_with_offset_work' = FALSE
    /\ LET c == StartedClient(cl, cl.file, dfu_target_offset_get(dfu))
       IN  IF ~ sock.fd THEN UNCHANGED <<sock, cl, suspended>>
           ELSE /\ cl' = c
                /\ \E r \in RequestSent(sock, c) :
                    /\ sock' = r.s
                    /\ "resume" \notin Faults => r.err = "OK"
                    /\ suspended' = IF r.err = "OK" THEN FALSE ELSE suspended
    /\ UNCHANGED <<pc, at, evt, rc, dfu, first_fragment, socket_retries_left, appVars>>

\* fota_download_start(), after the B1 file was selected. It returns an error,
\* or the update is under way.
MayStart == status # "active" /\ (StartInCallback \/ suspended)

fota_download_start ==
    /\ MayStart
    /\ \E f \in files, frag \in FragOverrides, k \in Connected(sock) :
        LET c == StartedClient([cl EXCEPT !.frag = IF sock.fd THEN @ ELSE frag], f, 0)
        IN  IF k.err # "OK"
            THEN sock' = k.s /\ UNCHANGED <<cl, suspended, status, want>>
            ELSE /\ cl' = c
                 /\ \E r \in RequestSent(k.s, c) :
                    IF r.err = "OK"
                    THEN /\ sock' = r.s
                         /\ suspended' = FALSE
                         /\ status' = "active"
                         /\ want' = f
                    ELSE /\ \E x \in Disconnected(r.s) : sock' = x.s
                         /\ UNCHANGED <<suspended, status, want>>
    /\ socket_retries_left' = FOTA_SOCKET_RETRIES
    /\ UNCHANGED <<pc, at, evt, rc, dfu, first_fragment, dlc_with_offset_work, files>>

\* The device is reset, by the application after FINISHED or at any time, and
\* fota_download_init() runs again.
Reboot ==
    /\ "reboot" \in Faults
    /\ sock' = NoSock
    /\ cl' = [file |-> CHOOSE f \in File : TRUE, frag |-> 0, file_size |-> 0,
              progress |-> 0, buf |-> <<>>, has_header |-> FALSE,
              connection_close |-> FALSE, len |-> 1]
    /\ suspended' = TRUE /\ pc' = "recv" /\ at' = "none"
    /\ evt' = NoEvt /\ rc' = "OK"
    /\ dfu' = Rebooted(dfu)
    /\ first_fragment' = TRUE
    /\ socket_retries_left' = 0
    /\ dlc_with_offset_work' = FALSE
    /\ status' = "idle"
    /\ UNCHANGED <<want, files>>

ClientStep == Thread /\ UNCHANGED <<fotaVars, appVars>>
NetworkStep == Network /\ UNCHANGED <<fotaVars, appVars>>

Next ==
    \/ ClientStep
    \/ NetworkStep
    \/ OnFragment \/ OnDone \/ OnError
    \/ download_with_offset
    \/ fota_download_start
    \/ Reboot

Spec == Init /\ [][Next]_vars

\* The threads run, the work queue runs its work, and a server that is asked
\* again and again answers. The application and resets are under no fairness.
Fairness ==
    /\ WF_vars(ClientStep)
    /\ WF_vars(OnFragment \/ OnDone \/ OnError)
    /\ WF_vars(download_with_offset)
    /\ SF_vars(ServerAnswers /\ UNCHANGED <<fotaVars, appVars>>)

FairSpec == Spec /\ Fairness

-----------------------------------------------------------------------------
(* Properties *)

\* Every variable has its type; recv() never fills the buffer past its end, no
\* more retries are made than configured, and what the download counts is
\* bounded by the file and the largest offset it may begin at. (The copy in
\* http_parse() whose length wraps around does leave the buffer: the thread is
\* then "stuck".)
TypeOK ==
    /\ sock.fd \in BOOLEAN /\ sock.open \in BOOLEAN
    /\ Len(cl.buf) <= BUF_SIZE
    /\ cl.file \in File /\ cl.file_size \in Nat
    /\ cl.progress \in Nat /\ cl.progress <= Size[cl.file] + DIRTY_IMAGE
    /\ suspended \in BOOLEAN
    /\ pc \in {"suspend", "recv", "callback", "return", "send_again", "stuck"}
    /\ dfu \in DfuState
    /\ first_fragment \in BOOLEAN
    /\ socket_retries_left \in 0..FOTA_SOCKET_RETRIES
    /\ dlc_with_offset_work \in BOOLEAN
    /\ status \in {"idle", "active", "finished", "error"}
    /\ want \in File

\* What the target has taken of the current image, buffered data included.
Stored == IF dfu.current_target = "MODEM" THEN dfu.bank
          ELSE SubSeq(dfu.slot, 1, dfu.img) \o dfu.img_buf

\* Data the client has counted in its progress and not yet handed out.
Pending == IF cl.has_header /\ (pc = "recv" \/ (pc = "callback" /\ evt.id = "FRAGMENT"))
           THEN Len(cl.buf) ELSE 0

\* Once the target has been selected, it holds exactly the start of the file
\* that was asked for, as far as the download has counted: no fragment is lost,
\* handed out twice or out of order over reconnections, timeouts, partial
\* fragments and resumed downloads. (While a resumed download is being
\* scheduled the client still counts the refused fragment, and a download from
\* DIRTY_IMAGE, when the old patch could not be deleted, gets no data. A modem
\* that refuses data after the first makes the target delete the patch and go
\* on in the middle of the file: data and offset disagree from there on, and
\* the property is about all other updates.)
DataInOrder ==
    status = "active" /\ pc # "stuck" /\ ~ dfu.misplaced
        /\ ~ first_fragment /\ ~ dlc_with_offset_work =>
        /\ IsPrefix(Stored, Image(want))
        /\ cl.progress # DIRTY_IMAGE => Len(Stored) = cl.progress - Pending

\* An update that was started is reported FINISHED or ERROR, unless the thread
\* hangs in a call that never returns: the copy of http_parse(), the deletion of
\* a patch the modem never ends, data the modem refuses again and again.
UpdateReported == (status = "active") ~> (status # "active" \/ pc = "stuck")

\* An update is reported once, and FINISHED only when the complete image of its
\* file is applied at the next boot, by the target for its type, over earlier
\* updates that wrote the same slot, failures at any step and resets: the
\* library implements FotaUpdate.
Update == INSTANCE FotaUpdate WITH tags <- Applied(dfu), spoilt <- dfu.misplaced
ImplementsUpdate == Update!Spec
=============================================================================
