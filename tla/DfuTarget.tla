----------------------------- MODULE DfuTarget -----------------------------
(***************************************************************************)
(* The DFU targets of subsys/dfu: target selection (dfu_target.c), the     *)
(* MCUboot target (dfu_target_mcuboot.c) over Zephyr's flash_img stream,   *)
(* and the modem target (dfu_target_modem.c) over the modem's DFU socket.  *)
(*                                                                         *)
(* All calls come from one thread at a time, so the component is a set of  *)
(* operators on its state d: each gives the outcomes of a call, records    *)
(* with the new state and the return value.                                *)
(***************************************************************************)
EXTENDS Integers, Sequences, FiniteSets

CONSTANTS
    File,           \* firmware files
    Type,           \* image type of a file: "MCUBOOT", "MODEM" or "OTHER"
    Size,           \* size of a file, in units of data
    SLOT_SIZE,      \* PM_MCUBOOT_SECONDARY_SIZE
    SCRATCH_SIZE,   \* SO_DFU_RESOURCES: room for a patch in the modem
    IMG_BLOCK,      \* CONFIG_IMG_BLOCK_BUF_SIZE: flash_img writes whole blocks
    DIRTY_IMAGE,    \* the offset of a modem that holds an old patch
    Faults          \* what the environment may make fail

ASSUME DfuAssumption ==
    /\ File # {}
    /\ Type \in [File -> {"MCUBOOT", "MODEM", "OTHER"}]
    /\ Size \in [File -> Nat \ {0}]
    /\ SLOT_SIZE \in Nat \ {0} /\ SCRATCH_SIZE \in Nat \ {0}
    /\ IMG_BLOCK \in Nat \ {0}
    /\ DIRTY_IMAGE \in Nat /\ \A f \in File : Size[f] < DIRTY_IMAGE

\* A unit of data: the i-th of a file.
Unit == [file : File, at : Nat]

\* The contents of a file, and a part of it.
Image(f) == [i \in 1..Size[f] |-> [file |-> f, at |-> i - 1]]
Part(f, from, to) == SubSeq(Image(f), from + 1, to)

(***************************************************************************)
(* State of the component.                                                 *)
(*   current_target     dfu_target.c                                       *)
(*   img, img_buf       flash_img: data written to the slot, data buffered *)
(*   slot, saved        in flash: slot contents written so far, progress   *)
(*                      in settings                                        *)
(*   fd, offset         dfu_target_modem.c                                 *)
(*   bank, dirty        in the modem: the patch received so far, and an    *)
(*                      old patch that has to be deleted first             *)
(*   misplaced          the start of the patch was deleted while the rest  *)
(*                      was being sent                                     *)
(*   trailer, apply     what was requested for the next boot: the trailer  *)
(*                      of the slot, SO_DFU_APPLY                          *)
(***************************************************************************)
DfuState == [current_target : {"NULL", "MCUBOOT", "MODEM"},
             img : Nat, img_buf : Seq(Unit), slot : Seq(Unit), saved : Nat,
             fd : BOOLEAN, offset : Nat, bank : Seq(Unit), dirty : BOOLEAN,
             misplaced : BOOLEAN, trailer : BOOLEAN, apply : BOOLEAN]

DfuInit == [current_target |-> "NULL", img |-> 0, img_buf |-> <<>>,
            slot |-> <<>>, saved |-> 0, fd |-> FALSE, offset |-> 0,
            bank |-> <<>>, dirty |-> FALSE, misplaced |-> FALSE,
            trailer |-> FALSE, apply |-> FALSE]

\* The outcome of a call; one with the result "STUCK" never returns.
Ret(d, err) == [d |-> d, err |-> err]
May(fault, outcomes) == IF fault \in Faults THEN outcomes ELSE {}

-----------------------------------------------------------------------------
(* MCUboot target *)

\* flash_img_init() of Zephyr: an empty stream at the start of the slot.
flash_img_init(d) == [d EXCEPT !.img = 0, !.img_buf = <<>>]

\* flash_img_buffered_write() of Zephyr: whole blocks go to flash, the rest
\* stays in RAM until it is flushed. The flush erases the page of the trailer
\* (CONFIG_IMG_ERASE_PROGRESSIVELY). A flash error writes nothing.
flash_img_buffered_write(d, data, flush) ==
    LET all  == d.img_buf \o data
        n    == IF flush THEN Len(all) ELSE Len(all) - (Len(all) % IMG_BLOCK)
        slot == SubSeq(d.slot, 1, d.img) \o SubSeq(all, 1, n) \o
                SubSeq(d.slot, d.img + n + 1, Len(d.slot))
    IN  IF d.img + n > SLOT_SIZE
        THEN {Ret(d, "ENOSPC")}
        ELSE {Ret([d EXCEPT !.slot = slot, !.img = d.img + n, !.trailer = @ /\ ~ flush,
                            !.img_buf = SubSeq(all, n + 1, Len(all))], "OK")}
             \cup May("flash", {Ret(d, "EIO")})

\* The progress in settings; failing to save it is not an error.
store_flash_img_context(d) ==
    {[d EXCEPT !.saved = d.img]} \cup May("settings", {d})

\* settings_load() calls settings_set(), which reads the saved progress into
\* a local variable: the state of the target does not change. flash_img_init()
\* fails when the flash area cannot be opened, and leaves the stream as it was.
dfu_target_mcuboot_init(d, file_size) ==
    LET i == flash_img_init(d)
    IN  May("flash_open", {Ret(d, "EIO")})
        \cup IF file_size > SLOT_SIZE THEN {Ret(i, "EFBIG")}
             ELSE {Ret(i, "OK")} \cup May("settings", {Ret(i, "ESETTINGS")})

dfu_target_mcuboot_write(d, data) ==
    UNION {IF w.err # "OK" THEN {w}
           ELSE {Ret(s, "OK") : s \in store_flash_img_context(w.d)} :
               w \in flash_img_buffered_write(d, data, FALSE)}

\* flash_img_init() fails here only if it failed in dfu_target_mcuboot_init(),
\* for the area is looked up in a table: then nothing was written, and the
\* stream is at its start anyway.
reset_flash_context(d) == store_flash_img_context(flash_img_init(d))

\* boot_request_upgrade() of MCUboot writes the trailer of the slot: what the
\* slot holds at the next boot is applied, if it is an image.
boot_request_upgrade(d) ==
    {Ret([d EXCEPT !.trailer = TRUE], "OK")}
    \cup May("boot_request", {Ret(d, "EIO")})

\* A mutant: the last block stays in RAM.
NotFlushed(d) == {Ret(d, "OK")}

Flushed(d) == flash_img_buffered_write(d, <<>>, TRUE)

dfu_target_mcuboot_done(d, successful) ==
    LET ended == IF ~ successful THEN {Ret(d, "OK")}
                 ELSE UNION {IF w.err # "OK" THEN {w}
                             ELSE boot_request_upgrade(w.d) : w \in Flushed(d)}
    IN  UNION {{Ret(s, e.err) : s \in reset_flash_context(e.d)} : e \in ended}

-----------------------------------------------------------------------------
(* Modem target *)

\* Deletes the patch in the modem. A failure to start the deletion leaves
\* everything as it was; the loop that polls the offset until the modem has
\* erased has no end of its own.
delete_banked_modem_fw(d) ==
    {Ret([d EXCEPT !.bank = <<>>, !.dirty = FALSE, !.offset = 0,
                   !.misplaced = FALSE, !.apply = FALSE], "OK")}
    \cup May("modem", {Ret(d, "EFAULT")})
    \cup May("erase", {Ret([d EXCEPT !.dirty = TRUE], "STUCK")})

\* What SO_DFU_OFFSET reads from the modem.
modem_offset(d) == IF d.dirty THEN DIRTY_IMAGE ELSE Len(d.bank)

\* The socket is opened again on every call; the offset is the modem's. The
\* result of the deletion is not looked at. (A patch with nothing in it has
\* lost nothing.)
dfu_target_modem_init(d, file_size) ==
    LET opened == [d EXCEPT !.fd = TRUE]
        at     == [opened EXCEPT !.offset = modem_offset(d),
                                 !.misplaced = @ /\ d.bank # <<>>]
    IN  May("modem", {Ret([d EXCEPT !.fd = FALSE], "ESOCKET"), Ret(opened, "EVERSION")})
        \cup IF file_size > SCRATCH_SIZE THEN {Ret(opened, "EFBIG")}
             ELSE IF at.offset = DIRTY_IMAGE
             THEN {IF r.err = "STUCK" THEN r ELSE Ret(r.d, "OK") :
                       r \in delete_banked_modem_fw(at)}
             ELSE {Ret(at, "OK")}

\* send() to the modem appends to the patch; only a complete one moves offset.
modem_send(d, data) ==
    LET appended(n) == [d EXCEPT !.bank = @ \o SubSeq(data, 1, n)]
    IN  {Ret([appended(Len(data)) EXCEPT !.offset = @ + Len(data)], "OK")}
        \cup May("modem", {Ret(appended(n), "EFAULT") : n \in 0..Len(data) - 1})

\* The modem refuses the data (DFU_INVALID_FILE_OFFSET, DFU_AREA_NOT_BLANK): the
\* patch is deleted, whatever it holds, and the same data sent again, whether
\* the deletion failed or not. As long as the modem refuses, this has no end.
modem_send_again(d, data) ==
    UNION {LET again == [r.d EXCEPT !.misplaced = d.misplaced \/ r.d.bank # d.bank]
           IN  {Ret(again, "STUCK")}
               \cup IF r.err = "STUCK" THEN {}
                    ELSE {IF w.err = "OK" THEN w ELSE Ret(w.d, "EINVAL") :
                              w \in modem_send(again, data)} :
               r \in delete_banked_modem_fw(d)}

dfu_target_modem_write(d, data) ==
    IF ~ d.fd THEN {Ret(d, "EFAULT")}
    ELSE modem_send(d, data) \cup May("refused", modem_send_again(d, data))

\* apply_modem_upgrade() returns 0 when SO_DFU_APPLY fails.
apply_modem_upgrade(d) ==
    {[d EXCEPT !.apply = TRUE]} \cup May("apply", {d})

dfu_target_modem_done(d, successful) ==
    LET ended == IF successful THEN apply_modem_upgrade(d) ELSE {d}
    IN  UNION {IF e.fd THEN {Ret([e EXCEPT !.fd = FALSE], "OK")}
                            \cup May("modem_close", {Ret(e, "ECLOSE")})
               ELSE {Ret(e, "ECLOSE")} : e \in ended}

-----------------------------------------------------------------------------
(* Target selection *)

\* The first unit of a file holds the magic that tells its type.
dfu_target_img_type(data) ==
    IF Head(data).at = 0 THEN Type[Head(data).file] ELSE "OTHER"

target_init(d, file_size) ==
    IF d.current_target = "MCUBOOT"
    THEN dfu_target_mcuboot_init(d, file_size)
    ELSE dfu_target_modem_init(d, file_size)

\* A target that was aborted is not initialized again, to continue where it
\* left off; the modem's socket has to be opened again.
dfu_target_init(d, img_type, file_size) ==
    IF img_type = "OTHER" THEN {Ret(d, "ENOTSUP")}
    ELSE IF img_type = d.current_target /\ img_type # "MODEM" THEN {Ret(d, "OK")}
    ELSE target_init([d EXCEPT !.current_target = img_type], file_size)

\* Only called when current_target is set: the callers return otherwise.
dfu_target_offset_get(d) ==
    IF d.current_target = "MCUBOOT" THEN d.img ELSE d.offset

dfu_target_write(d, data) ==
    CASE d.current_target = "NULL"    -> {Ret(d, "EACCES")}
      [] d.current_target = "MCUBOOT" -> dfu_target_mcuboot_write(d, data)
      [] d.current_target = "MODEM"   -> dfu_target_modem_write(d, data)

target_done(d, successful) ==
    IF d.current_target = "MCUBOOT"
    THEN dfu_target_mcuboot_done(d, successful)
    ELSE dfu_target_modem_done(d, successful)

dfu_target_done(d, successful) ==
    IF d.current_target = "NULL" THEN {Ret(d, "EACCES")}
    ELSE {IF r.err = "OK" /\ successful
          THEN Ret([r.d EXCEPT !.current_target = "NULL"], "OK")
          ELSE r : r \in target_done(d, successful)}

dfu_target_reset(d) ==
    IF d.current_target = "NULL" THEN {Ret(d, "OK")}
    ELSE {IF r.err = "OK" THEN Ret([r.d EXCEPT !.current_target = "NULL"], "OK")
          ELSE r : r \in target_done(d, FALSE)}

\* The files whose image is applied at the next boot: the bootloader and the
\* modem look at the slot and the patch as they are then, and apply an image
\* only if it is complete.
Applied(d) ==
    {f \in File :
        \/ /\ Type[f] = "MCUBOOT" /\ d.trailer
           /\ Len(d.slot) >= Size[f] /\ SubSeq(d.slot, 1, Size[f]) = Image(f)
        \/ Type[f] = "MODEM" /\ d.apply /\ d.bank = Image(f)}

\* A reset of the device: RAM is lost, flash and modem keep their contents. The
\* bootloader and the modem apply what was requested; a patch that was to be
\* applied or is complete has to be deleted before the next one. (What the
\* bootloader puts in the slot it has emptied is overwritten by the next image.)
Rebooted(d) ==
    [DfuInit EXCEPT
        !.slot = d.slot, !.saved = d.saved,
        !.bank = d.bank, !.misplaced = d.misplaced,
        !.dirty = d.dirty \/ d.apply \/ \E f \in File : d.bank = Image(f)]
=============================================================================
