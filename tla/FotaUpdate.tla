----------------------------- MODULE FotaUpdate -----------------------------
(***************************************************************************)
(* What a firmware update promises to the application: an update that was  *)
(* started is reported once, as finished only when its image is applied at *)
(* the next boot, and no update makes another file than its own be applied.*)
(* An update may keep an earlier one, not yet applied, from being applied. *)
(***************************************************************************)
CONSTANT File

VARIABLES
    status,     \* "idle", "active", "finished" or "error"
    want,       \* the file of the last update
    tags,       \* the files whose complete image is applied at the next boot
    spoilt      \* the place of the image has lost the start of it

vars == <<status, want, tags, spoilt>>

Init ==
    /\ status = "idle"
    /\ want \in File
    /\ tags = {}
    /\ spoilt = FALSE

\* An update starts when no other one is under way.
Start ==
    /\ status # "active"
    /\ status' = "active"
    /\ want' \in File
    /\ UNCHANGED <<tags, spoilt>>

\* What an update may do to what is applied at the next boot.
Writes ==
    /\ status = "active"
    /\ tags' \subseteq tags \cup {want}
    /\ UNCHANGED want

Work == Writes /\ status' = status /\ spoilt' \in BOOLEAN

\* It is reported finished once its image is to be applied.
Finish ==
    /\ Writes
    /\ status' = "finished"
    /\ ~ spoilt => want \in tags'
    /\ UNCHANGED spoilt

\* It is reported as failed; the image may be applied all the same.
Fail == Writes /\ status' = "error" /\ spoilt' \in BOOLEAN

Reboot ==
    /\ status' = "idle"
    /\ tags' = {}
    /\ UNCHANGED <<want, spoilt>>

Next == Start \/ Work \/ Finish \/ Fail \/ Reboot

Spec == Init /\ [][Next]_vars
=============================================================================
