------------------------------- MODULE MCFota -------------------------------
EXTENDS Fota

\* Two application images, one modem patch and a file that is neither.
MCType == [f \in File |-> CASE f \in {"app", "app2"} -> "MCUBOOT" [] f = "patch" -> "MODEM" [] OTHER -> "OTHER"]
MCSize == [f \in File |-> CASE f \in {"app2", "other"} -> 1 [] OTHER -> 3]
=============================================================================
