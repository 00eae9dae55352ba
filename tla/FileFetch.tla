------------------------------ MODULE FileFetch ------------------------------
(* What a download promises to its caller, however it goes about it: it       *)
(* answers once, and it answers "ok" only when the local file is the whole    *)
(* remote file (and has the checksum that was asked for).  While it works,    *)
(* the local file may go through any number of unfinished forms, and a failed *)
(* or rejected download may leave one behind.                                 *)

VARIABLES file,    \* "old": as it was; "dirty": unfinished; "whole"
          answer   \* what the caller was told

vars == <<file, answer>>

Init == file = "old" /\ answer = "pending"

Write ==
    /\ answer = "pending"
    /\ file' \in {"dirty", "whole"}
    /\ UNCHANGED answer

(* "rejected": no error, and a status that the caller has to look at.         *)
GiveUp ==
    /\ answer = "pending"
    /\ answer' \in {"rejected", "failed"}
    /\ UNCHANGED file

Succeed ==
    /\ answer = "pending" /\ file = "whole"
    /\ answer' = "ok"
    /\ UNCHANGED file

Next == Write \/ GiveUp \/ Succeed

SafeSpec == Init /\ [][Next]_vars

Spec == SafeSpec /\ <>(answer # "pending")
=============================================================================
