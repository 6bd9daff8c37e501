--------------------------- MODULE InstallContract ---------------------------
(***************************************************************************)
(* What the installer promises, apart from how: it ends, with one verdict; *)
(* it calls the install a success only when the whole system is there; and *)
(* what a free-space install added is taken back after a failure and never *)
(* after a success.                                                        *)
(***************************************************************************)
VARIABLES
    protected, \* a free-space install; otherwise a full-disk one
    verdict,  \* "none", "success" or "failure"
    disk      \* "before", "partial", "whole" or "reverted"

vars == <<protected, verdict, disk>>

(* The configurator hands a free-space install its partitions. *)
Init ==
    /\ protected \in BOOLEAN /\ verdict = "none"
    /\ disk = IF protected THEN "partial" ELSE "before"

Change ==
    /\ verdict = "none" /\ disk = "before"
    /\ disk' = "partial" /\ UNCHANGED <<protected, verdict>>

Complete ==
    /\ verdict = "none" /\ disk = "partial"
    /\ disk' = "whole" /\ UNCHANGED <<protected, verdict>>

Succeed ==
    /\ verdict = "none" /\ disk = "whole"
    /\ verdict' = "success" /\ UNCHANGED <<protected, disk>>

Fail ==
    /\ verdict = "none"
    /\ verdict' = "failure" /\ UNCHANGED <<protected, disk>>

Revert ==
    /\ verdict = "failure" /\ protected
    /\ disk' = "reverted" /\ UNCHANGED <<protected, verdict>>

Next == Change \/ Complete \/ Succeed \/ Fail \/ Revert

Spec == Init /\ [][Next]_vars /\ WF_vars(Succeed \/ Fail)

(* Every install ends with a verdict. *)
Ends == <>(verdict # "none")
=============================================================================
