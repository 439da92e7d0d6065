------------------------------ MODULE Promise ------------------------------
(***************************************************************************)
(* What the backend promises the client that installs a system, and nothing*)
(* of how: a layout is prepared, calls are made one after the other, the   *)
(* root partition comes to carry the system-model and then the whole       *)
(* system, and the client is told so only when it does.  What it has been  *)
(* told stays true until it prepares a layout again.                       *)
(***************************************************************************)

VARIABLES
    told,     \* the last thing the client has been told
    carried,  \* what the root partition of its layout carries
    call      \* the call under way

promised == <<told, carried, call>>

Init ==
    /\ told = "nothing"
    /\ carried = "nothing"
    /\ call = "none"

\* A layout is applied: its partitions are empty.
Prepare ==
    /\ call = "none"
    /\ told' = "prepared"
    /\ carried' = "nothing"
    /\ UNCHANGED call

Begin ==
    /\ call = "none"
    /\ told \in {"prepared", "written"}
    /\ call' \in {"write", "install"}
    /\ UNCHANGED <<told, carried>>

\* The partition comes to carry the model, or, in an installation and not before
\* the model, the whole system.
Advance ==
    /\ \/ call # "none" /\ carried = "nothing" /\ carried' = "model"
       \/ call = "install" /\ carried = "model" /\ carried' = "system"
    /\ UNCHANGED <<told, call>>

\* Success is told of what is there.
Succeed ==
    /\ \/ call = "write" /\ carried # "nothing" /\ told' = "written"
       \/ call = "install" /\ carried = "system" /\ told' = "installed"
    /\ call' = "none"
    /\ UNCHANGED carried

\* A failure, during a call or before it begins, is always possible and ends the run.
Fail ==
    /\ call # "none" \/ told \in {"prepared", "written"}
    /\ told' = "nothing"
    /\ call' = "none"
    /\ UNCHANGED carried

Next == Prepare \/ Begin \/ Advance \/ Succeed \/ Fail

Spec == Init /\ [][Next]_promised

=============================================================================
