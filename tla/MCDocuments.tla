----------------------------- MODULE MCDocuments -----------------------------
(***************************************************************************)
(* Documents with a full model, one with neither root password nor user,   *)
(* and one with an account without a real name.                            *)
(***************************************************************************)
EXTENDS Documents, TLC

CONSTANTS a, b, empty, absent, kernel, editor

MCText == {a, b, empty}
MCPackage == {kernel, editor}

\* An import must have the kernel, and with desktop a the editor, too.
MCMandatory == [d \in MCText |-> IF d = a THEN {kernel, editor} ELSE {kernel}]

MCDefaultOf == [f \in Field |-> IF f \in {"locale", "timezone"} THEN a ELSE empty]

Model(desktop, packages, root, user) ==
    [text |-> [strategy |-> a, disk |-> b, locale |-> b, timezone |-> a, desktop |-> desktop],
     packages |-> packages, root |-> root, user |-> user, imported |-> FALSE]

MCCollected ==
    {Model(a, <<kernel, editor>>, a, [name |-> a, realname |-> b, hash |-> a]),
     Model(b, <<editor, kernel>>, absent, absent),
     Model(empty, <<kernel>>, absent, [name |-> b, realname |-> empty, hash |-> b])}

=============================================================================
