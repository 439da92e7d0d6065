---------------------------- MODULE MCSelections ----------------------------
(***************************************************************************)
(* Selections with the definitions of data/selections, as they are and     *)
(* after one of them has gained one dependency, on any name: that makes    *)
(* circles, shared dependencies and names without a definition.            *)
(***************************************************************************)
EXTENDS Selections, TLC

MCImplicit == <<"kernel-common", "kernel-desktop">>

Shipped ==
    ("base" :> <<>>) @@ ("desktop-common" :> <<"base">>) @@ ("develop" :> <<"base">>)
      @@ ("server" :> <<"base">>) @@ ("cosmic" :> <<"desktop-common">>)
      @@ ("gnome" :> <<"desktop-common">>) @@ ("plasma" :> <<"desktop-common">>)
      @@ ("windowmanager" :> <<"desktop-common">>) @@ ("kernel-common" :> <<>>)
      @@ ("kernel-desktop" :> <<"kernel-common">>)

MCDefinitions ==
    {Shipped} \cup
    {[Shipped EXCEPT ![s] = Append(@, n)] :
        s \in {"base", "server", "gnome", "kernel-common"},
        n \in {"base", "gnome", "develop", "kernel-desktop", "missing"}}

\* One package of its own for each selection, and one that two of them share.
MCPackagesOf ==
    [s \in Selection |-> {s} \cup IF s \in {"server", "desktop-common"} THEN {"networkmanager"} ELSE {}]
=============================================================================
