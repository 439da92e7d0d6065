---------------------------- MODULE MCNavigation ----------------------------
(***************************************************************************)
(* Navigation over every order of up to four registered steps and an id    *)
(* no plugin is registered under.                                          *)
(***************************************************************************)
EXTENDS Navigation, TLC

CONSTANTS storage, locale, accounts, summary, unknown

MCRegistered == {storage, locale, accounts, summary}
MCId == MCRegistered \cup {unknown}

Interchangeable == Permutations(MCRegistered)

=============================================================================
