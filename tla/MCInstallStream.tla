--------------------------- MODULE MCInstallStream ---------------------------
(***************************************************************************)
(* InstallStream with one silent command before the streamed one (moss     *)
(* repo update and moss sync): the worker meets a full channel in both.    *)
(***************************************************************************)
EXTENDS InstallStream

MCCommands == <<"run", "stream">>

=============================================================================
