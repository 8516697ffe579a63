----------------------------- MODULE MCStartup -----------------------------
(* Startup with small bounds. *)
EXTENDS Startup

MCSeedVersions == {1, 3}
=============================================================================
