--------------------------- MODULE MCScrcpyLaunch ---------------------------
(* A launch that shares two slots and three places with other commands. *)
EXTENDS ScrcpyLaunch

AllIssuers == {"main", "jars", "ui", "scan"}
OtherIssuers == {"ui", "scan"}
Lanes == [main |-> "default", jars |-> "default", ui |-> "interactive", scan |-> "background"]
=============================================================================
