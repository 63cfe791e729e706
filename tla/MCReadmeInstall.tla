------------------------- MODULE MCReadmeInstall -------------------------
EXTENDS ReadmeInstall

MCFiles == <<"001", "002", "003">>
MCCheckouts == {{"001", "002", "003"}}
MCCommands == {[verb |-> "up", to |-> "all", count |-> 1]}
===========================================================================
