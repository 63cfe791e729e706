------------------------ MODULE MCMigrationRunner ------------------------
(***************************************************************************)
(* The three migrations of the repository, and an earlier working tree     *)
(* that had the first two.                                                 *)
(***************************************************************************)
EXTENDS MigrationRunner

MCFiles == <<"001", "002", "003">>
Current3 == {"001", "002", "003"}
Earlier2 == {"001", "002"}
CurrentOnly == {Current3}
BothCheckouts == {Current3, Earlier2}

Up(to) == [verb |-> "up", to |-> to, count |-> 1]
Down(count) == [verb |-> "down", to |-> "all", count |-> count]
DownTo(to) == [verb |-> "down", to |-> to, count |-> 1]
Reset == [verb |-> "reset", to |-> "all", count |-> 1]

AllCommands ==
    {Up("all"), Up("002"), Up("unknown"), Down(1), Down(2), DownTo("002"), Reset, NoCommand}
CountZero == {Up("all"), Down(0)}
===========================================================================
