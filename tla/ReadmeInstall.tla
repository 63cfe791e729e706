-------------------------- MODULE ReadmeInstall --------------------------
(***************************************************************************)
(* The other way migrations are applied: README.md hands the migration     *)
(* file to psql, beside the runner of migrate.ts.  To psql "-- DOWN" is a  *)
(* comment, so it runs both halves of the file, each statement committed   *)
(* by itself.                                                              *)
(***************************************************************************)
EXTENDS MigrationRunner

CONSTANT Installed      \* the file handed to psql, one of Names

VARIABLE psql           \* not run | up done | finished

installVars == <<vars, psql>>

\* The CREATE statements, down to the "-- DOWN" line.
PsqlUpHalf ==
    /\ psql = "not run"
    /\ tables' = tables \cup {Installed}
    /\ psql' = "up done"

\* The DROP statements after it.
PsqlDownHalf ==
    /\ psql = "up done"
    /\ tables' = tables \ {Installed}
    /\ psql' = "finished"

Psql ==
    /\ PsqlUpHalf \/ PsqlDownHalf
    /\ UNCHANGED <<checkout, schema, table, tracked, nextId, runners, issued, orderly>>

InstallInit == Init /\ psql = "not run"

InstallNext == Psql \/ (Next /\ UNCHANGED psql)

InstallSpec == InstallInit /\ [][InstallNext]_installVars

---------------------------------------------------------------------------

\* README.md says "Apply the migration: psql $DATABASE_URL -f
\* migrations/001_create_logs_requests.sql": once psql is through and no
\* migrate command was ever issued, the migration is applied.
ReadmeInstallApplies ==
    psql = "finished" /\ issued = 0 => Installed \in tables
===========================================================================
