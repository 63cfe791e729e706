------------------------- MODULE MigrationRunner -------------------------
(***************************************************************************)
(* migrate.ts: tracked up and down migrations, run by any number of        *)
(* operators at once (nothing locks them out).  A command ensures the      *)
(* schema and the _migrations table, reads what is applied, works out its  *)
(* list from that reading, and then runs one transaction per migration.    *)
(* The steps are cut at the awaits; a process may die at any of them, and  *)
(* PostgreSQL then rolls its transaction back.                             *)
(*                                                                         *)
(* The tables of a migration exist or not: every file creates them with IF *)
(* NOT EXISTS and drops them with IF EXISTS.  Transactions on the same     *)
(* migration wait for each other on its tables' locks, and DROP SCHEMA     *)
(* waits for every open transaction.                                       *)
(***************************************************************************)
EXTENDS Ordering, Sequences

CONSTANTS
    Runners,        \* processes
    Files,          \* every migration there has ever been, in name order
    Checkouts,      \* the sets of them a working tree may hold
    Commands,       \* the commands issued; see Command
    MaxCommands     \* bound: commands issued in a behaviour

Names == {Files[i] : i \in DOMAIN Files}

\* to: the file --to resolves to, "all" without it, "unknown" if no file or
\* more than one has the prefix.  count: what parseInt made of the argument.
Command ==
    [ verb : {"up", "down", "status", "reset"},
      to : Names \cup {"all", "unknown"}, count : Int ]

ASSUME RunnerAssumption ==
    /\ Files \in Seq(STRING)
    /\ \A i, j \in DOMAIN Files : Files[i] = Files[j] => i = j
    /\ Names \cap {"all", "unknown"} = {}
    /\ \A checkout \in Checkouts : checkout \subseteq Names
    /\ Commands \subseteq Command
    /\ MaxCommands \in Nat

VARIABLES
    checkout,   \* the .sql files in the migrations directory
    schema,     \* the schema exists
    table,      \* the _migrations table exists
    tracked,    \* its rows, [id, name]
    nextId,     \* its SERIAL sequence
    tables,     \* the migrations whose tables exist
    runners,    \* per process: pc, command, the files it loaded, its list, the
                \* id it inserted, and (history) the migrations it committed
    issued,     \* commands issued so far
    orderly     \* history: no down or reset ever ran beside another command,
                \* nor a down over files that are missing

database == <<schema, table, tracked, nextId, tables>>
vars == <<checkout, database, runners, issued, orderly>>

NoCommand == [verb |-> "status", to |-> "all", count |-> 1]
Idle == [ pc |-> "idle", command |-> NoCommand, files |-> {}, todo |-> << >>,
          id |-> 0, done |-> {} ]

---------------------------------------------------------------------------
(* Lists of migrations *)

InNameOrder(names) == EntriesAt(Files, {i \in DOMAIN Files : Files[i] \in names})

IndexIn(name, s) == CHOOSE i \in DOMAIN s : s[i] = name
Reversed(s) == [i \in DOMAIN s |-> s[Len(s) + 1 - i]]

\* Array.prototype.slice(start): a negative start counts from the end, and
\* -0 and NaN are 0.
slice(s, start) ==
    LET from == IF start >= 0 THEN start
                ELSE IF Len(s) + start < 0 THEN 0 ELSE Len(s) + start
    IN  SubSeq(s, from + 1, Len(s))

TrackedNames == {row.name : row \in tracked}

\* SELECT name FROM _migrations ORDER BY id
getApplied ==
    LET ids == Ascending({row.id : row \in tracked}) IN
    [k \in DOMAIN ids |-> (CHOOSE row \in tracked : row.id = ids[k]).name]

\* loadMigrations sorts the files by name; those that are applied are left out.
Pending(applied) == InNameOrder(checkout \ {applied[i] : i \in DOMAIN applied})

ToApply(command) ==
    LET pending == Pending(getApplied) IN
    CASE command.to = "all" -> pending
      [] \E i \in DOMAIN pending : pending[i] = command.to ->
            SubSeq(pending, 1, IndexIn(command.to, pending))
      [] OTHER -> << >>

LastApplied_OneMore(applied, count) == slice(applied, -count - 1)   \* mutant
LastApplied(applied, count) == slice(applied, -count)

ToRollBack(command) ==
    LET applied == getApplied IN
    CASE command.to = "all" -> Reversed(LastApplied(applied, command.count))
      [] command.to \in TrackedNames ->
            Reversed(slice(applied, IndexIn(command.to, applied) - 1))
      [] OTHER -> << >>

---------------------------------------------------------------------------
(* A command *)

Becomes(r, pc) == runners' = [runners EXCEPT ![r].pc = pc]
Ends(r) == runners' = [runners EXCEPT ![r].pc = "idle", ![r].todo = << >>, ![r].id = 0]

\* On to the next migration of the list.
Advances(r, done) ==
    runners' = [runners EXCEPT
        ![r].pc = IF Len(runners[r].todo) = 1 THEN "idle" ELSE "begin",
        ![r].todo = Tail(@), ![r].id = 0, ![r].done = @ \cup done]

At(r, pc) == runners[r].pc = pc
Verb(r) == runners[r].command.verb

Issue(r, command) ==
    /\ At(r, "idle") /\ issued < MaxCommands
    /\ issued' = issued + 1
    /\ runners' = [runners EXCEPT ![r] =
          [Idle EXCEPT !.command = command,
                       !.pc = IF command.verb = "reset" THEN "confirm" ELSE "ensure schema"]]
    /\ orderly' = (orderly /\ \A other \in Runners :
                     ~At(other, "idle") =>
                        {command.verb, Verb(other)} \subseteq {"up", "status"})
    /\ UNCHANGED <<checkout, database>>

ensureSchema(r) ==
    /\ At(r, "ensure schema") /\ Becomes(r, "ensure table")
    /\ schema' = TRUE
    /\ UNCHANGED <<checkout, table, tracked, nextId, tables, issued, orderly>>

ensureTrackingTable(r) ==
    /\ At(r, "ensure table") /\ schema /\ Becomes(r, "read")
    /\ table' = TRUE
    /\ nextId' = IF table THEN nextId ELSE 1
    /\ UNCHANGED <<checkout, schema, tracked, tables, issued, orderly>>

\* The applied names, the files and the target are read once, here.
Plan(r) ==
    /\ At(r, "read") /\ table
    /\ LET command == runners[r].command
           todo == CASE command.to \notin {"all"} \cup checkout -> << >>
                     [] command.verb = "up" -> ToApply(command)
                     [] command.verb = "down" -> ToRollBack(command)
                     [] OTHER -> << >>
       IN  IF todo = << >> THEN Ends(r)
           ELSE runners' = [runners EXCEPT ![r].pc = "begin", ![r].todo = todo,
                                           ![r].files = checkout]
    /\ UNCHANGED <<checkout, database, issued, orderly>>

---------------------------------------------------------------------------
(* One migration, in one transaction *)

Current(r) == Head(runners[r].todo)

InTransaction(r) == At(r, "commit")

Unlocked(name) ==
    \A other \in Runners : InTransaction(other) => Current(other) # name

\* BEGIN, the file's UP half, INSERT.  The row's id is taken now; it and the
\* tables are seen by others after COMMIT.  The name is UNIQUE.
ApplyUp_NotUnique(r) ==                        \* mutant: no UNIQUE constraint
    /\ At(r, "begin") /\ Verb(r) = "up" /\ table
    /\ Unlocked(Current(r))
    /\ runners' = [runners EXCEPT ![r].pc = "commit", ![r].id = nextId]
    /\ nextId' = nextId + 1
    /\ UNCHANGED <<checkout, schema, table, tracked, tables, issued, orderly>>
ApplyUp(r) ==
    /\ At(r, "begin") /\ Verb(r) = "up" /\ table
    /\ Unlocked(Current(r))
    /\ Current(r) \notin TrackedNames
    /\ runners' = [runners EXCEPT ![r].pc = "commit", ![r].id = nextId]
    /\ nextId' = nextId + 1
    /\ UNCHANGED <<checkout, schema, table, tracked, tables, issued, orderly>>

\* BEGIN, the DOWN half, DELETE; a name already gone is no error.
ApplyDown(r) ==
    /\ At(r, "begin") /\ Verb(r) = "down" /\ table
    /\ Current(r) \in runners[r].files
    /\ Unlocked(Current(r))
    /\ Becomes(r, "commit")
    /\ UNCHANGED <<checkout, database, issued, orderly>>

\* An applied migration whose file is missing is skipped.
Skip_Stuck(r) ==                               \* mutant: the loop does not advance
    /\ At(r, "begin") /\ Verb(r) = "down"
    /\ Current(r) \notin runners[r].files
    /\ UNCHANGED vars
Skip(r) ==
    /\ At(r, "begin") /\ Verb(r) = "down"
    /\ Current(r) \notin runners[r].files
    /\ Advances(r, {})
    /\ orderly' = FALSE
    /\ UNCHANGED <<checkout, database, issued>>

\* COMMIT, and on to the next migration.
Commit(r) ==
    LET name == Current(r) IN
    /\ At(r, "commit")
    /\ IF Verb(r) = "up"
       THEN /\ tracked' = tracked \cup {[id |-> runners[r].id, name |-> name]}
            /\ tables' = tables \cup {name}
       ELSE /\ tracked' = {row \in tracked : row.name # name}
            /\ tables' = tables \ {name}
    /\ Advances(r, {name})
    /\ UNCHANGED <<checkout, schema, table, nextId, issued, orderly>>

\* A statement of the transaction fails: ROLLBACK, and break out of the loop.
Rollback_Continues(r) ==                       \* mutant: continue, not break
    /\ At(r, "commit")
    /\ Advances(r, {})
    /\ UNCHANGED <<checkout, database, issued, orderly>>
Rollback_Keeps(r) ==                           \* mutant: no BEGIN, the DDL stays
    /\ At(r, "commit")
    /\ tables' = IF Verb(r) = "up" THEN tables \cup {Current(r)} ELSE tables \ {Current(r)}
    /\ Ends(r)
    /\ UNCHANGED <<checkout, schema, table, tracked, nextId, issued, orderly>>
Rollback(r) ==
    /\ At(r, "commit")
    /\ Ends(r)
    /\ UNCHANGED <<checkout, database, issued, orderly>>

---------------------------------------------------------------------------
(* reset *)

\* It waits for whoever started it, who may take any time: "drop <schema>" goes
\* on, any other answer, and a standard input that is no terminal, ends it.
confirm(r) ==
    /\ At(r, "confirm")
    /\ Becomes(r, "drop") \/ Ends(r)
    /\ UNCHANGED <<checkout, database, issued, orderly>>

\* DROP SCHEMA ... CASCADE takes everything in it, once no transaction is open.
DropSchema(r) ==
    /\ At(r, "drop")
    /\ \A other \in Runners : ~InTransaction(other)
    /\ schema' = FALSE /\ table' = FALSE /\ tracked' = {} /\ tables' = {}
    /\ Becomes(r, "create")
    /\ UNCHANGED <<checkout, nextId, issued, orderly>>

\* CREATE SCHEMA, without IF NOT EXISTS.
CreateSchema(r) ==
    /\ At(r, "create") /\ ~schema
    /\ schema' = TRUE
    /\ Ends(r)
    /\ UNCHANGED <<checkout, table, tracked, nextId, tables, issued, orderly>>

---------------------------------------------------------------------------
(* Ends of a command *)

\* A statement cannot succeed as things are: the schema or the table has been
\* dropped, the schema is there already, the name is recorded already.
Refused(r) ==
    /\ \/ At(r, "ensure table") /\ ~schema
       \/ At(r, "read") /\ ~table
       \/ At(r, "begin") /\ ~table /\ (Verb(r) = "up" \/ Current(r) \in runners[r].files)
       \/ At(r, "begin") /\ Verb(r) = "up" /\ Current(r) \in TrackedNames
       \/ At(r, "create") /\ schema
    /\ Ends(r)
    /\ UNCHANGED <<checkout, database, issued, orderly>>

\* A query fails outside a transaction: main exits with 1.
QueryFails(r) ==
    /\ runners[r].pc \in {"ensure schema", "ensure table", "read", "drop", "create"}
    /\ Ends(r)
    /\ UNCHANGED <<checkout, database, issued, orderly>>

---------------------------------------------------------------------------

\* The process dies; an open transaction is rolled back.
Crash(r) ==
    /\ ~At(r, "idle")
    /\ Ends(r)
    /\ UNCHANGED <<checkout, database, issued, orderly>>

\* Another revision is checked out.
Deploy ==
    /\ \E files \in Checkouts \ {checkout} : checkout' = files
    /\ UNCHANGED <<database, runners, issued, orderly>>

Init ==
    /\ checkout \in Checkouts
    /\ schema = FALSE /\ table = FALSE /\ tracked = {} /\ nextId = 1 /\ tables = {}
    /\ runners = [r \in Runners |-> Idle]
    /\ issued = 0 /\ orderly = TRUE

Proceeds(r) ==
    \/ ensureSchema(r) \/ ensureTrackingTable(r) \/ Plan(r)
    \/ ApplyUp(r) \/ ApplyDown(r) \/ Skip(r) \/ Commit(r)
    \/ DropSchema(r) \/ CreateSchema(r) \/ Refused(r)

Next ==
    \/ \E r \in Runners :
          \/ \E command \in Commands : Issue(r, command)
          \/ Proceeds(r) \/ confirm(r) \/ Rollback(r) \/ QueryFails(r) \/ Crash(r)
    \/ Deploy

Spec == Init /\ [][Next]_vars

\* A process that is alive runs, and its queries are answered; its operator need
\* not answer.
FairSpec == Spec /\ \A r \in Runners : WF_vars(Proceeds(r))

---------------------------------------------------------------------------
(* Properties *)

RunnerState ==
    [ pc : {"idle", "ensure schema", "ensure table", "read", "begin", "commit",
            "confirm", "drop", "create"},
      command : Commands \cup {NoCommand}, files : Checkouts \cup {{}},
      todo : Seq(Names), id : Nat, done : SUBSET Names ]

\* The state is typed, and the _migrations table keeps its keys: no id and no
\* name twice, every id below the sequence.
TypeOK ==
    /\ checkout \in Checkouts
    /\ schema \in BOOLEAN /\ table \in BOOLEAN
    /\ tracked \subseteq [id : Nat \ {0}, name : Names]
    /\ nextId \in Nat \ {0}
    /\ tables \subseteq Names
    /\ runners \in [Runners -> RunnerState]
    /\ issued \in Nat /\ orderly \in BOOLEAN
    /\ \A x \in tracked : x.id < nextId
    /\ \A x, y \in tracked : x.id = y.id \/ x.name = y.name => x = y

\* What _migrations says is what the database has: whatever fails, dies or
\* runs beside it, a migration's tables exist exactly if its row does.
RecordMatchesTables == tables = TrackedNames

\* The applied migrations, in the order they are recorded, are the first
\* files in name order: whatever fails or dies, none is skipped and none jumps
\* ahead, with deployments running up at once, as long as every down and reset
\* has the database to itself and finds its files.
AppliedIsPrefix ==
    orderly =>
        LET applied == getApplied IN
        /\ Len(applied) <= Len(Files)
        /\ \A i \in DOMAIN applied : applied[i] = Files[i]

\* "Count mode: rollback last N applied": down N rolls back N at the most.
DownRollsBackAtMostCount ==
    \A r \in Runners :
        LET command == runners[r].command IN
        command.verb = "down" /\ command.to = "all" =>
            Cardinality(runners[r].done) <= command.count

\* Every command ends, unless it is a reset nobody answers: no list is walked
\* for ever, and no two commands wait for each other.
CommandsEnd ==
    \A r \in Runners : runners[r].pc \notin {"idle", "confirm"} ~> At(r, "idle")
===========================================================================
