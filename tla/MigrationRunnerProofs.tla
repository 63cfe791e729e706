---------------------- MODULE MigrationRunnerProofs ----------------------
(***************************************************************************)
(* Theorems about migrations, for any files, working trees and commands,   *)
(* and any number of runners.                                              *)
(***************************************************************************)
EXTENDS MigrationRunner, OrderingProofs

\* The record and the tables are only written together: by COMMIT, one name
\* each, and by DROP SCHEMA.
LEMMA CommitKeeps ==
    ASSUME RecordMatchesTables, NEW r \in Runners, Commit(r)
    PROVE  RecordMatchesTables'
  <1> DEFINE name == Current(r)
  <1>1. CASE Verb(r) = "up"
    <2> DEFINE added == [id |-> runners[r].id, name |-> name]
    <2>1. /\ tracked' = tracked \cup {added} /\ added.name = name
          /\ tables' = tables \cup {name}
      BY <1>1 DEF Commit
    <2> HIDE DEF name, added
    <2>2. TrackedNames' = TrackedNames \cup {name}
      BY <2>1 DEF TrackedNames
    <2>3. QED BY <2>1, <2>2 DEF RecordMatchesTables
  <1>2. CASE Verb(r) # "up"
    <2>1. /\ tracked' = {row \in tracked : row.name # name}
          /\ tables' = tables \ {name}
      BY <1>2 DEF Commit
    <2> HIDE DEF name
    <2>2. TrackedNames' = TrackedNames \ {name}
      BY <2>1 DEF TrackedNames
    <2>3. QED BY <2>1, <2>2 DEF RecordMatchesTables
  <1>3. QED BY <1>1, <1>2

LEMMA DropKeeps ==
    ASSUME NEW r \in Runners, DropSchema(r)
    PROVE  RecordMatchesTables'
  BY DEF DropSchema, RecordMatchesTables, TrackedNames

\* What _migrations says is what the database has, with any number of runners,
\* whatever fails and whichever of them die.
THEOREM RecordCorrect == Spec => []RecordMatchesTables
  <1>1. Init => RecordMatchesTables
    BY DEF Init, RecordMatchesTables, TrackedNames
  <1>2. RecordMatchesTables /\ [Next]_vars => RecordMatchesTables'
    <2> SUFFICES ASSUME RecordMatchesTables, [Next]_vars PROVE RecordMatchesTables'
      OBVIOUS
    <2> USE DEF RecordMatchesTables, TrackedNames
    <2>1. ASSUME NEW r \in Runners, NEW command \in Commands, Issue(r, command)
          PROVE  RecordMatchesTables'
      BY <2>1 DEF Issue, database
    <2>2. ASSUME NEW r \in Runners, Proceeds(r) PROVE RecordMatchesTables'
      <3>1. CASE ensureSchema(r) BY <3>1 DEF ensureSchema
      <3>2. CASE ensureTrackingTable(r) BY <3>2 DEF ensureTrackingTable
      <3>3. CASE Plan(r) BY <3>3 DEF Plan, database
      <3>4. CASE ApplyUp(r) BY <3>4 DEF ApplyUp
      <3>5. CASE ApplyDown(r) BY <3>5 DEF ApplyDown, database
      <3>6. CASE Skip(r) BY <3>6 DEF Skip, database
      <3>7. CASE Commit(r) BY <3>7, CommitKeeps
      <3>8. CASE DropSchema(r) BY <3>8, DropKeeps
      <3>9. CASE CreateSchema(r) BY <3>9 DEF CreateSchema
      <3>10. CASE Refused(r) BY <3>10 DEF Refused, database
      <3>11. QED
        BY <2>2, <3>1, <3>2, <3>3, <3>4, <3>5, <3>6, <3>7, <3>8, <3>9, <3>10 DEF Proceeds
    <2>3. ASSUME NEW r \in Runners, confirm(r) \/ Rollback(r) \/ QueryFails(r) \/ Crash(r)
          PROVE  RecordMatchesTables'
      BY <2>3 DEF confirm, Rollback, QueryFails, Crash, database
    <2>4. CASE Deploy
      BY <2>4 DEF Deploy, database
    <2>5. CASE UNCHANGED vars
      BY <2>5 DEF vars, database
    <2>6. QED BY <2>1, <2>2, <2>3, <2>4, <2>5 DEF Next
  <1>3. QED BY <1>1, <1>2, PTL DEF Spec

---------------------------------------------------------------------------
(* Types *)

\* What keeps the state typed: nothing is recorded in a table that is not
\* there; a transaction works on the head of a list, in the table, and an up
\* one holds an id and a name that nobody else has.
Transacting(r) ==
    /\ table
    /\ Verb(r) \in {"up", "down"}
    /\ Verb(r) = "up" => /\ runners[r].id \in Nat \ {0} /\ runners[r].id < nextId
                        /\ \A row \in tracked :
                              row.id # runners[r].id /\ row.name # Current(r)

Apart(r, other) ==
    /\ Current(r) # Current(other)
    /\ Verb(r) = "up" /\ Verb(other) = "up" => runners[r].id # runners[other].id

TypeInv ==
    /\ TypeOK
    /\ ~table => tracked = {}
    /\ \A r \in Runners : runners[r].pc \in {"begin", "commit"} => runners[r].todo # << >>
    /\ \A r \in Runners : InTransaction(r) => Transacting(r)
    /\ \A r, other \in Runners :
          InTransaction(r) /\ InTransaction(other) /\ r # other => Apart(r, other)

LEMMA FilesFacts ==
    /\ Len(Files) \in Nat /\ DOMAIN Files = 1..Len(Files)
    /\ \A i \in 1..Len(Files) : Files[i] \in Names
    /\ \A i, j \in 1..Len(Files) : Files[i] = Files[j] => i = j
  BY RunnerAssumption DEF RunnerAssumption, Names

LEMMA InNameOrderType ==
    ASSUME NEW names
    PROVE  InNameOrder(names) \in Seq(Names)
  <1> DEFINE S == {i \in DOMAIN Files : Files[i] \in names}
             at == Ascending(S)
  <1>1. S \subseteq 1..Len(Files) /\ S \subseteq Nat /\ \A i \in S : Files[i] \in Names
    BY FilesFacts
  <1>2. IsFiniteSet(S)
    BY <1>1, FilesFacts, FS_BoundedSetOfNaturals
  <1>3. /\ Cardinality(S) \in Nat /\ DOMAIN at = 1..Cardinality(S)
        /\ \A k \in 1..Cardinality(S) : at[k] \in S
    BY <1>1, <1>2, AscendingLists
  <1>4. InNameOrder(names) = [k \in 1..Cardinality(S) |-> Files[at[k]]]
    BY <1>3 DEF InNameOrder, EntriesAt
  <1> DEFINE n == Cardinality(S)
  <1> HIDE DEF S, at, n
  <1>5. InNameOrder(names) \in [1..n -> Names] /\ n \in Nat
    BY <1>1, <1>3, <1>4 DEF n
  <1>6. QED BY <1>5

\* Every row once, the lower ids first.
TrackedIds == {row.id : row \in tracked}

LEMMA TrackedIdsFacts ==
    ASSUME TypeOK
    PROVE  TrackedIds \subseteq Nat /\ IsFiniteSet(TrackedIds)
  <1>1. TrackedIds \in SUBSET Nat /\ nextId \in Nat
    BY DEF TypeOK, TrackedIds
  <1>2. \A n \in TrackedIds : n <= nextId
    BY DEF TypeOK, TrackedIds
  <1>3. QED BY <1>1, <1>2, FS_BoundedSetOfNaturals

LEMMA AppliedLists ==
    ASSUME TypeOK
    PROVE  /\ getApplied \in Seq(Names)
           /\ Len(getApplied) = Cardinality(TrackedIds)
           /\ \A k \in 1..Len(getApplied) :
                 [id |-> Ascending(TrackedIds)[k], name |-> getApplied[k]] \in tracked
           /\ \A row \in tracked : \E k \in 1..Len(getApplied) : getApplied[k] = row.name
  <1> DEFINE n == Cardinality(TrackedIds)
             ids == Ascending(TrackedIds)
             rowOf(k) == CHOOSE row \in tracked : row.id = ids[k]
  <1>1. /\ n \in Nat /\ DOMAIN ids = 1..n
        /\ \A k \in 1..n : ids[k] \in TrackedIds
        /\ \A id \in TrackedIds : \E k \in 1..n : ids[k] = id
    BY TrackedIdsFacts, AscendingLists
  <1>2. \A k \in 1..n : rowOf(k) \in tracked /\ rowOf(k).id = ids[k]
    <2> TAKE k \in 1..n
    <2>1. \E row \in tracked : row.id = ids[k]
      BY <1>1 DEF TrackedIds
    <2>2. QED BY <2>1
  <1>3. getApplied = [k \in 1..n |-> rowOf(k).name]
    BY <1>1 DEF getApplied, TrackedIds
  <1>4. \A row \in tracked :
          row \in [id : Nat \ {0}, name : Names] /\ row = [id |-> row.id, name |-> row.name]
    BY DEF TypeOK
  <1>5. \A row \in tracked : \E k \in 1..n : rowOf(k).name = row.name
    <2> TAKE row \in tracked
    <2>1. row.id \in TrackedIds
      BY DEF TrackedIds
    <2>2. PICK k \in 1..n : ids[k] = row.id
      BY <1>1, <2>1
    <2>3. rowOf(k) = row
      BY <1>2, <2>2 DEF TypeOK
    <2>4. QED BY <2>3
  <1> HIDE DEF n, ids, rowOf
  <1>6. /\ getApplied \in [1..n -> Names] /\ n \in Nat
        /\ \A k \in 1..n : getApplied[k] = rowOf(k).name
    BY <1>1, <1>2, <1>3, <1>4
  <1>7. getApplied \in Seq(Names) /\ Len(getApplied) = n
    BY <1>6
  <1>8. \A k \in 1..n : [id |-> ids[k], name |-> getApplied[k]] \in tracked
    BY <1>2, <1>4, <1>6
  <1>9. QED BY <1>5, <1>6, <1>7, <1>8 DEF n, ids

LEMMA SliceType ==
    ASSUME NEW T, NEW s \in Seq(T), NEW start \in Int
    PROVE  /\ slice(s, start) \in Seq(T) /\ Reversed(slice(s, start)) \in Seq(T)
           /\ Len(Reversed(slice(s, start))) = Len(slice(s, start))
  <1> DEFINE from == IF start >= 0 THEN start
                     ELSE IF Len(s) + start < 0 THEN 0 ELSE Len(s) + start
             t == slice(s, start)
  <1>1. from \in Nat /\ Len(s) \in Nat
    OBVIOUS
  <1>2. t = SubSeq(s, from + 1, Len(s))
    BY DEF slice
  <1> HIDE DEF from, t
  <1>3. t \in Seq(T)
    BY <1>1, <1>2
  <1>4. Reversed(t) = [i \in 1..Len(t) |-> t[Len(t) + 1 - i]] /\ Len(t) \in Nat
    BY <1>3 DEF Reversed
  <1>5. \A i \in 1..Len(t) : t[Len(t) + 1 - i] \in T
    BY <1>3
  <1>6. Reversed(t) \in Seq(T) /\ Len(Reversed(t)) = Len(t)
    BY <1>4, <1>5
  <1>7. QED BY <1>3, <1>6 DEF t

LEMMA CommandType ==
    ASSUME TypeOK, NEW r \in Runners
    PROVE  runners[r].command \in Command
  <1>1. NoCommand \in Command
    BY DEF NoCommand, Command
  <1>2. runners[r].command \in Commands \cup {NoCommand}
    BY DEF TypeOK, RunnerState
  <1>3. QED BY <1>1, <1>2, RunnerAssumption DEF RunnerAssumption

LEMMA ListsType ==
    ASSUME TypeOK, NEW command \in Command
    PROVE  ToApply(command) \in Seq(Names) /\ ToRollBack(command) \in Seq(Names)
  <1>1. getApplied \in Seq(Names)
    BY AppliedLists
  <1>2. Pending(getApplied) \in Seq(Names)
    BY InNameOrderType DEF Pending
  <1>3. ToApply(command) \in Seq(Names)
    <2> DEFINE pending == Pending(getApplied)
    <2> HIDE DEF pending
    <2>1. ASSUME \E i \in DOMAIN pending : pending[i] = command.to
          PROVE  SubSeq(pending, 1, IndexIn(command.to, pending)) \in Seq(Names)
      <3>1. IndexIn(command.to, pending) \in DOMAIN pending
        BY <2>1 DEF IndexIn
      <3>2. QED BY <3>1, <1>2 DEF pending
    <2>2. pending \in Seq(Names) /\ << >> \in Seq(Names)
      BY <1>2 DEF pending
    <2>3. QED BY <2>1, <2>2 DEF ToApply, pending
  <1>4. ToRollBack(command) \in Seq(Names)
    <2> DEFINE applied == getApplied
    <2> HIDE DEF applied
    <2>1. command.count \in Int
      BY DEF Command
    <2>2. Reversed(LastApplied(applied, command.count)) \in Seq(Names)
      BY <1>1, <2>1, SliceType DEF LastApplied, applied
    <2>3. ASSUME command.to \in TrackedNames
          PROVE  Reversed(slice(applied, IndexIn(command.to, applied) - 1)) \in Seq(Names)
      <3>1. \E i \in DOMAIN applied : applied[i] = command.to
        BY <2>3, <1>1, AppliedLists DEF applied, TrackedNames
      <3>2. IndexIn(command.to, applied) \in DOMAIN applied
        BY <3>1 DEF IndexIn
      <3>3. QED BY <3>2, <1>1, SliceType DEF applied
    <2>4. QED BY <2>2, <2>3 DEF ToRollBack, applied
  <1>5. QED BY <1>3, <1>4

---------------------------------------------------------------------------
(* What a step does to the runner that takes it *)

OthersUnchanged(r) == \A other \in Runners : other # r => runners'[other] = runners[other]

LEMMA BecomesFacts ==
    ASSUME TypeOK, NEW r \in Runners, NEW pc, Becomes(r, pc),
           pc \in {"ensure table", "read", "commit", "drop", "create"}
    PROVE  /\ runners' \in [Runners -> RunnerState] /\ OthersUnchanged(r)
           /\ runners'[r] = [runners[r] EXCEPT !.pc = pc] /\ runners'[r].pc = pc
           /\ runners'[r].command = runners[r].command /\ runners'[r].todo = runners[r].todo
           /\ runners'[r].done = runners[r].done /\ runners'[r].id = runners[r].id
  <1>1. runners \in [Runners -> RunnerState]
    BY DEF TypeOK
  <1>2. runners[r] \in RunnerState
    BY <1>1
  <1>3. [runners[r] EXCEPT !.pc = pc] \in RunnerState
    BY <1>2 DEF RunnerState
  <1>4. runners' = [runners EXCEPT ![r] = [runners[r] EXCEPT !.pc = pc]]
    BY <1>1 DEF Becomes
  <1>5. QED BY <1>1, <1>2, <1>3, <1>4 DEF OthersUnchanged, RunnerState

LEMMA EndsFacts ==
    ASSUME TypeOK, NEW r \in Runners, Ends(r)
    PROVE  /\ runners' \in [Runners -> RunnerState] /\ OthersUnchanged(r)
           /\ runners'[r].pc = "idle" /\ runners'[r].todo = << >>
           /\ runners'[r].command = runners[r].command /\ runners'[r].done = runners[r].done
  <1> DEFINE ended == [runners[r] EXCEPT !.pc = "idle", !.todo = << >>, !.id = 0]
  <1>1. runners \in [Runners -> RunnerState]
    BY DEF TypeOK
  <1>2. runners[r] \in RunnerState
    BY <1>1
  <1>3. /\ ended \in RunnerState /\ ended.pc = "idle" /\ ended.todo = << >>
        /\ ended.command = runners[r].command /\ ended.done = runners[r].done
    <2>1. << >> \in Seq(Names)
      OBVIOUS
    <2>2. QED BY <1>2, <2>1 DEF RunnerState
  <1>4. runners' = [runners EXCEPT ![r] = ended]
    BY <1>1 DEF Ends
  <1> HIDE DEF ended
  <1>5. QED BY <1>1, <1>3, <1>4 DEF OthersUnchanged

LEMMA TailFacts ==
    ASSUME NEW T, NEW s \in Seq(T), s # << >>
    PROVE  /\ Tail(s) \in Seq(T) /\ Len(Tail(s)) = Len(s) - 1 /\ Len(s) \in Nat \ {0}
           /\ Len(s) # 1 => Tail(s) # << >>
           /\ Head(s) = s[1] /\ Head(s) \in T
           /\ \A i \in 1..Len(Tail(s)) : Tail(s)[i] = s[i + 1]
  <1>1. Tail(s) \in Seq(T) /\ Len(Tail(s)) = Len(s) - 1 /\ Len(s) \in Nat \ {0}
    OBVIOUS
  <1>2. \A t : t = << >> => Len(t) = 0
    OBVIOUS
  <1> DEFINE t == Tail(s)
  <1>3. Len(t) = Len(s) - 1 /\ (t = << >> => Len(t) = 0)
    BY <1>1, <1>2
  <1> HIDE DEF t
  <1>4. Len(s) # 1 => t # << >>
    BY <1>1, <1>3
  <1>5. Head(s) = s[1] /\ Head(s) \in T
    OBVIOUS
  <1>6. \A i \in 1..Len(Tail(s)) : Tail(s)[i] = s[i + 1]
    OBVIOUS
  <1>7. QED BY <1>1, <1>4, <1>5, <1>6 DEF t

LEMMA AdvancesFacts ==
    ASSUME TypeOK, NEW r \in Runners, NEW done, done \subseteq Names, Advances(r, done),
           runners[r].todo # << >>
    PROVE  /\ runners' \in [Runners -> RunnerState] /\ OthersUnchanged(r)
           /\ runners'[r].pc = "idle" \/ (runners'[r].pc = "begin" /\ runners'[r].todo # << >>)
           /\ runners'[r].todo = Tail(runners[r].todo)
           /\ runners'[r].command = runners[r].command
           /\ runners'[r].done = runners[r].done \cup done
  <1> DEFINE todo == runners[r].todo
             rest == Tail(todo)
             pc == IF Len(todo) = 1 THEN "idle" ELSE "begin"
             next == [runners[r] EXCEPT !.pc = pc, !.todo = rest, !.id = 0,
                                        !.done = runners[r].done \cup done]
  <1>1. runners \in [Runners -> RunnerState]
    BY DEF TypeOK
  <1>2. runners[r] \in RunnerState
    BY <1>1
  <1>3. runners' = [runners EXCEPT ![r] = next]
    BY <1>1 DEF Advances
  <1>4. todo \in Seq(Names) /\ todo # << >>
    BY <1>2 DEF RunnerState
  <1> HIDE DEF todo
  <1>5. rest \in Seq(Names) /\ pc \in {"idle", "begin"} /\ (pc = "begin" => rest # << >>)
    BY <1>4, TailFacts
  <1> HIDE DEF rest, pc
  <1>6. /\ next \in RunnerState /\ next.pc = pc
        /\ next.todo = rest /\ next.command = runners[r].command
        /\ next.done = runners[r].done \cup done
    BY <1>2, <1>5 DEF RunnerState
  <1> HIDE DEF next
  <1>7. OthersUnchanged(r) /\ runners'[r] = next /\ runners' \in [Runners -> RunnerState]
    BY <1>1, <1>3, <1>6 DEF OthersUnchanged
  <1>8. /\ runners'[r].pc = "idle" \/ (runners'[r].pc = "begin" /\ runners'[r].todo # << >>)
        /\ runners'[r].todo = rest /\ runners'[r].command = runners[r].command
        /\ runners'[r].done = runners[r].done \cup done
    BY <1>5, <1>6, <1>7
  <1>9. QED BY <1>7, <1>8 DEF rest, todo

LEMMA TodoType ==
    ASSUME TypeOK, NEW r \in Runners
    PROVE  runners[r].todo \in Seq(Names) /\ Len(runners[r].todo) \in Nat
  <1>1. runners[r].todo \in Seq(Names)
    BY DEF TypeOK, RunnerState
  <1>2. QED BY <1>1

LEMMA CurrentType ==
    ASSUME TypeOK, NEW r \in Runners, runners[r].todo # << >>
    PROVE  Current(r) \in Names
  <1>1. runners[r].todo \in Seq(Names)
    BY DEF TypeOK, RunnerState
  <1>2. QED BY <1>1 DEF Current

LEMMA IssueFacts ==
    ASSUME TypeOK, NEW r \in Runners, NEW command \in Commands, Issue(r, command)
    PROVE  /\ runners' \in [Runners -> RunnerState] /\ OthersUnchanged(r)
           /\ runners'[r].pc = IF command.verb = "reset" THEN "confirm" ELSE "ensure schema"
           /\ runners'[r].todo = << >> /\ runners'[r].command = command
           /\ runners'[r].done = {}
  <1> DEFINE first == [Idle EXCEPT !.command = command,
                         !.pc = IF command.verb = "reset" THEN "confirm" ELSE "ensure schema"]
  <1>1. runners \in [Runners -> RunnerState]
    BY DEF TypeOK
  <1>2. Idle \in RunnerState
    <2>1. << >> \in Seq(Names)
      OBVIOUS
    <2>2. QED BY <2>1 DEF Idle, RunnerState
  <1>3. /\ first \in RunnerState
        /\ first.pc = IF command.verb = "reset" THEN "confirm" ELSE "ensure schema"
        /\ first.todo = << >> /\ first.command = command /\ first.done = {}
    BY <1>2 DEF Idle, RunnerState
  <1>4. runners' = [runners EXCEPT ![r] = first]
    BY DEF Issue
  <1> HIDE DEF first
  <1>5. QED BY <1>1, <1>3, <1>4 DEF OthersUnchanged

LEMMA PlanFacts ==
    ASSUME TypeOK, NEW r \in Runners, Plan(r)
    PROVE  \/ Ends(r)
           \/ /\ runners' \in [Runners -> RunnerState] /\ OthersUnchanged(r)
              /\ runners'[r].pc = "begin" /\ runners'[r].todo # << >>
              /\ runners'[r].command = runners[r].command
              /\ runners'[r].done = runners[r].done
              /\ \/ Verb(r) = "up" /\ runners'[r].todo = ToApply(runners[r].command)
                 \/ Verb(r) = "down" /\ runners'[r].todo = ToRollBack(runners[r].command)
  <1> DEFINE command == runners[r].command
             todo == CASE command.to \notin {"all"} \cup checkout -> << >>
                       [] command.verb = "up" -> ToApply(command)
                       [] command.verb = "down" -> ToRollBack(command)
                       [] OTHER -> << >>
             planned == [runners[r] EXCEPT !.pc = "begin", !.todo = todo, !.files = checkout]
  <1>1. runners \in [Runners -> RunnerState] /\ checkout \in Checkouts
    BY DEF TypeOK
  <1>2. runners[r] \in RunnerState
    BY <1>1
  <1>3. \/ todo = << >>
        \/ command.verb = "up" /\ todo = ToApply(command)
        \/ command.verb = "down" /\ todo = ToRollBack(command)
    <2> HIDE DEF command
    <2>1. CASE command.to \notin {"all"} \cup checkout
      BY <2>1
    <2>2. CASE command.to \in {"all"} \cup checkout /\ command.verb = "up"
      BY <2>2
    <2>3. CASE command.to \in {"all"} \cup checkout /\ command.verb = "down"
      BY <2>3
    <2>4. CASE /\ command.to \in {"all"} \cup checkout
               /\ command.verb # "up" /\ command.verb # "down"
      BY <2>4
    <2>5. QED BY <2>1, <2>2, <2>3, <2>4
  <1>4. todo \in Seq(Names)
    <2> HIDE DEF todo
    <2>1. << >> \in Seq(Names)
      OBVIOUS
    <2>2. QED BY <1>3, <2>1, CommandType, ListsType
  <1>5. Ends(r) \/ (todo # << >> /\ runners' = [runners EXCEPT ![r].pc = "begin", ![r].todo = todo,
                                           ![r].files = checkout])
    BY DEF Plan
  <1> HIDE DEF todo
  <1>6. /\ planned \in RunnerState /\ planned.pc = "begin" /\ planned.todo = todo
        /\ planned.command = command /\ planned.done = runners[r].done
    BY <1>1, <1>2, <1>4 DEF RunnerState
  <1>7. Ends(r) \/ (todo # << >> /\ runners' = [runners EXCEPT ![r] = planned])
    BY <1>1, <1>5
  <1> HIDE DEF planned
  <1>8. QED BY <1>1, <1>3, <1>6, <1>7 DEF OthersUnchanged, Verb

---------------------------------------------------------------------------
(* The type invariant *)

\* A step that leaves the record and the open transactions alone.
LEMMA QuietKeepsTypes ==
    ASSUME TypeInv, NEW r \in Runners,
           runners' \in [Runners -> RunnerState], OthersUnchanged(r),
           runners'[r].pc # "commit", runners'[r].pc = "begin" => runners'[r].todo # << >>,
           checkout' = checkout, tracked' = tracked, nextId' = nextId, tables' = tables,
           schema' \in BOOLEAN, table' \in BOOLEAN, table => table',
           issued' \in Nat, orderly' \in BOOLEAN
    PROVE  TypeInv'
  <1>1. TypeOK'
    BY DEF TypeInv, TypeOK
  <1>2. \A s \in Runners : runners'[s].pc = "commit" => s # r /\ runners'[s] = runners[s]
    BY DEF OthersUnchanged
  <1>3. \A s \in Runners : runners'[s].pc \in {"begin", "commit"} => runners'[s].todo # << >>
    BY DEF OthersUnchanged, TypeInv
  <1>4. \A s \in Runners : InTransaction(s)' => InTransaction(s) /\ Transacting(s)'
    BY <1>2 DEF TypeInv, InTransaction, At, Transacting, Verb, Current
  <1>5. \A s, other \in Runners :
          InTransaction(s)' /\ InTransaction(other)' /\ s # other => Apart(s, other)'
    BY <1>2, <1>4 DEF TypeInv, InTransaction, At, Apart, Verb, Current
  <1>6. QED BY <1>1, <1>3, <1>4, <1>5 DEF TypeInv

LEMMA EnsureTableKeepsTypes ==
    ASSUME TypeInv, NEW r \in Runners, ensureTrackingTable(r)
    PROVE  TypeInv'
  <1>1. /\ Becomes(r, "read") /\ nextId' = (IF table THEN nextId ELSE 1)
        /\ table' = TRUE /\ schema' = schema /\ checkout' = checkout /\ tracked' = tracked
        /\ tables' = tables /\ issued' = issued /\ orderly' = orderly
    BY DEF ensureTrackingTable
  <1>2. TypeOK
    BY DEF TypeInv
  <1>3. /\ runners' \in [Runners -> RunnerState] /\ OthersUnchanged(r)
        /\ runners'[r].pc = "read"
    BY <1>1, <1>2, BecomesFacts
  <1>4. schema' \in BOOLEAN /\ table' \in BOOLEAN /\ issued' \in Nat /\ orderly' \in BOOLEAN
    BY <1>1, <1>2 DEF TypeOK
  <1>5. CASE table
    BY <1>1, <1>3, <1>4, <1>5, QuietKeepsTypes
  <1>6. CASE ~table
    <2>1. nextId' = 1 /\ tracked = {} /\ tracked' = {}
      BY <1>1, <1>6 DEF TypeInv
    <2>2. TypeOK'
      BY <1>1, <1>2, <1>3, <1>4, <2>1 DEF TypeOK
    <2>3. \A s \in Runners : ~InTransaction(s) /\ ~InTransaction(s)'
      BY <1>3, <1>6 DEF TypeInv, Transacting, InTransaction, At, OthersUnchanged
    <2>4. \A s \in Runners : runners'[s].pc \in {"begin", "commit"} => runners'[s].todo # << >>
      BY <1>3 DEF OthersUnchanged, TypeInv
    <2>5. QED BY <2>1, <2>2, <2>3, <2>4 DEF TypeInv
  <1>7. QED BY <1>5, <1>6

\* The sequence gives every up transaction an id of its own, UNIQUE (name) and
\* the locks a name of its own.
LEMMA ApplyUpKeepsTypes ==
    ASSUME TypeInv, NEW r \in Runners, ApplyUp(r)
    PROVE  TypeInv'
  <1> DEFINE applying == [runners[r] EXCEPT !.pc = "commit", !.id = nextId]
  <1>1. runners \in [Runners -> RunnerState] /\ nextId \in Nat \ {0}
    BY DEF TypeInv, TypeOK
  <1>2. runners[r] \in RunnerState
    BY <1>1
  <1>3. /\ applying \in RunnerState /\ applying.pc = "commit" /\ applying.id = nextId
        /\ applying.todo = runners[r].todo /\ applying.command = runners[r].command
    BY <1>1, <1>2 DEF RunnerState
  <1>4. runners' = [runners EXCEPT ![r] = applying]
    BY <1>1 DEF ApplyUp
  <1> HIDE DEF applying
  <1>5. /\ runners' \in [Runners -> RunnerState] /\ runners'[r] = applying
        /\ \A s \in Runners : s # r => runners'[s] = runners[s]
    BY <1>1, <1>3, <1>4
  <1>6. /\ runners'[r].todo = runners[r].todo /\ runners'[r].command = runners[r].command
        /\ runners'[r].id = nextId
    BY <1>3, <1>5
  <1>7. \A s \in Runners : Current(s)' = Current(s) /\ Verb(s)' = Verb(s)
    BY <1>5, <1>6 DEF Current, Verb
  <1>8. TypeOK'
    <2>1. nextId' = nextId + 1 /\ tracked' = tracked
      BY DEF ApplyUp
    <2>2. nextId' \in Nat \ {0} /\ \A x \in tracked' : x.id < nextId'
      BY <1>1, <2>1 DEF TypeInv, TypeOK
    <2>3. /\ checkout' = checkout /\ schema' = schema /\ table' = table /\ tables' = tables
          /\ issued' = issued /\ orderly' = orderly
      BY DEF ApplyUp
    <2>4. TypeOK
      BY DEF TypeInv
    <2>5. QED BY <1>5, <2>1, <2>2, <2>3, <2>4 DEF TypeOK
  <1>9. \A s \in Runners : runners'[s].pc \in {"begin", "commit"} => runners'[s].todo # << >>
    <2>1. runners[r].todo # << >>
      BY DEF TypeInv, ApplyUp, At
    <2>2. \A s \in Runners : runners[s].pc \in {"begin", "commit"} => runners[s].todo # << >>
      BY DEF TypeInv
    <2>3. QED BY <1>5, <1>6, <2>1, <2>2
  <1>10. Transacting(r)'
    <2>1. nextId' = nextId + 1 /\ tracked' = tracked /\ table' = table
      BY DEF ApplyUp
    <2>2. \A row \in tracked : row.id # nextId /\ row.name # Current(r)
      BY <1>1 DEF TypeInv, TypeOK, ApplyUp, TrackedNames
    <2>3. Verb(r)' = "up" /\ table'
      BY <1>7 DEF ApplyUp
    <2>4. runners'[r].id < nextId'
      BY <1>1, <1>6, <2>1
    <2>5. QED BY <1>1, <1>6, <1>7, <2>1, <2>2, <2>3, <2>4 DEF Transacting
  <1>11. \A s \in Runners : s # r /\ InTransaction(s)' =>
            /\ InTransaction(s) /\ Transacting(s)'
            /\ Apart(r, s)' /\ Apart(s, r)'
    <2> SUFFICES ASSUME NEW s \in Runners, s # r, InTransaction(s)'
                 PROVE  /\ InTransaction(s) /\ Transacting(s)'
                        /\ Apart(r, s)' /\ Apart(s, r)'
      OBVIOUS
    <2>1. runners'[s] = runners[s] /\ InTransaction(s)
      BY <1>5 DEF InTransaction, At
    <2>2. Transacting(s)
      BY <2>1 DEF TypeInv
    <2>3. nextId' = nextId + 1 /\ tracked' = tracked /\ table' = table
      BY DEF ApplyUp
    <2>4. Transacting(s)'
      BY <1>1, <1>7, <2>1, <2>2, <2>3 DEF Transacting
    <2>5. Current(s) # Current(r)
      BY <2>1 DEF ApplyUp, Unlocked
    <2>6. Verb(s) = "up" => runners[s].id # nextId
      BY <1>1, <2>2 DEF Transacting
    <2>7. QED BY <1>6, <1>7, <2>1, <2>4, <2>5, <2>6 DEF Apart
  <1>12. \A s \in Runners : InTransaction(s)' => Transacting(s)'
    BY <1>10, <1>11
  <1>13. \A s, other \in Runners :
          InTransaction(s)' /\ InTransaction(other)' /\ s # other => Apart(s, other)'
    <2> SUFFICES ASSUME NEW s \in Runners, NEW other \in Runners,
                        InTransaction(s)', InTransaction(other)', s # other
                 PROVE  Apart(s, other)'
      OBVIOUS
    <2>1. CASE s # r /\ other # r
      <3>1. Apart(s, other)
        BY <1>11, <2>1 DEF TypeInv
      <3>2. QED BY <1>5, <1>7, <2>1, <3>1 DEF Apart
    <2>2. QED BY <1>11, <2>1
  <1>14. table' = table /\ tracked' = tracked
    BY DEF ApplyUp
  <1>15. QED BY <1>8, <1>9, <1>12, <1>13, <1>14 DEF TypeInv

LEMMA ApplyDownKeepsTypes ==
    ASSUME TypeInv, NEW r \in Runners, ApplyDown(r)
    PROVE  TypeInv'
  <1>1. /\ Becomes(r, "commit") /\ UNCHANGED <<checkout, database, issued, orderly>>
        /\ Verb(r) = "down" /\ table /\ runners[r].pc = "begin" /\ Unlocked(Current(r))
    BY DEF ApplyDown, At
  <1>2. /\ runners' \in [Runners -> RunnerState] /\ OthersUnchanged(r)
        /\ runners'[r].pc = "commit" /\ runners'[r].command = runners[r].command
        /\ runners'[r].todo = runners[r].todo /\ runners'[r].id = runners[r].id
    BY <1>1, BecomesFacts DEF TypeInv
  <1>3. TypeOK'
    BY <1>1, <1>2 DEF TypeInv, TypeOK, database
  <1>4. \A s \in Runners : s # r => runners'[s] = runners[s]
    BY <1>2 DEF OthersUnchanged
  <1>5. \A s \in Runners : /\ Current(s)' = Current(s) /\ Verb(s)' = Verb(s)
                            /\ runners'[s].id = runners[s].id
    BY <1>2, <1>4 DEF Current, Verb
  <1>6. \A s \in Runners : runners'[s].pc \in {"begin", "commit"} => runners'[s].todo # << >>
    BY <1>1, <1>2, <1>4 DEF TypeInv
  <1>7. \A s \in Runners : s # r /\ InTransaction(s)' => InTransaction(s)
    BY <1>4 DEF InTransaction, At
  <1>8. Verb(r) # "up"
    BY <1>1
  <1>9. \A s \in Runners : InTransaction(s)' => Transacting(s)'
    <2>1. Transacting(r)'
      BY <1>1, <1>5, <1>8 DEF Transacting, database
    <2>2. \A s \in Runners : s # r /\ InTransaction(s)' => Transacting(s)
      BY <1>7 DEF TypeInv
    <2>3. QED BY <1>1, <1>5, <2>1, <2>2 DEF Transacting, database
  <1>10. \A s, other \in Runners :
          InTransaction(s)' /\ InTransaction(other)' /\ s # other => Apart(s, other)'
    <2>1. \A s \in Runners : s # r /\ InTransaction(s)' => Current(s) # Current(r)
      BY <1>1, <1>7 DEF Unlocked
    <2>2. \A s, other \in Runners :
            s # r /\ other # r /\ InTransaction(s)' /\ InTransaction(other)' /\ s # other
              => Apart(s, other)
      BY <1>7 DEF TypeInv
    <2>3. QED BY <1>5, <1>8, <2>1, <2>2 DEF Apart
  <1>11. table' = table /\ tracked' = tracked
    BY <1>1 DEF database
  <1>12. QED BY <1>3, <1>6, <1>9, <1>10, <1>11 DEF TypeInv

LEMMA CommitKeepsTypes ==
    ASSUME TypeInv, NEW r \in Runners, Commit(r)
    PROVE  TypeInv'
  <1> DEFINE name == Current(r)
             added == [id |-> runners[r].id, name |-> name]
  <1>1. TypeOK /\ InTransaction(r) /\ Transacting(r) /\ runners[r].todo # << >>
    BY DEF TypeInv, Commit, InTransaction, At
  <1>2. name \in Names
    BY <1>1, CurrentType
  <1>3. /\ checkout' = checkout /\ schema' = schema /\ table' = table /\ nextId' = nextId
        /\ issued' = issued /\ orderly' = orderly
    BY DEF Commit
  <1>4. Advances(r, {name}) /\ {name} \subseteq Names
    BY <1>2 DEF Commit
  <1>5. /\ runners' \in [Runners -> RunnerState] /\ OthersUnchanged(r)
        /\ runners'[r].pc = "idle" \/ (runners'[r].pc = "begin" /\ runners'[r].todo # << >>)
    BY <1>1, <1>4, AdvancesFacts
  <1>6. \/ tracked' = tracked \cup {added} /\ tables' = tables \cup {name} /\ Verb(r) = "up"
        \/ /\ tracked' = {row \in tracked : row.name # name} /\ tables' = tables \ {name}
    BY DEF Commit
  <1>7. Verb(r) = "up" => /\ added \in [id : Nat \ {0}, name : Names]
                          /\ added.id = runners[r].id /\ added.name = name
                          /\ added.id < nextId
                          /\ \A x \in tracked : x.id # added.id /\ x.name # added.name
    BY <1>1, <1>2 DEF Transacting
  <1>8. \A s \in Runners : s # r => runners'[s] = runners[s] /\ Current(s)' = Current(s)
                                    /\ Verb(s)' = Verb(s)
    BY <1>5 DEF OthersUnchanged, Current, Verb
  <1>9. \A s \in Runners : InTransaction(s)' => s # r /\ InTransaction(s)
    BY <1>5, <1>8 DEF InTransaction, At
  <1>10. \A s \in Runners : InTransaction(s)' => Transacting(s) /\ Apart(s, r)
    BY <1>1, <1>9 DEF TypeInv
  <1> HIDE DEF name, added
  <1>11. \A x \in tracked' : x \in tracked \/ (x = added /\ Verb(r) = "up")
    BY <1>6
  <1>12. TypeOK'
    <2>1. /\ tracked \subseteq [id : Nat \ {0}, name : Names]
          /\ \A x \in tracked : x.id < nextId
          /\ \A x, y \in tracked : x.id = y.id \/ x.name = y.name => x = y
      BY <1>1 DEF TypeOK
    <2>2. tracked' \subseteq [id : Nat \ {0}, name : Names]
      BY <1>7, <1>11, <2>1
    <2>3. \A x \in tracked' : x.id < nextId
      BY <1>7, <1>11, <2>1
    <2>4. \A x, y \in tracked' : x.id = y.id \/ x.name = y.name => x = y
      BY <1>7, <1>11, <2>1
    <2>5. tables' \subseteq Names
      BY <1>1, <1>2, <1>6 DEF TypeOK
    <2>6. QED BY <1>1, <1>3, <1>5, <2>2, <2>3, <2>4, <2>5 DEF TypeOK
  <1>13. \A s \in Runners : runners'[s].pc \in {"begin", "commit"} => runners'[s].todo # << >>
    BY <1>5, <1>8 DEF TypeInv
  <1>14. \A s \in Runners : InTransaction(s)' => Transacting(s)'
    <2> SUFFICES ASSUME NEW s \in Runners, InTransaction(s)' PROVE Transacting(s)'
      OBVIOUS
    <2>1. s # r /\ Transacting(s) /\ Apart(s, r)
      BY <1>9, <1>10
    <2>2. runners'[s] = runners[s] /\ Current(s)' = Current(s) /\ Verb(s)' = Verb(s)
      BY <1>8, <2>1
    <2>3. ASSUME Verb(s) = "up", NEW row \in tracked'
          PROVE  row.id # runners[s].id /\ row.name # Current(s)
      <3>1. CASE row \in tracked
        BY <2>1, <2>3, <3>1 DEF Transacting
      <3>2. CASE row = added /\ Verb(r) = "up"
        BY <1>7, <2>1, <2>3, <3>2 DEF Apart, name
      <3>3. QED BY <1>11, <3>1, <3>2
    <2>4. QED BY <1>3, <2>1, <2>2, <2>3 DEF Transacting
  <1>15. \A s, other \in Runners :
          InTransaction(s)' /\ InTransaction(other)' /\ s # other => Apart(s, other)'
    BY <1>8, <1>9 DEF TypeInv, Apart
  <1>16. table
    BY <1>1 DEF Transacting
  <1>17. QED BY <1>3, <1>12, <1>13, <1>14, <1>15, <1>16 DEF TypeInv

LEMMA DropKeepsTypes ==
    ASSUME TypeInv, NEW r \in Runners, DropSchema(r)
    PROVE  TypeInv'
  <1>1. /\ Becomes(r, "create") /\ checkout' = checkout /\ nextId' = nextId /\ issued' = issued
        /\ orderly' = orderly /\ schema' = FALSE /\ table' = FALSE /\ tracked' = {} /\ tables' = {}
        /\ \A other \in Runners : ~InTransaction(other)
    BY DEF DropSchema
  <1>2. /\ runners' \in [Runners -> RunnerState] /\ OthersUnchanged(r)
        /\ runners'[r].pc = "create"
    BY <1>1, BecomesFacts DEF TypeInv
  <1>3. TypeOK'
    BY <1>1, <1>2 DEF TypeInv, TypeOK
  <1>4. \A s \in Runners : ~InTransaction(s)'
    BY <1>1, <1>2 DEF InTransaction, At, OthersUnchanged
  <1>5. \A s \in Runners : runners'[s].pc \in {"begin", "commit"} => runners'[s].todo # << >>
    BY <1>2 DEF OthersUnchanged, TypeInv
  <1>6. QED BY <1>1, <1>3, <1>4, <1>5 DEF TypeInv

\* The other steps leave the record alone and open no transaction.
LEMMA OtherStepsKeepTypes ==
    ASSUME TypeInv, NEW r \in Runners,
           \/ \E command \in Commands : Issue(r, command)
           \/ ensureSchema(r) \/ Plan(r) \/ Skip(r) \/ CreateSchema(r) \/ Refused(r)
           \/ confirm(r) \/ Rollback(r) \/ QueryFails(r) \/ Crash(r)
    PROVE  TypeInv'
  <1>1. TypeOK
    BY DEF TypeInv
  <1>2. schema \in BOOLEAN /\ table \in BOOLEAN /\ issued \in Nat /\ orderly \in BOOLEAN
    BY <1>1 DEF TypeOK
  <1>3. ASSUME Ends(r), UNCHANGED <<checkout, tracked, nextId, tables, issued, orderly, table>>,
               schema' \in BOOLEAN
        PROVE  TypeInv'
    <2>1. /\ runners' \in [Runners -> RunnerState] /\ OthersUnchanged(r)
          /\ runners'[r].pc = "idle"
      BY <1>1, <1>3, EndsFacts
    <2>2. QED BY <1>2, <1>3, <2>1, QuietKeepsTypes
  <1>4. ASSUME NEW pc \in {"ensure table", "drop"}, Becomes(r, pc), schema' \in BOOLEAN,
               UNCHANGED <<checkout, tracked, nextId, tables, issued, orderly, table>>
        PROVE  TypeInv'
    <2>1. /\ runners' \in [Runners -> RunnerState] /\ OthersUnchanged(r)
          /\ runners'[r].pc = pc
      BY <1>1, <1>4, BecomesFacts
    <2>2. QED BY <1>2, <1>4, <2>1, QuietKeepsTypes
  <1>5. ASSUME NEW command \in Commands, Issue(r, command) PROVE TypeInv'
    <2>1. /\ runners' \in [Runners -> RunnerState] /\ OthersUnchanged(r)
          /\ runners'[r].pc # "commit" /\ runners'[r].pc # "begin"
      BY <1>1, <1>5, IssueFacts
    <2>2. UNCHANGED <<checkout, database>> /\ issued' = issued + 1 /\ orderly' \in BOOLEAN
      BY <1>2, <1>5 DEF Issue
    <2>3. QED BY <1>2, <2>1, <2>2, QuietKeepsTypes DEF database
  <1>6. ASSUME Plan(r) PROVE TypeInv'
    <2>1. UNCHANGED <<checkout, database, issued, orderly>>
      BY <1>6 DEF Plan
    <2>2. CASE Ends(r)
      BY <1>2, <1>3, <2>1, <2>2 DEF database
    <2>3. CASE /\ runners' \in [Runners -> RunnerState] /\ OthersUnchanged(r)
               /\ runners'[r].pc = "begin" /\ runners'[r].todo # << >>
      BY <1>2, <2>1, <2>3, QuietKeepsTypes DEF database
    <2>4. QED BY <1>1, <1>6, <2>2, <2>3, PlanFacts
  <1>7. ASSUME Skip(r) PROVE TypeInv'
    <2>1. /\ Advances(r, {}) /\ orderly' = FALSE /\ UNCHANGED <<checkout, database, issued>>
          /\ runners[r].todo # << >>
      BY <1>7 DEF Skip, At, TypeInv
    <2>2. {} \subseteq Names
      OBVIOUS
    <2>3. /\ runners' \in [Runners -> RunnerState] /\ OthersUnchanged(r)
          /\ runners'[r].pc = "idle" \/ (runners'[r].pc = "begin" /\ runners'[r].todo # << >>)
      BY <1>1, <2>1, <2>2, AdvancesFacts
    <2>4. QED BY <1>2, <2>1, <2>3, QuietKeepsTypes DEF database
  <1>8. CASE ensureSchema(r)
    BY <1>4, <1>8 DEF ensureSchema
  <1>9. CASE CreateSchema(r)
    BY <1>3, <1>9 DEF CreateSchema
  <1>10. CASE confirm(r)
    BY <1>2, <1>3, <1>4, <1>10 DEF confirm, database
  <1>11. CASE Refused(r) \/ Rollback(r) \/ QueryFails(r) \/ Crash(r)
    <2>1. Ends(r) /\ UNCHANGED <<checkout, database, issued, orderly>>
      BY <1>11 DEF Refused, Rollback, QueryFails, Crash
    <2>2. QED BY <1>2, <1>3, <2>1 DEF database
  <1>12. QED BY <1>5, <1>6, <1>7, <1>8, <1>9, <1>10, <1>11

LEMMA InitTypes == Init => TypeInv
  <1> SUFFICES ASSUME Init PROVE TypeInv
    OBVIOUS
  <1>1. Idle \in RunnerState /\ Idle.pc = "idle"
    <2>1. << >> \in Seq(Names)
      OBVIOUS
    <2>2. QED BY <2>1 DEF Idle, RunnerState
  <1>2. runners \in [Runners -> RunnerState] /\ \A r \in Runners : runners[r].pc = "idle"
    BY <1>1 DEF Init
  <1>3. TypeOK
    <2>1. schema \in BOOLEAN /\ table \in BOOLEAN /\ orderly \in BOOLEAN
      BY DEF Init
    <2>2. checkout \in Checkouts /\ nextId \in Nat \ {0} /\ issued \in Nat
      BY DEF Init
    <2>3. tracked = {} /\ tables = {}
      BY DEF Init
    <2>4. QED BY <1>2, <2>1, <2>2, <2>3 DEF TypeOK
  <1>4. QED BY <1>2, <1>3 DEF Init, TypeInv, InTransaction, At

LEMMA NextKeepsTypes == TypeInv /\ [Next]_vars => TypeInv'
  <1> SUFFICES ASSUME TypeInv, [Next]_vars PROVE TypeInv'
    OBVIOUS
  <1>1. ASSUME NEW r \in Runners,
               \/ \E command \in Commands : Issue(r, command)
               \/ Proceeds(r) \/ confirm(r) \/ Rollback(r) \/ QueryFails(r) \/ Crash(r)
        PROVE  TypeInv'
    <2>1. CASE ensureTrackingTable(r) BY <2>1, EnsureTableKeepsTypes
    <2>2. CASE ApplyUp(r) BY <2>2, ApplyUpKeepsTypes
    <2>3. CASE ApplyDown(r) BY <2>3, ApplyDownKeepsTypes
    <2>4. CASE Commit(r) BY <2>4, CommitKeepsTypes
    <2>5. CASE DropSchema(r) BY <2>5, DropKeepsTypes
    <2>6. QED
      BY <1>1, <2>1, <2>2, <2>3, <2>4, <2>5, OtherStepsKeepTypes DEF Proceeds
  <1>2. CASE Deploy
    <2>1. checkout' \in Checkouts /\ UNCHANGED <<database, runners, issued, orderly>>
      BY <1>2 DEF Deploy
    <2>2. TypeOK'
      BY <2>1 DEF database, TypeInv, TypeOK
    <2>3. QED
      BY <2>1, <2>2 DEF database, TypeInv, InTransaction, Transacting, Apart, At, Verb, Current
  <1>3. CASE UNCHANGED vars
    BY <1>3 DEF vars, database, TypeInv, TypeOK, InTransaction, Transacting, Apart, At,
                Verb, Current
  <1>4. QED BY <1>1, <1>2, <1>3 DEF Next

\* The record keeps its keys whoever runs beside whom: no id and no name twice,
\* every id below the sequence, though an id is taken before its row is seen.
THEOREM TypeCorrect == Spec => []TypeOK
  <1>1. Spec => []TypeInv
    BY InitTypes, NextKeepsTypes, PTL DEF Spec
  <1>2. TypeInv => TypeOK
    BY DEF TypeInv
  <1>3. QED BY <1>1, <1>2, PTL

---------------------------------------------------------------------------
(* down N *)

\* What a counted down has rolled back and what it has left never exceed its
\* count; it has rolled back nothing before it has a list.
WithinCount(r) ==
    Verb(r) = "down" /\ runners[r].command.to = "all" =>
        /\ IsFiniteSet(runners[r].done)
        /\ Cardinality(runners[r].done) + Len(runners[r].todo) <= runners[r].command.count
        /\ runners[r].pc \in {"ensure schema", "ensure table", "read"} => runners[r].done = {}

CountInv == \A r \in Runners : WithinCount(r)

PositiveCounts == \A command \in Commands : command.count > 0

LEMMA AllIsNoName ==
    ASSUME TypeOK
    PROVE  "all" \notin TrackedNames
  BY RunnerAssumption DEF RunnerAssumption, TypeOK, TrackedNames

LEMMA LastAppliedLength ==
    ASSUME NEW T, NEW s \in Seq(T), NEW count \in Int, count > 0
    PROVE  Len(Reversed(LastApplied(s, count))) <= count
  <1> DEFINE from == IF Len(s) - count < 0 THEN 0 ELSE Len(s) - count
  <1>1. Len(s) \in Nat /\ from \in Nat /\ from <= Len(s) /\ Len(s) - from <= count
    OBVIOUS
  <1>2. LastApplied(s, count) = SubSeq(s, from + 1, Len(s))
    <2>1. ~(-count >= 0) /\ Len(s) + -count = Len(s) - count
      BY <1>1
    <2>2. QED BY <2>1 DEF LastApplied, slice
  <1> HIDE DEF from
  <1>3. Len(SubSeq(s, from + 1, Len(s))) = Len(s) - from
    BY <1>1
  <1>4. Len(Reversed(slice(s, -count))) = Len(slice(s, -count))
    BY SliceType
  <1>5. QED BY <1>1, <1>2, <1>3, <1>4 DEF LastApplied

LEMMA OthersKeepCount ==
    ASSUME CountInv, NEW r \in Runners, OthersUnchanged(r), WithinCount(r)'
    PROVE  CountInv'
  BY DEF CountInv, WithinCount, OthersUnchanged, Verb

LEMMA PositiveCount ==
    ASSUME PositiveCounts, TypeOK, NEW r \in Runners
    PROVE  /\ runners[r].command \in Command /\ runners[r].command.count \in Int
           /\ runners[r].command.count > 0
  <1>1. runners[r].command \in Commands \cup {NoCommand}
    BY DEF TypeOK, RunnerState
  <1>2. NoCommand.count = 1
    BY DEF NoCommand
  <1>3. runners[r].command \in Command
    BY CommandType
  <1>4. runners[r].command.count \in Int
    BY <1>3 DEF Command
  <1>5. CASE runners[r].command \in Commands
    BY <1>3, <1>4, <1>5 DEF PositiveCounts
  <1>6. CASE runners[r].command = NoCommand
    BY <1>2, <1>3, <1>4, <1>6
  <1>7. QED BY <1>1, <1>5, <1>6

LEMMA EndsKeepsCount ==
    ASSUME PositiveCounts, TypeOK, CountInv, NEW r \in Runners, Ends(r)
    PROVE  CountInv'
  <1>1. runners[r].todo \in Seq(Names) /\ Len(runners[r].todo) \in Nat
    BY TodoType
  <1>2. IsFiniteSet(runners[r].done) => Cardinality(runners[r].done) \in Nat
    BY FS_CardinalityType
  <1>3. /\ OthersUnchanged(r) /\ runners'[r].pc = "idle" /\ runners'[r].todo = << >>
        /\ runners'[r].command = runners[r].command /\ runners'[r].done = runners[r].done
    BY EndsFacts
  <1>4. Len(<< >>) = 0
    OBVIOUS
  <1>5. WithinCount(r)'
    <2> SUFFICES ASSUME Verb(r) = "down", runners[r].command.to = "all"
                 PROVE  /\ IsFiniteSet(runners'[r].done)
                        /\ Cardinality(runners'[r].done) + Len(runners'[r].todo)
                              <= runners[r].command.count
      BY <1>3 DEF WithinCount, Verb
    <2>1. /\ IsFiniteSet(runners[r].done)
          /\ Cardinality(runners[r].done) + Len(runners[r].todo) <= runners[r].command.count
      BY DEF CountInv, WithinCount
    <2>2. QED BY PositiveCount, <1>1, <1>2, <1>3, <1>4, <2>1
  <1>6. QED BY <1>3, <1>5, OthersKeepCount

LEMMA ProceedsKeepsCount ==
    ASSUME PositiveCounts, TypeInv, CountInv, NEW r \in Runners, Proceeds(r)
    PROVE  CountInv'
  <1>1. TypeOK
    BY DEF TypeInv
  <1>2. /\ runners[r].command \in Command /\ runners[r].command.count \in Int
        /\ runners[r].command.count > 0
    BY <1>1, PositiveCount
  <1>3. runners[r].todo \in Seq(Names) /\ Len(runners[r].todo) \in Nat
    BY <1>1, TodoType
  <1>4. IsFiniteSet(runners[r].done) => Cardinality(runners[r].done) \in Nat
    BY FS_CardinalityType
  <1>5. ASSUME NEW pc \in {"ensure table", "read", "commit", "create"}, Becomes(r, pc),
               \/ runners[r].pc \in {"ensure schema", "ensure table", "read"}
               \/ pc \notin {"ensure table", "read"}
        PROVE  CountInv'
    <2>1. /\ OthersUnchanged(r) /\ runners'[r].pc = pc
          /\ runners'[r].command = runners[r].command /\ runners'[r].todo = runners[r].todo
          /\ runners'[r].done = runners[r].done
      BY <1>1, <1>5, BecomesFacts
    <2>2. WithinCount(r)'
      BY <1>5, <2>1 DEF CountInv, WithinCount, Verb
    <2>3. QED BY <2>1, <2>2, OthersKeepCount
  <1>6. ASSUME Ends(r) PROVE CountInv'
    BY <1>1, <1>6, EndsKeepsCount
  <1>7. ASSUME NEW done, done \subseteq Names, \E name : done \subseteq {name}, Advances(r, done),
               runners[r].todo # << >>
        PROVE  CountInv'
    <2>1. /\ OthersUnchanged(r) /\ runners'[r].pc \in {"idle", "begin"}
          /\ runners'[r].todo = Tail(runners[r].todo)
          /\ runners'[r].command = runners[r].command
          /\ runners'[r].done = runners[r].done \cup done
      BY <1>1, <1>7, AdvancesFacts
    <2>2. /\ Len(Tail(runners[r].todo)) = Len(runners[r].todo) - 1
          /\ Len(runners[r].todo) \in Nat \ {0}
      BY <1>3, <1>7, TailFacts
    <2>3. ASSUME IsFiniteSet(runners[r].done)
          PROVE  /\ IsFiniteSet(runners[r].done \cup done)
                 /\ Cardinality(runners[r].done \cup done) \in Nat
                 /\ Cardinality(runners[r].done \cup done) <= Cardinality(runners[r].done) + 1
      <3>1. PICK name : done = {} \/ done = {name}
        BY <1>7
      <3>2. CASE done = {}
        BY <1>4, <2>3, <3>2
      <3>3. CASE done = {name}
        <4>1. /\ IsFiniteSet(runners[r].done \cup {name})
              /\ Cardinality(runners[r].done \cup {name})
                   = IF name \in runners[r].done THEN Cardinality(runners[r].done)
                     ELSE Cardinality(runners[r].done) + 1
          BY <2>3, FS_AddElement
        <4>2. QED BY <1>4, <2>3, <3>3, <4>1
      <3>4. QED BY <3>1, <3>2, <3>3
    <2>4. WithinCount(r)'
      <3> SUFFICES ASSUME Verb(r) = "down", runners[r].command.to = "all"
                   PROVE  /\ IsFiniteSet(runners'[r].done)
                          /\ Cardinality(runners'[r].done) + Len(runners'[r].todo)
                                <= runners[r].command.count
        BY <2>1 DEF WithinCount, Verb
      <3>1. /\ IsFiniteSet(runners[r].done)
            /\ Cardinality(runners[r].done) + Len(runners[r].todo) <= runners[r].command.count
        BY DEF CountInv, WithinCount
      <3>2. QED BY <1>2, <1>4, <2>1, <2>2, <2>3, <3>1
    <2>5. QED BY <2>1, <2>4, OthersKeepCount
  <1>8. CASE Plan(r)
    <2>1. runners[r].pc = "read"
      BY <1>8 DEF Plan, At
    <2>2. CASE /\ OthersUnchanged(r) /\ runners'[r].pc = "begin"
               /\ runners'[r].command = runners[r].command /\ runners'[r].done = runners[r].done
               /\ \/ Verb(r) = "up" /\ runners'[r].todo = ToApply(runners[r].command)
                  \/ Verb(r) = "down" /\ runners'[r].todo = ToRollBack(runners[r].command)
      <3>1. ASSUME Verb(r) = "down", runners[r].command.to = "all"
            PROVE  /\ IsFiniteSet(runners'[r].done)
                   /\ Cardinality(runners'[r].done) + Len(runners'[r].todo)
                         <= runners[r].command.count
        <4>1. runners'[r].done = {}
          BY <2>1, <2>2, <3>1 DEF CountInv, WithinCount
        <4>2. runners'[r].todo = Reversed(LastApplied(getApplied, runners[r].command.count))
          <5>1. "all" \notin TrackedNames /\ Verb(r) # "up"
            BY <1>1, <3>1, AllIsNoName
          <5>2. ToRollBack(runners[r].command)
                  = Reversed(LastApplied(getApplied, runners[r].command.count))
            BY <3>1, <5>1 DEF ToRollBack
          <5>3. QED BY <2>2, <5>1, <5>2
        <4>3. Len(runners'[r].todo) <= runners[r].command.count
          BY <1>1, <1>2, <4>2, AppliedLists, LastAppliedLength
        <4>4. Len(runners'[r].todo) \in Nat
          BY <1>1, <1>2, <4>2, AppliedLists, SliceType DEF LastApplied
        <4>5. QED BY <1>2, <4>1, <4>3, <4>4, FS_EmptySet
      <3>2. WithinCount(r)'
        BY <2>2, <3>1 DEF WithinCount, Verb
      <3>3. QED BY <2>2, <3>2, OthersKeepCount
    <2>3. QED BY <1>1, <1>6, <1>8, <2>2, PlanFacts
  <1>9. CASE ApplyUp(r)
    <2>1. /\ OthersUnchanged(r) /\ runners'[r].command = runners[r].command /\ Verb(r) = "up"
      BY <1>1, <1>9 DEF ApplyUp, OthersUnchanged, TypeOK, RunnerState
    <2>2. WithinCount(r)'
      BY <2>1 DEF WithinCount, Verb
    <2>3. QED BY <2>1, <2>2, OthersKeepCount
  <1>10. CASE Skip(r)
    <2>1. Advances(r, {}) /\ runners[r].todo # << >>
      BY <1>10 DEF Skip, TypeInv, At
    <2>2. {} \subseteq Names /\ \E name : {} \subseteq {name}
      OBVIOUS
    <2>3. QED BY <1>7, <2>1, <2>2
  <1>11. CASE Commit(r)
    <2>1. Advances(r, {Current(r)}) /\ runners[r].todo # << >>
      BY <1>11 DEF Commit, TypeInv, At
    <2>2. {Current(r)} \subseteq Names /\ \E name : {Current(r)} \subseteq {name}
      BY <1>1, <2>1, CurrentType
    <2>3. QED BY <1>7, <2>1, <2>2
  <1>12. CASE ensureSchema(r) BY <1>5, <1>12 DEF ensureSchema, At
  <1>13. CASE ensureTrackingTable(r) BY <1>5, <1>13 DEF ensureTrackingTable, At
  <1>14. CASE ApplyDown(r) BY <1>5, <1>14 DEF ApplyDown, At
  <1>15. CASE DropSchema(r) BY <1>5, <1>15 DEF DropSchema, At
  <1>16. CASE CreateSchema(r) BY <1>6, <1>16 DEF CreateSchema
  <1>17. CASE Refused(r) BY <1>6, <1>17 DEF Refused
  <1>18. QED
    BY <1>8, <1>9, <1>10, <1>11, <1>12, <1>13, <1>14, <1>15, <1>16, <1>17 DEF Proceeds

LEMMA NextKeepsCount ==
    ASSUME PositiveCounts, TypeInv, CountInv, [Next]_vars
    PROVE  CountInv'
  <1>1. TypeOK
    BY DEF TypeInv
  <1>2. ASSUME NEW r \in Runners, NEW command \in Commands, Issue(r, command) PROVE CountInv'
    <2>1. /\ OthersUnchanged(r) /\ runners'[r].todo = << >>
          /\ runners'[r].command = command /\ runners'[r].done = {}
      BY <1>1, <1>2, IssueFacts
    <2>2. command \in Command /\ command.count \in Int /\ command.count > 0
      BY RunnerAssumption DEF RunnerAssumption, PositiveCounts, Command
    <2>3. Len(<< >>) = 0 /\ Cardinality({}) = 0 /\ IsFiniteSet({})
      BY FS_EmptySet
    <2>4. WithinCount(r)'
      BY <2>1, <2>2, <2>3 DEF WithinCount
    <2>5. QED BY <2>1, <2>4, OthersKeepCount
  <1>3. ASSUME NEW r \in Runners, confirm(r) \/ Rollback(r) \/ QueryFails(r) \/ Crash(r)
        PROVE  CountInv'
    <2>1. CASE Becomes(r, "drop")
      <3>1. /\ OthersUnchanged(r) /\ runners'[r].pc = "drop"
            /\ runners'[r].command = runners[r].command /\ runners'[r].todo = runners[r].todo
            /\ runners'[r].done = runners[r].done
        BY <1>1, <2>1, BecomesFacts
      <3>2. WithinCount(r)'
        BY <3>1 DEF CountInv, WithinCount, Verb
      <3>3. QED BY <3>1, <3>2, OthersKeepCount
    <2>2. CASE Ends(r)
      BY <1>1, <2>2, EndsKeepsCount
    <2>3. QED BY <1>3, <2>1, <2>2 DEF confirm, Rollback, QueryFails, Crash
  <1>4. CASE Deploy
    BY <1>4 DEF Deploy, CountInv, WithinCount, Verb
  <1>5. CASE UNCHANGED vars
    BY <1>5 DEF vars, CountInv, WithinCount, Verb
  <1>6. QED BY <1>2, <1>3, <1>4, <1>5, ProceedsKeepsCount DEF Next

\* "Count mode: rollback last N applied": a down N commits the rollback of N
\* migrations at the most, whatever fails, dies or runs beside it, provided N
\* is above 0 (for 0 the run MigrationsCountZero shows that it takes them all).
THEOREM RollsBackAtMostCount ==
    ASSUME PositiveCounts
    PROVE  Spec => []DownRollsBackAtMostCount
  <1>1. Init => CountInv
    <2> SUFFICES ASSUME Init PROVE CountInv
      OBVIOUS
    <2>1. \A r \in Runners : Verb(r) = "status"
      BY DEF Init, Idle, NoCommand, Verb
    <2>2. QED BY <2>1 DEF CountInv, WithinCount
  <1>2. TypeInv /\ CountInv /\ [Next]_vars => CountInv'
    BY NextKeepsCount
  <1>3. TypeInv /\ CountInv => DownRollsBackAtMostCount
    <2> SUFFICES ASSUME TypeInv, CountInv, NEW r \in Runners,
                        Verb(r) = "down", runners[r].command.to = "all"
                 PROVE  Cardinality(runners[r].done) <= runners[r].command.count
      BY DEF DownRollsBackAtMostCount, Verb
    <2>1. /\ IsFiniteSet(runners[r].done)
          /\ Cardinality(runners[r].done) + Len(runners[r].todo) <= runners[r].command.count
      BY DEF CountInv, WithinCount
    <2>2. Cardinality(runners[r].done) \in Nat
      BY <2>1, FS_CardinalityType
    <2>3. Len(runners[r].todo) \in Nat /\ runners[r].command.count \in Int
      <3>1. runners[r].command \in Command
        BY CommandType DEF TypeInv
      <3>2. QED BY <3>1, TodoType DEF TypeInv, Command
    <2>4. QED BY <2>1, <2>2, <2>3
  <1>4. QED BY <1>1, <1>2, <1>3, InitTypes, NextKeepsTypes, PTL DEF Spec

---------------------------------------------------------------------------
(* The order of the applied migrations *)

First(n) == {Files[i] : i \in 1..n}

\* Every working tree holds the first so many of the files: what a repository
\* has had at some time, when migrations are only ever added behind the last.
InitialSegments == \A files \in Checkouts : \E c \in 0..Len(Files) : files = First(c)

\* The first n files are recorded, in their order.
InFileOrder(n) ==
    /\ TrackedNames = First(n)
    /\ \A x, y \in tracked, i, j \in 1..n :
          x.name = Files[i] /\ y.name = Files[j] /\ i < j => x.id < y.id

Alone(r) == \A other \in Runners : other # r => At(other, "idle")

\* An up's list is a run of the files that starts no further than the next one
\* to apply; the row it is about to commit comes after all others.
Climbs(r, n) ==
    /\ \E h \in 1..n + 1 : \A i \in 1..Len(runners[r].todo) :
          h + i - 1 <= Len(Files) /\ runners[r].todo[i] = Files[h + i - 1]
    /\ InTransaction(r) => \A row \in tracked : row.id < runners[r].id

\* A down's list goes back from the last applied file.
Descends(r, n) ==
    /\ Len(runners[r].todo) <= n
    /\ \A i \in 1..Len(runners[r].todo) : runners[r].todo[i] = Files[n + 1 - i]

Follows(r, n) ==
    /\ ~At(r, "idle") /\ Verb(r) \in {"down", "reset"} => Alone(r)
    /\ runners[r].pc \in {"begin", "commit"} /\ Verb(r) = "up" => Climbs(r, n)
    /\ runners[r].pc \in {"begin", "commit"} /\ Verb(r) = "down" => Descends(r, n)

InOrder(n) == InFileOrder(n) /\ \A r \in Runners : Follows(r, n)

OrderInv ==
    /\ \A r \in Runners : runners[r].pc \in {"confirm", "drop"} => Verb(r) = "reset"
    /\ orderly => \E n \in 0..Len(Files) : InOrder(n)

\* What the two readings return when the record is in order.
LEMMA AppliedInFileOrder ==
    ASSUME TypeOK, NEW n \in 0..Len(Files), InFileOrder(n)
    PROVE  getApplied = [i \in 1..n |-> Files[i]]
  <1> DEFINE rowOf(i) == CHOOSE row \in tracked : row.name = Files[i]
             g == [i \in 1..n |-> rowOf(i).id]
             ids == Ascending(TrackedIds)
  <1>1. n \in Nat /\ \A i \in 1..n : i \in 1..Len(Files) /\ i \in Nat
    BY FilesFacts
  <1>2. \A i \in 1..n : rowOf(i) \in tracked /\ rowOf(i).name = Files[i]
    <2> TAKE i \in 1..n
    <2>1. Files[i] \in TrackedNames
      BY DEF InFileOrder, First
    <2>2. \E row \in tracked : row.name = Files[i]
      BY <2>1 DEF TrackedNames
    <2>3. QED BY <2>2
  <1>3. \A i \in 1..n, row \in tracked : row.id = g[i] => row = rowOf(i)
    BY <1>2 DEF TypeOK
  <1>4. \A row \in tracked : \E i \in 1..n : row = rowOf(i)
    <2> TAKE row \in tracked
    <2>1. row.name \in First(n)
      BY DEF InFileOrder, TrackedNames
    <2>2. PICK i \in 1..n : row.name = Files[i]
      BY <2>1 DEF First
    <2>3. row = rowOf(i)
      BY <1>2, <2>2 DEF TypeOK
    <2>4. QED BY <2>3
  <1>5. g \in [1..n -> Nat]
    BY <1>2 DEF TypeOK
  <1>6. \A j, k \in 1..n : j < k => g[j] < g[k]
    BY <1>2 DEF InFileOrder
  <1>7. {g[k] : k \in 1..n} = TrackedIds
    BY <1>2, <1>4 DEF TrackedIds
  <1>8. ids = g /\ Cardinality(TrackedIds) = n
    BY <1>1, <1>5, <1>6, <1>7, AscendingUnique
  <1>9. /\ getApplied \in Seq(Names) /\ Len(getApplied) = n
        /\ \A k \in 1..n : [id |-> ids[k], name |-> getApplied[k]] \in tracked
    BY <1>8, AppliedLists
  <1>10. \A k \in 1..n : getApplied[k] = Files[k]
    <2> TAKE k \in 1..n
    <2> DEFINE row == [id |-> ids[k], name |-> getApplied[k]]
    <2>1. row \in tracked /\ row.id = g[k] /\ row.name = getApplied[k]
      BY <1>8, <1>9
    <2> HIDE DEF row, g, rowOf
    <2>2. row = rowOf(k)
      BY <1>3, <2>1
    <2>3. QED BY <1>2, <2>1, <2>2
  <1>11. getApplied = [i \in 1..n |-> getApplied[i]]
    BY <1>9
  <1> HIDE DEF g, rowOf, ids
  <1>12. QED BY <1>10, <1>11

LEMMA PendingInFileOrder ==
    ASSUME NEW n \in 0..Len(Files), NEW c \in 0..Len(Files), checkout = First(c),
           NEW applied, applied = [i \in 1..n |-> Files[i]]
    PROVE  LET m == IF c > n THEN c - n ELSE 0
           IN  Pending(applied) = [k \in 1..m |-> Files[n + k]]
  <1> DEFINE m == IF c > n THEN c - n ELSE 0
             S == {i \in DOMAIN Files : Files[i] \in checkout \ {applied[a] : a \in DOMAIN applied}}
             g == [k \in 1..m |-> n + k]
  <1>1. m \in Nat /\ n \in Nat /\ c \in Nat
    BY FilesFacts
  <1>2. \A i \in 1..Len(Files), b \in 0..Len(Files) : Files[i] \in First(b) <=> i <= b
    BY FilesFacts DEF First
  <1>3. {applied[i] : i \in DOMAIN applied} = First(n)
    BY DEF First
  <1>4. S = {i \in 1..Len(Files) : n < i /\ i <= c}
    BY <1>1, <1>2, <1>3, FilesFacts
  <1>5. S = {g[k] : k \in 1..m}
    <2>1. \A k \in 1..m : g[k] = n + k /\ n + k \in 1..Len(Files) /\ n < n + k /\ n + k <= c
      BY <1>1, FilesFacts
    <2>2. \A i \in S : i - n \in 1..m /\ i = n + (i - n)
      BY <1>1, <1>4, FilesFacts
    <2> HIDE DEF S, m
    <2>3. QED BY <1>4, <2>1, <2>2
  <1>6. g \in [1..m -> Nat] /\ \A j, k \in 1..m : j < k => g[j] < g[k]
    BY <1>1
  <1>7. Ascending(S) = g
    <2> HIDE DEF S, g, m
    <2>1. QED BY <1>1, <1>5, <1>6, AscendingUnique
  <1>8. Pending(applied) = [k \in DOMAIN g |-> Files[g[k]]]
    BY <1>7 DEF Pending, InNameOrder, EntriesAt
  <1>9. QED BY <1>8

LEMMA UpListClimbs ==
    ASSUME TypeOK, InitialSegments, NEW n \in 0..Len(Files), InFileOrder(n),
           NEW command \in Command, NEW i \in 1..Len(ToApply(command))
    PROVE  n + i <= Len(Files) /\ ToApply(command)[i] = Files[n + i]
  <1> DEFINE pending == Pending(getApplied)
  <1>1. PICK c \in 0..Len(Files) : checkout = First(c)
    BY DEF TypeOK, InitialSegments
  <1> DEFINE m == IF c > n THEN c - n ELSE 0
  <1>3. pending = [k \in 1..m |-> Files[n + k]]
    BY <1>1, AppliedInFileOrder, PendingInFileOrder
  <1>4. m \in Nat /\ n \in Nat /\ (m > 0 => n + m <= Len(Files))
    BY FilesFacts
  <1> HIDE DEF m
  <1>5. /\ pending \in Seq(Names) /\ Len(pending) = m
        /\ \A k \in 1..m : pending[k] = Files[n + k]
    <2>1. pending \in [1..m -> Names]
      BY <1>3, <1>4, FilesFacts
    <2>2. pending \in Seq(Names) /\ Len(pending) = m
      BY <1>4, <2>1
    <2>3. \A k \in 1..m : pending[k] = Files[n + k]
      BY <1>3
    <2>4. QED BY <2>2, <2>3
  <1> HIDE DEF pending
  <1>6. CASE command.to = "all"
    <2>1. ~\E k \in DOMAIN pending : pending[k] = command.to
      BY <1>5, <1>6, RunnerAssumption DEF RunnerAssumption
    <2>2. ToApply(command) = pending
      BY <1>6, <2>1 DEF ToApply, pending
    <2>3. i \in 1..m
      BY <1>5, <2>2
    <2>4. QED BY <1>4, <1>5, <2>2, <2>3
  <1>7. CASE command.to # "all" /\ \E k \in DOMAIN pending : pending[k] = command.to
    <2> DEFINE at == IndexIn(command.to, pending)
    <2>1. at \in 1..m
      BY <1>5, <1>7 DEF IndexIn
    <2>2. ToApply(command) = SubSeq(pending, 1, at)
      BY <1>7 DEF ToApply, pending
    <2> HIDE DEF at
    <2>3. /\ Len(SubSeq(pending, 1, at)) = at
          /\ \A k \in 1..at : SubSeq(pending, 1, at)[k] = pending[k]
      BY <1>4, <1>5, <2>1
    <2>4. i \in 1..at /\ i \in 1..m
      BY <1>4, <2>1, <2>2, <2>3
    <2>5. ToApply(command)[i] = Files[n + i]
      BY <1>5, <2>2, <2>3, <2>4
    <2>6. i \in Nat /\ i <= m /\ m > 0 /\ Len(Files) \in Nat
      BY <1>4, <2>4, FilesFacts
    <2>7. QED BY <1>4, <2>5, <2>6
  <1>8. CASE command.to # "all" /\ ~\E k \in DOMAIN pending : pending[k] = command.to
    <2>1. ToApply(command) = << >>
      BY <1>8 DEF ToApply, pending
    <2>2. QED BY <2>1
  <1>9. QED BY <1>6, <1>7, <1>8

LEMMA SliceDescends ==
    ASSUME NEW n \in 0..Len(Files), NEW applied, applied = [i \in 1..n |-> Files[i]],
           NEW start \in Int
    PROVE  LET todo == Reversed(slice(applied, start)) IN
           /\ Len(todo) <= n
           /\ \A i \in 1..Len(todo) : todo[i] = Files[n + 1 - i]
  <1> DEFINE from == IF start >= 0 THEN start
                     ELSE IF Len(applied) + start < 0 THEN 0 ELSE Len(applied) + start
             left == IF from <= n THEN n - from ELSE 0
             t == slice(applied, start)
  <1>1. n \in Nat /\ \A i \in 1..n : i \in 1..Len(Files)
    BY FilesFacts
  <1>2. applied \in Seq(Names) /\ Len(applied) = n /\ \A i \in 1..n : applied[i] = Files[i]
    <2>1. applied \in [1..n -> Names]
      BY <1>1, FilesFacts
    <2>2. QED BY <1>1, <2>1
  <1>3. from \in Nat
    BY <1>1, <1>2
  <1>4. t = SubSeq(applied, from + 1, n)
    BY <1>2 DEF slice
  <1> HIDE DEF from
  <1>5. left \in Nat /\ left <= n /\ (left > 0 => left = n - from)
    BY <1>1, <1>3
  <1> HIDE DEF t
  <1>6. /\ Len(t) = left
        /\ \A k \in 1..left : t[k] = applied[from + k]
    <2>1. CASE from < n
      <3>1. from + 1 \in 1..n /\ n \in 1..n /\ left = n - from
        BY <1>1, <1>3, <2>1
      <3>2. /\ Len(SubSeq(applied, from + 1, n)) = n - (from + 1) + 1
            /\ \A k \in 1..n - (from + 1) + 1 :
                  SubSeq(applied, from + 1, n)[k] = applied[from + 1 + k - 1]
        BY <1>2, <3>1
      <3>3. n - (from + 1) + 1 = left /\ \A k \in 1..left : from + 1 + k - 1 = from + k
        BY <1>1, <1>3, <3>1
      <3> HIDE DEF left
      <3>4. QED BY <1>4, <3>2, <3>3
    <2>2. CASE from >= n
      <3>1. from + 1 > n /\ left = 0
        BY <1>1, <1>3, <2>2
      <3>2. SubSeq(applied, from + 1, n) = << >>
        BY <1>1, <1>2, <1>3, <3>1
      <3>3. Len(<< >>) = 0
        OBVIOUS
      <3>4. t = << >>
        BY <1>4, <3>2
      <3> HIDE DEF left
      <3>5. QED BY <3>1, <3>3, <3>4
    <2> HIDE DEF left
    <2>3. QED BY <1>1, <1>3, <2>1, <2>2
  <1> HIDE DEF left
  <1>7. /\ Reversed(t) = [i \in 1..left |-> t[left + 1 - i]]
    <2>1. t \in Seq(Names)
      BY <1>2, SliceType DEF t
    <2>2. DOMAIN t = 1..left
      BY <1>6, <2>1
    <2>3. QED BY <1>6, <2>2 DEF Reversed
  <1>8. Len(Reversed(t)) = left
    BY <1>5, <1>7
  <1>9. \A i \in 1..left : Reversed(t)[i] = Files[n + 1 - i]
    <2> TAKE i \in 1..left
    <2>1. left + 1 - i \in 1..left /\ n + 1 - i \in 1..n /\ from + (left + 1 - i) = n + 1 - i
      BY <1>1, <1>3, <1>5
    <2>2. t[left + 1 - i] = applied[n + 1 - i]
      BY <1>6, <2>1
    <2>3. QED BY <1>2, <1>7, <2>1, <2>2
  <1>10. QED BY <1>5, <1>8, <1>9 DEF t

LEMMA DownListDescends ==
    ASSUME TypeOK, NEW n \in 0..Len(Files), InFileOrder(n), NEW command \in Command
    PROVE  LET todo == ToRollBack(command) IN
           /\ Len(todo) <= n
           /\ \A i \in 1..Len(todo) : todo[i] = Files[n + 1 - i]
  <1> DEFINE applied == getApplied
  <1>1. applied = [i \in 1..n |-> Files[i]]
    BY AppliedInFileOrder
  <1>2. command.count \in Int /\ -command.count \in Int
    BY DEF Command
  <1>3. CASE command.to = "all"
    <2> DEFINE start == -command.count
    <2>1. ToRollBack(command) = Reversed(slice(applied, start))
      BY <1>3, AllIsNoName DEF ToRollBack, LastApplied
    <2>2. start \in Int
      BY <1>2
    <2> DEFINE todo == Reversed(slice(applied, start))
    <2> HIDE DEF applied, start
    <2>3. Len(todo) <= n /\ \A i \in 1..Len(todo) : todo[i] = Files[n + 1 - i]
      BY <1>1, <2>2, SliceDescends
    <2> HIDE DEF todo
    <2>4. ToRollBack(command) = todo
      BY <2>1 DEF todo
    <2>5. QED BY <2>3, <2>4
  <1>4. CASE command.to # "all" /\ command.to \in TrackedNames
    <2> DEFINE start == IndexIn(command.to, applied) - 1
    <2>1. ToRollBack(command) = Reversed(slice(applied, start))
      BY <1>4 DEF ToRollBack
    <2>2. \E i \in DOMAIN applied : applied[i] = command.to
      BY <1>4, AppliedLists DEF TrackedNames
    <2> HIDE DEF applied
    <2>3. IndexIn(command.to, applied) \in 1..n
      BY <1>1, <2>2 DEF IndexIn
    <2>4. start \in Int
      BY <2>3
    <2> DEFINE todo == Reversed(slice(applied, start))
    <2> HIDE DEF start
    <2>5. Len(todo) <= n /\ \A i \in 1..Len(todo) : todo[i] = Files[n + 1 - i]
      BY <1>1, <2>4, SliceDescends
    <2> HIDE DEF todo
    <2>6. ToRollBack(command) = todo
      BY <2>1 DEF todo
    <2>7. QED BY <2>5, <2>6
  <1>5. CASE command.to # "all" /\ command.to \notin TrackedNames
    <2>1. ToRollBack(command) = << >>
      BY <1>5 DEF ToRollBack
    <2>2. QED BY <2>1
  <1>6. QED BY <1>3, <1>4, <1>5

\* A step that records nothing and begins nothing.
LEMMA QuietKeepsOrder ==
    ASSUME OrderInv, NEW r \in Runners, OthersUnchanged(r), ~At(r, "idle"),
           runners'[r].pc \notin {"begin", "commit"},
           runners'[r].command = runners[r].command,
           runners'[r].pc \in {"confirm", "drop"} => runners[r].pc \in {"confirm", "drop"},
           tracked' = tracked, orderly' = orderly
    PROVE  OrderInv'
  <1>1. \A s \in Runners : runners'[s].pc \in {"confirm", "drop"} => Verb(s)' = "reset"
    BY DEF OrderInv, OthersUnchanged, Verb
  <1>2. ASSUME NEW n \in 0..Len(Files), InOrder(n) PROVE InOrder(n)'
    <2>1. InFileOrder(n)'
      BY <1>2 DEF InOrder, InFileOrder, TrackedNames
    <2>2. Follows(r, n)'
      BY <1>2 DEF InOrder, Follows, Alone, At, Verb, OthersUnchanged
    <2>3. ASSUME NEW s \in Runners, s # r PROVE Follows(s, n)'
      <3>1. runners'[s] = runners[s] /\ Follows(s, n)
        BY <1>2, <2>3 DEF InOrder, OthersUnchanged
      <3>2. ~At(s, "idle") /\ Verb(s) \in {"down", "reset"} => FALSE
        BY <2>3, <3>1 DEF Follows, Alone
      <3>3. QED BY <3>1, <3>2 DEF Follows, At, Verb, Climbs, Descends, InTransaction
    <2>4. QED BY <2>1, <2>2, <2>3 DEF InOrder
  <1>3. QED BY <1>1, <1>2 DEF OrderInv

LEMMA IssueKeepsOrder ==
    ASSUME TypeInv, OrderInv, NEW r \in Runners, NEW command \in Commands, Issue(r, command)
    PROVE  OrderInv'
  <1>1. /\ OthersUnchanged(r) /\ runners'[r].command = command
        /\ runners'[r].pc = IF command.verb = "reset" THEN "confirm" ELSE "ensure schema"
    BY IssueFacts DEF TypeInv
  <1>2. \A s \in Runners : runners'[s].pc \in {"confirm", "drop"} => Verb(s)' = "reset"
    BY <1>1 DEF OrderInv, OthersUnchanged, Verb
  <1>3. /\ tracked' = tracked /\ At(r, "idle")
        /\ orderly' => orderly /\ \A other \in Runners :
               ~At(other, "idle") => {command.verb, Verb(other)} \subseteq {"up", "status"}
    BY DEF Issue, database
  <1>4. ASSUME orderly', NEW n \in 0..Len(Files), InOrder(n) PROVE InOrder(n)'
    <2>1. \A other \in Runners :
             ~At(other, "idle") => /\ command.verb \notin {"down", "reset"}
                                   /\ Verb(other) \notin {"down", "reset"}
      BY <1>3, <1>4
    <2>2. InFileOrder(n)'
      BY <1>3, <1>4 DEF InOrder, InFileOrder, TrackedNames
    <2>3. Follows(r, n)'
      <3>1. command.verb \in {"down", "reset"} => \A other \in Runners : At(other, "idle")
        BY <2>1
      <3>2. ASSUME command.verb \in {"down", "reset"} PROVE Alone(r)'
        <4>1. \A other \in Runners : runners[other].pc = "idle"
          BY <3>1, <3>2 DEF At
        <4>2. QED BY <1>1, <4>1 DEF Alone, At, OthersUnchanged
      <3>3. QED BY <1>1, <3>2 DEF Follows, Verb
    <2>4. ASSUME NEW s \in Runners, s # r PROVE Follows(s, n)'
      <3>1. runners'[s] = runners[s] /\ Follows(s, n)
        BY <1>1, <1>4, <2>4 DEF InOrder, OthersUnchanged
      <3>2. QED BY <1>3, <2>1, <3>1 DEF Follows, At, Verb, Climbs, Descends, InTransaction
    <2>5. QED BY <2>2, <2>3, <2>4 DEF InOrder
  <1>5. QED BY <1>2, <1>3, <1>4 DEF OrderInv

\* The list is worked out from a record that is in order.
LEMMA PlanKeepsOrder ==
    ASSUME InitialSegments, TypeInv, OrderInv, NEW r \in Runners, Plan(r)
    PROVE  OrderInv'
  <1>1. TypeOK /\ runners[r].pc = "read" /\ tracked' = tracked /\ orderly' = orderly
    BY DEF TypeInv, Plan, At, database
  <1>2. CASE Ends(r)
    <2>1. /\ OthersUnchanged(r) /\ runners'[r].pc = "idle"
          /\ runners'[r].command = runners[r].command
      BY <1>1, <1>2, EndsFacts
    <2>2. QED BY <1>1, <2>1, QuietKeepsOrder DEF At
  <1>3. CASE /\ OthersUnchanged(r) /\ runners'[r].pc = "begin"
             /\ runners'[r].command = runners[r].command
             /\ \/ Verb(r) = "up" /\ runners'[r].todo = ToApply(runners[r].command)
                \/ Verb(r) = "down" /\ runners'[r].todo = ToRollBack(runners[r].command)
    <2>1. \A s \in Runners : runners'[s].pc \in {"confirm", "drop"} => Verb(s)' = "reset"
      BY <1>3 DEF OrderInv, OthersUnchanged, Verb
    <2>2. ASSUME NEW n \in 0..Len(Files), InOrder(n) PROVE InOrder(n)'
      <3>1. InFileOrder(n) /\ runners[r].command \in Command /\ n \in Nat
        BY <1>1, <2>2, CommandType, FilesFacts DEF InOrder
      <3>2. InFileOrder(n)'
        BY <1>1, <3>1 DEF InFileOrder, TrackedNames
      <3>3. Verb(r)' = Verb(r) /\ ~InTransaction(r)'
        BY <1>3 DEF Verb, InTransaction, At
      <3>4. Verb(r) = "up" => Climbs(r, n)'
        <4> SUFFICES ASSUME Verb(r) = "up" PROVE Climbs(r, n)'
          OBVIOUS
        <4>1. runners'[r].todo = ToApply(runners[r].command)
          BY <1>3
        <4>2. \A i \in 1..Len(ToApply(runners[r].command)) :
                /\ n + i <= Len(Files) /\ ToApply(runners[r].command)[i] = Files[n + i]
          BY <1>1, <3>1, UpListClimbs
        <4>3. n + 1 \in 1..n + 1 /\ \A i \in Nat : (n + 1) + i - 1 = n + i
          BY <3>1
        <4>4. \A i \in 1..Len(runners'[r].todo) :
                /\ (n + 1) + i - 1 <= Len(Files)
                /\ runners'[r].todo[i] = Files[(n + 1) + i - 1]
          <5> TAKE i \in 1..Len(runners'[r].todo)
          <5>1. i \in 1..Len(ToApply(runners[r].command)) /\ i \in Nat
            BY <4>1
          <5>2. QED BY <4>1, <4>2, <4>3, <5>1
        <4>5. QED BY <3>3, <4>3, <4>4 DEF Climbs
      <3>5. Verb(r) = "down" => Descends(r, n)'
        <4> SUFFICES ASSUME Verb(r) = "down" PROVE Descends(r, n)'
          OBVIOUS
        <4>1. runners'[r].todo = ToRollBack(runners[r].command)
          BY <1>3
        <4>2. QED BY <1>1, <3>1, <4>1, DownListDescends DEF Descends
      <3>6. Verb(r) \in {"down", "reset"} => Alone(r)'
        BY <1>1, <1>3, <2>2 DEF InOrder, Follows, Alone, At, OthersUnchanged
      <3>7. Follows(r, n)'
        BY <3>3, <3>4, <3>5, <3>6 DEF Follows
      <3>8. ASSUME NEW s \in Runners, s # r PROVE Follows(s, n)'
        <4>1. runners'[s] = runners[s] /\ Follows(s, n)
          BY <1>3, <2>2, <3>8 DEF InOrder, OthersUnchanged
        <4>2. ~At(s, "idle") /\ Verb(s) \in {"down", "reset"} => FALSE
          BY <1>1, <3>8, <4>1 DEF Follows, Alone, At
        <4>3. QED
          BY <1>1, <4>1, <4>2 DEF Follows, At, Verb, Climbs, Descends, InTransaction
      <3>9. QED BY <3>2, <3>7, <3>8 DEF InOrder
    <2>3. QED BY <1>1, <2>1, <2>2 DEF OrderInv
  <1>4. QED BY <1>1, <1>2, <1>3, PlanFacts

\* Opening a transaction leaves the list as it is.
LEMMA BeginKeepsOrder ==
    ASSUME TypeInv, OrderInv, NEW r \in Runners, ApplyUp(r) \/ ApplyDown(r)
    PROVE  OrderInv'
  <1>1. /\ OthersUnchanged(r) /\ runners'[r].pc = "commit" /\ runners[r].pc = "begin"
        /\ runners'[r].todo = runners[r].todo /\ runners'[r].command = runners[r].command
        /\ Verb(r) = "up" => runners'[r].id = nextId
        /\ tracked' = tracked /\ orderly' = orderly
    <2>1. CASE ApplyUp(r)
      BY <2>1 DEF ApplyUp, OthersUnchanged, TypeInv, TypeOK, RunnerState, At
    <2>2. CASE ApplyDown(r)
      <3>1. Becomes(r, "commit") /\ Verb(r) = "down"
        BY <2>2 DEF ApplyDown
      <3>2. QED BY <2>2, <3>1, BecomesFacts DEF ApplyDown, TypeInv, At, database
    <2>3. QED BY <2>1, <2>2
  <1>2. \A s \in Runners : runners'[s].pc \in {"confirm", "drop"} => Verb(s)' = "reset"
    BY <1>1 DEF OrderInv, OthersUnchanged, Verb
  <1>3. ASSUME NEW n \in 0..Len(Files), InOrder(n) PROVE InOrder(n)'
    <2>1. InFileOrder(n)'
      BY <1>1, <1>3 DEF InOrder, InFileOrder, TrackedNames
    <2>2. Verb(r)' = Verb(r)
      BY <1>1 DEF Verb
    <2>3. Verb(r) = "up" => Climbs(r, n)'
      <3> SUFFICES ASSUME Verb(r) = "up" PROVE Climbs(r, n)'
        OBVIOUS
      <3>1. Climbs(r, n)
        BY <1>1, <1>3 DEF InOrder, Follows
      <3>2. \A row \in tracked' : row.id < runners'[r].id
        BY <1>1 DEF TypeInv, TypeOK
      <3>3. QED BY <1>1, <3>1, <3>2 DEF Climbs
    <2>4. Verb(r) = "down" => Descends(r, n)'
      BY <1>1, <1>3 DEF InOrder, Follows, Descends
    <2>5. Verb(r) \in {"down", "reset"} => Alone(r)'
      BY <1>1, <1>3 DEF InOrder, Follows, Alone, At, OthersUnchanged
    <2>6. Follows(r, n)'
      BY <2>2, <2>3, <2>4, <2>5 DEF Follows
    <2>7. ASSUME NEW s \in Runners, s # r PROVE Follows(s, n)'
      <3>1. runners'[s] = runners[s] /\ Follows(s, n)
        BY <1>1, <1>3, <2>7 DEF InOrder, OthersUnchanged
      <3>2. ~At(s, "idle") /\ Verb(s) \in {"down", "reset"} => FALSE
        BY <1>1, <2>7, <3>1 DEF Follows, Alone, At
      <3>3. QED
        BY <1>1, <3>1, <3>2 DEF Follows, At, Verb, Climbs, Descends, InTransaction
    <2>8. QED BY <2>1, <2>6, <2>7 DEF InOrder
  <1>4. QED BY <1>1, <1>2, <1>3 DEF OrderInv

LEMMA FirstFacts ==
    /\ First(0) = {}
    /\ \A n \in 0..Len(Files), i \in 1..Len(Files) : Files[i] \in First(n) <=> i <= n
    /\ \A n \in Nat : First(n + 1) = First(n) \cup {Files[n + 1]}
    /\ \A n \in 1..Len(Files) : First(n - 1) = First(n) \ {Files[n]}
  BY FilesFacts DEF First

\* COMMIT of the next file in order, by the one runner that has it open.
LEMMA CommitUpKeepsOrder ==
    ASSUME TypeInv, NEW r \in Runners, Commit(r), Verb(r) = "up",
           NEW n \in 0..Len(Files), InOrder(n)
    PROVE  n + 1 \in 0..Len(Files) /\ InOrder(n + 1)'
  <1> DEFINE todo == runners[r].todo
             added == [id |-> runners[r].id, name |-> Current(r)]
  <1>1. /\ TypeOK /\ InTransaction(r) /\ Transacting(r) /\ todo \in Seq(Names) /\ todo # << >>
        /\ n \in Nat /\ Len(Files) \in Nat
    <2>1. TypeOK /\ InTransaction(r) /\ Transacting(r) /\ todo # << >>
      BY DEF TypeInv, Commit, InTransaction, At
    <2>2. QED BY <2>1, TodoType, FilesFacts
  <1>2. /\ OthersUnchanged(r) /\ runners'[r].pc \in {"idle", "begin"}
        /\ runners'[r].todo = Tail(todo) /\ runners'[r].command = runners[r].command
    <2>1. Advances(r, {Current(r)}) /\ {Current(r)} \subseteq Names
      BY <1>1, CurrentType DEF Commit
    <2>2. QED BY <1>1, <2>1, AdvancesFacts
  <1>3. tracked' = tracked \cup {added}
    BY DEF Commit
  <1>4. Climbs(r, n) /\ InFileOrder(n)
    BY <1>1 DEF InOrder, Follows, InTransaction, At
  <1>5. PICK h \in 1..n + 1 : \A i \in 1..Len(todo) :
                h + i - 1 <= Len(Files) /\ todo[i] = Files[h + i - 1]
    BY <1>4 DEF Climbs
  <1>6. /\ 1 \in 1..Len(todo) /\ Current(r) = todo[1] /\ Tail(todo) \in Seq(Names)
        /\ Len(Tail(todo)) = Len(todo) - 1 /\ Len(todo) \in Nat
        /\ \A i \in 1..Len(Tail(todo)) : Tail(todo)[i] = todo[i + 1]
    BY <1>1, TailFacts DEF Current
  <1> HIDE DEF todo
  <1>7. h \in Nat /\ h >= 1 /\ h <= n + 1
    BY <1>1
  <1>8. h <= Len(Files) /\ Current(r) = Files[h]
    <2>1. h + 1 - 1 = h
      BY <1>7
    <2>2. QED BY <1>5, <1>6, <2>1
  <1>9. Current(r) \notin First(n)
    BY <1>1, <1>4 DEF Transacting, InFileOrder, TrackedNames
  <1>10. h = n + 1
    BY <1>1, <1>7, <1>8, <1>9, FirstFacts
  <1>11. n + 1 \in 1..Len(Files) /\ n + 1 \in 0..Len(Files) /\ Current(r) = Files[n + 1]
    BY <1>1, <1>8, <1>10
  <1>12. added.id = runners[r].id /\ added.name = Files[n + 1]
    BY <1>11
  <1>13. \A row \in tracked : row.id < added.id
    BY <1>1, <1>4, <1>12 DEF Climbs
  <1> HIDE DEF added
  <1>14. InFileOrder(n + 1)'
    <2>1. TrackedNames' = TrackedNames \cup {Files[n + 1]}
      BY <1>3, <1>12 DEF TrackedNames
    <2>2. TrackedNames' = First(n + 1)
      BY <1>1, <1>4, <2>1, FirstFacts DEF InFileOrder
    <2>3. \A x \in tracked, i \in 1..n + 1 : x.name = Files[i] => i \in 1..n
      <3> SUFFICES ASSUME NEW x \in tracked, NEW i \in 1..n + 1, x.name = Files[i]
                   PROVE  i \in 1..n
        OBVIOUS
      <3>1. Files[i] \in First(n)
        BY <1>4 DEF InFileOrder, TrackedNames
      <3>2. i \in 1..Len(Files) /\ i \in Nat
        BY <1>1, <1>11
      <3>3. QED BY <1>1, <3>1, <3>2, FirstFacts
    <2>4. \A i \in 1..n + 1 : added.name = Files[i] => i = n + 1
      <3> SUFFICES ASSUME NEW i \in 1..n + 1, Files[n + 1] = Files[i] PROVE i = n + 1
        BY <1>12
      <3>1. i \in 1..Len(Files)
        BY <1>1, <1>11
      <3>2. QED BY <1>11, <3>1, FilesFacts
    <2>5. ASSUME NEW x \in tracked', NEW y \in tracked', NEW i \in 1..n + 1, NEW j \in 1..n + 1,
                 x.name = Files[i], y.name = Files[j], i < j
          PROVE  x.id < y.id
      <3>0. i \in Nat /\ j \in Nat /\ i <= n + 1 /\ j <= n + 1
        BY <1>1
      <3>1. x # added
        BY <1>1, <2>4, <2>5, <3>0
      <3>2. x \in tracked
        BY <1>3, <3>1
      <3>3. CASE y = added
        BY <1>13, <3>2, <3>3
      <3>4. CASE y \in tracked
        BY <1>4, <2>3, <2>5, <3>2, <3>4 DEF InFileOrder
      <3>5. QED BY <1>3, <3>3, <3>4
    <2>6. QED BY <2>2, <2>5 DEF InFileOrder
  <1>15. Follows(r, n + 1)'
    <2>1. ~InTransaction(r)' /\ Verb(r)' = "up"
      BY <1>2 DEF InTransaction, At, Verb
    <2>2. \A i \in 1..Len(Tail(todo)) :
            /\ (n + 2) + i - 1 <= Len(Files)
            /\ Tail(todo)[i] = Files[(n + 2) + i - 1]
      <3> TAKE i \in 1..Len(Tail(todo))
      <3>1. i + 1 \in 1..Len(todo) /\ i \in Nat
        BY <1>6
      <3>2. h + (i + 1) - 1 = (n + 2) + i - 1
        BY <1>1, <1>10, <3>1
      <3>3. h + (i + 1) - 1 <= Len(Files) /\ todo[i + 1] = Files[h + (i + 1) - 1]
        BY <1>5, <3>1
      <3>4. QED BY <1>6, <3>2, <3>3
    <2>3. n + 2 \in 1..(n + 1) + 1
      BY <1>1
    <2>4. Climbs(r, n + 1)'
      BY <1>2, <2>1, <2>2, <2>3 DEF Climbs
    <2>5. QED BY <2>1, <2>4 DEF Follows
  <1>16. ASSUME NEW s \in Runners, s # r PROVE Follows(s, n + 1)'
    <2>1. runners'[s] = runners[s] /\ Follows(s, n)
      BY <1>2, <1>16 DEF InOrder, OthersUnchanged
    <2>2. ~At(s, "idle") /\ Verb(s) \in {"down", "reset"} => FALSE
      BY <1>1, <1>16, <2>1 DEF Follows, Alone, At, InTransaction
    <2>3. ASSUME runners[s].pc \in {"begin", "commit"}, Verb(s) = "up"
          PROVE  Climbs(s, n + 1)'
      <3>1. Climbs(s, n)
        BY <2>1, <2>3 DEF Follows
      <3>2. PICK k \in 1..n + 1 : \A i \in 1..Len(runners[s].todo) :
                k + i - 1 <= Len(Files) /\ runners[s].todo[i] = Files[k + i - 1]
        BY <3>1 DEF Climbs
      <3>3. k \in 1..(n + 1) + 1
        BY <1>1
      <3>4. ~InTransaction(s)
        <4> SUFFICES ASSUME InTransaction(s) PROVE FALSE
          OBVIOUS
        <4>1. Transacting(s) /\ Apart(s, r)
          BY <1>1, <1>16 DEF TypeInv
        <4>2. Current(s) \notin First(n)
          BY <1>4, <2>3, <4>1 DEF Transacting, InFileOrder, TrackedNames
        <4>3. runners[s].todo # << >> /\ runners[s].todo \in Seq(Names)
          BY <1>1, <2>3, TodoType DEF TypeInv
        <4>4. 1 \in 1..Len(runners[s].todo) /\ Current(s) = runners[s].todo[1]
          BY <4>3, TailFacts DEF Current
        <4>5. k \in Nat /\ k >= 1 /\ k <= n + 1 /\ k + 1 - 1 = k
          BY <1>1
        <4>6. k <= Len(Files) /\ Current(s) = Files[k]
          BY <3>2, <4>4, <4>5
        <4>7. k = n + 1
          BY <1>1, <4>2, <4>5, <4>6, FirstFacts
        <4>8. QED BY <1>11, <4>1, <4>6, <4>7 DEF Apart
      <3>5. QED BY <2>1, <3>2, <3>3, <3>4 DEF Climbs, InTransaction, At
    <2>4. QED BY <2>1, <2>2, <2>3 DEF Follows, At, Verb
  <1>17. QED BY <1>11, <1>14, <1>15, <1>16 DEF InOrder

\* COMMIT of the rollback of the last applied file, by a runner that is alone.
LEMMA CommitDownKeepsOrder ==
    ASSUME TypeInv, NEW r \in Runners, Commit(r), Verb(r) # "up",
           NEW n \in 0..Len(Files), InOrder(n)
    PROVE  n - 1 \in 0..Len(Files) /\ InOrder(n - 1)'
  <1> DEFINE todo == runners[r].todo
  <1>1. /\ TypeOK /\ InTransaction(r) /\ Transacting(r) /\ todo \in Seq(Names) /\ todo # << >>
        /\ n \in Nat /\ Len(Files) \in Nat
    <2>1. TypeOK /\ InTransaction(r) /\ Transacting(r) /\ todo # << >>
      BY DEF TypeInv, Commit, InTransaction, At
    <2>2. QED BY <2>1, TodoType, FilesFacts
  <1>2. /\ OthersUnchanged(r) /\ runners'[r].pc \in {"idle", "begin"}
        /\ runners'[r].todo = Tail(todo) /\ runners'[r].command = runners[r].command
    <2>1. Advances(r, {Current(r)}) /\ {Current(r)} \subseteq Names
      BY <1>1, CurrentType DEF Commit
    <2>2. QED BY <1>1, <2>1, AdvancesFacts
  <1>3. tracked' = {row \in tracked : row.name # Current(r)}
    BY DEF Commit
  <1>4. Verb(r) = "down" /\ Descends(r, n) /\ InFileOrder(n) /\ Alone(r)
    BY <1>1 DEF InOrder, Follows, InTransaction, At, Transacting
  <1>5. Len(todo) <= n /\ \A i \in 1..Len(todo) : todo[i] = Files[n + 1 - i]
    BY <1>4 DEF Descends
  <1>6. /\ 1 \in 1..Len(todo) /\ Current(r) = todo[1] /\ Tail(todo) \in Seq(Names)
        /\ Len(Tail(todo)) = Len(todo) - 1 /\ Len(todo) \in Nat \ {0}
        /\ \A i \in 1..Len(Tail(todo)) : Tail(todo)[i] = todo[i + 1]
    BY <1>1, TailFacts DEF Current
  <1> HIDE DEF todo
  <1>7. n \in 1..Len(Files) /\ n - 1 \in 0..Len(Files) /\ n + 1 - 1 = n
    BY <1>1, <1>5, <1>6
  <1>8. Current(r) = Files[n]
    BY <1>5, <1>6, <1>7
  <1>9. InFileOrder(n - 1)'
    <2>1. TrackedNames' = TrackedNames \ {Files[n]}
      BY <1>3, <1>8 DEF TrackedNames
    <2>2. TrackedNames' = First(n - 1)
      BY <1>4, <1>7, <2>1, FirstFacts DEF InFileOrder
    <2>3. \A i \in 1..n - 1 : i \in 1..n
      BY <1>1
    <2>4. \A x, y \in tracked', i, j \in 1..n - 1 :
            x.name = Files[i] /\ y.name = Files[j] /\ i < j => x.id < y.id
      BY <1>3, <1>4, <2>3 DEF InFileOrder
    <2>5. QED BY <2>2, <2>4 DEF InFileOrder
  <1>10. Verb(r)' = "down" /\ Alone(r)'
    BY <1>2, <1>4 DEF Verb, Alone, At, OthersUnchanged
  <1>11. Descends(r, n - 1)'
    <2>1. Len(Tail(todo)) <= n - 1
      BY <1>1, <1>5, <1>6
    <2>2. \A i \in 1..Len(Tail(todo)) : Tail(todo)[i] = Files[(n - 1) + 1 - i]
      <3> TAKE i \in 1..Len(Tail(todo))
      <3>1. i + 1 \in 1..Len(todo) /\ i \in Nat
        BY <1>6
      <3>2. n + 1 - (i + 1) = (n - 1) + 1 - i
        BY <1>1, <3>1
      <3>3. QED BY <1>5, <1>6, <3>1, <3>2
    <2>3. QED BY <1>2, <2>1, <2>2 DEF Descends
  <1>12. Follows(r, n - 1)'
    BY <1>10, <1>11 DEF Follows
  <1>13. ASSUME NEW s \in Runners, s # r PROVE Follows(s, n - 1)'
    BY <1>2, <1>4, <1>13 DEF Follows, Alone, At, OthersUnchanged
  <1>14. QED BY <1>7, <1>9, <1>12, <1>13 DEF InOrder

LEMMA CommitKeepsOrder ==
    ASSUME TypeInv, OrderInv, NEW r \in Runners, Commit(r)
    PROVE  OrderInv'
  <1>1. TypeOK /\ runners[r].todo # << >>
    BY DEF TypeInv, Commit, At
  <1>2. OthersUnchanged(r) /\ runners'[r].pc \in {"idle", "begin"}
    <2>1. Advances(r, {Current(r)}) /\ {Current(r)} \subseteq Names
      BY <1>1, CurrentType DEF Commit
    <2>2. QED BY <1>1, <2>1, AdvancesFacts
  <1>3. \A s \in Runners : runners'[s].pc \in {"confirm", "drop"} => Verb(s)' = "reset"
    BY <1>2 DEF OrderInv, OthersUnchanged, Verb
  <1>4. orderly' = orderly
    BY DEF Commit
  <1>5. ASSUME NEW n \in 0..Len(Files), InOrder(n)
        PROVE  \E m \in 0..Len(Files) : InOrder(m)'
    <2>1. CASE Verb(r) = "up"
      BY <1>5, <2>1, CommitUpKeepsOrder
    <2>2. CASE Verb(r) # "up"
      BY <1>5, <2>2, CommitDownKeepsOrder
    <2>3. QED BY <2>1, <2>2
  <1>6. QED BY <1>3, <1>4, <1>5 DEF OrderInv

\* DROP SCHEMA leaves none applied, to a runner that is alone.
LEMMA DropKeepsOrder ==
    ASSUME TypeInv, OrderInv, NEW r \in Runners, DropSchema(r)
    PROVE  OrderInv'
  <1>1. Becomes(r, "create") /\ tracked' = {} /\ orderly' = orderly /\ runners[r].pc = "drop"
    BY DEF DropSchema, At
  <1>2. /\ OthersUnchanged(r) /\ runners'[r].pc = "create"
        /\ runners'[r].command = runners[r].command
    BY <1>1, BecomesFacts DEF TypeInv
  <1>3. Verb(r) = "reset"
    BY <1>1 DEF OrderInv
  <1>4. \A s \in Runners : runners'[s].pc \in {"confirm", "drop"} => Verb(s)' = "reset"
    BY <1>2 DEF OrderInv, OthersUnchanged, Verb
  <1>5. ASSUME NEW n \in 0..Len(Files), InOrder(n) PROVE InOrder(0)'
    <2>1. Alone(r)
      BY <1>1, <1>3, <1>5 DEF InOrder, Follows, At
    <2>2. InFileOrder(0)'
      BY <1>1, FirstFacts DEF InFileOrder, TrackedNames
    <2>3. Follows(r, 0)'
      BY <1>2, <2>1 DEF Follows, Alone, At, OthersUnchanged
    <2>4. ASSUME NEW s \in Runners, s # r PROVE Follows(s, 0)'
      BY <1>2, <2>1, <2>4 DEF Follows, Alone, At, OthersUnchanged
    <2>5. QED BY <2>2, <2>3, <2>4 DEF InOrder
  <1>6. 0 \in 0..Len(Files)
    BY FilesFacts
  <1>7. QED BY <1>1, <1>4, <1>5, <1>6 DEF OrderInv

LEMMA NextKeepsOrder ==
    ASSUME InitialSegments, TypeInv, OrderInv, [Next]_vars
    PROVE  OrderInv'
  <1>1. TypeOK
    BY DEF TypeInv
  <1>2. ASSUME NEW r \in Runners, ~At(r, "idle"), Ends(r), tracked' = tracked, orderly' = orderly
        PROVE  OrderInv'
    <2>1. /\ OthersUnchanged(r) /\ runners'[r].pc = "idle"
          /\ runners'[r].command = runners[r].command
      BY <1>1, <1>2, EndsFacts
    <2>2. QED BY <1>2, <2>1, QuietKeepsOrder
  <1>3. ASSUME NEW r \in Runners, NEW pc \in {"ensure table", "read", "drop"}, Becomes(r, pc),
               ~At(r, "idle"), pc = "drop" => At(r, "confirm"),
               tracked' = tracked, orderly' = orderly
        PROVE  OrderInv'
    <2>1. /\ OthersUnchanged(r) /\ runners'[r].pc = pc
          /\ runners'[r].command = runners[r].command
      BY <1>1, <1>3, BecomesFacts
    <2>2. QED BY <1>3, <2>1, QuietKeepsOrder DEF At
  <1>4. ASSUME NEW r \in Runners, Proceeds(r) PROVE OrderInv'
    <2>1. CASE ensureSchema(r) BY <1>3, <2>1 DEF ensureSchema, At
    <2>2. CASE ensureTrackingTable(r) BY <1>3, <2>2 DEF ensureTrackingTable, At
    <2>3. CASE Plan(r) BY <2>3, PlanKeepsOrder
    <2>4. CASE ApplyUp(r) \/ ApplyDown(r) BY <2>4, BeginKeepsOrder
    <2>5. CASE Skip(r)
      <3>1. /\ Advances(r, {}) /\ {} \subseteq Names /\ runners[r].todo # << >> /\ ~orderly'
        BY <2>5 DEF Skip, TypeInv, At
      <3>2. OthersUnchanged(r) /\ runners'[r].pc \in {"idle", "begin"}
        BY <1>1, <3>1, AdvancesFacts
      <3>3. QED BY <3>1, <3>2 DEF OrderInv, OthersUnchanged, Verb
    <2>6. CASE Commit(r) BY <2>6, CommitKeepsOrder
    <2>7. CASE DropSchema(r) BY <2>7, DropKeepsOrder
    <2>8. CASE CreateSchema(r) BY <1>2, <2>8 DEF CreateSchema, At
    <2>9. CASE Refused(r) BY <1>2, <2>9 DEF Refused, At, database
    <2>10. QED
      BY <1>4, <2>1, <2>2, <2>3, <2>4, <2>5, <2>6, <2>7, <2>8, <2>9 DEF Proceeds
  <1>5. ASSUME NEW r \in Runners, confirm(r) \/ Rollback(r) \/ QueryFails(r) \/ Crash(r)
        PROVE  OrderInv'
    <2>1. ~At(r, "idle") /\ tracked' = tracked /\ orderly' = orderly
      BY <1>5 DEF confirm, Rollback, QueryFails, Crash, At, database
    <2>2. Ends(r) \/ (Becomes(r, "drop") /\ At(r, "confirm"))
      BY <1>5 DEF confirm, Rollback, QueryFails, Crash
    <2>3. QED BY <1>2, <1>3, <2>1, <2>2
  <1>6. ASSUME tracked' = tracked, runners' = runners, orderly' = orderly PROVE OrderInv'
    <2>1. \A n : InFileOrder(n)' <=> InFileOrder(n)
      BY <1>6 DEF InFileOrder, TrackedNames
    <2>2. \A r, n : Follows(r, n)' <=> Follows(r, n)
      <3>0. \A r : InTransaction(r)' <=> InTransaction(r)
        BY <1>6 DEF InTransaction, At
      <3>1. \A r, n : Descends(r, n)' <=> Descends(r, n)
        BY <1>6 DEF Descends
      <3>4. \A r, n : Climbs(r, n)' <=> Climbs(r, n)
        BY <1>6, <3>0 DEF Climbs
      <3>2. \A r : /\ Alone(r)' <=> Alone(r)
                   /\ Verb(r)' = Verb(r)
                   /\ At(r, "idle")' <=> At(r, "idle")
        BY <1>6 DEF Alone, Verb, At
      <3>3. QED BY <1>6, <3>1, <3>2, <3>4 DEF Follows
    <2>3. \A n : InOrder(n)' <=> InOrder(n)
      BY <2>1, <2>2 DEF InOrder
    <2>4. QED BY <1>6, <2>3 DEF OrderInv, Verb
  <1>7. CASE Deploy
    BY <1>6, <1>7 DEF Deploy, database
  <1>8. CASE UNCHANGED vars
    BY <1>6, <1>8 DEF vars, database
  <1>9. QED BY <1>4, <1>5, <1>7, <1>8, IssueKeepsOrder DEF Next

\* Whatever fails or dies, the applied migrations are the first files in name
\* order, none skipped and none ahead, with any number of deployments running up
\* at once, over any sequence of working trees that only ever add files behind
\* the last, as long as every down and reset has the database to itself.
THEOREM AppliedInOrder ==
    ASSUME InitialSegments
    PROVE  Spec => []AppliedIsPrefix
  <1>1. Init => OrderInv
    <2> SUFFICES ASSUME Init PROVE OrderInv
      OBVIOUS
    <2>1. \A r \in Runners : runners[r].pc = "idle"
      BY DEF Init, Idle
    <2>2. InFileOrder(0)
      BY FirstFacts DEF Init, InFileOrder, TrackedNames
    <2>3. \A r \in Runners : Follows(r, 0)
      BY <2>1 DEF Follows, At
    <2>4. 0 \in 0..Len(Files)
      BY FilesFacts
    <2>5. QED BY <2>1, <2>2, <2>3, <2>4 DEF OrderInv, InOrder
  <1>2. TypeInv /\ OrderInv /\ [Next]_vars => OrderInv'
    BY NextKeepsOrder
  <1>3. TypeInv /\ OrderInv => AppliedIsPrefix
    <2> SUFFICES ASSUME TypeInv, OrderInv, orderly
                 PROVE  /\ Len(getApplied) <= Len(Files)
                        /\ \A i \in DOMAIN getApplied : getApplied[i] = Files[i]
      BY DEF AppliedIsPrefix
    <2>1. PICK n \in 0..Len(Files) : InFileOrder(n)
      BY DEF OrderInv, InOrder
    <2>2. getApplied = [i \in 1..n |-> Files[i]] /\ n \in Nat
      BY <2>1, AppliedInFileOrder, FilesFacts DEF TypeInv
    <2>3. Len(getApplied) = n
      BY <2>2
    <2>4. QED BY <2>2, <2>3, FilesFacts
  <1>4. QED BY <1>1, <1>2, <1>3, InitTypes, NextKeepsTypes, PTL DEF Spec
===========================================================================
