------------------------ MODULE NginxBackfillProofs ------------------------
(***************************************************************************)
(* Theorems about the nginx backfill, for any log files, windows, batch    *)
(* size and pattern library, any number of starts and crashes, and         *)
(* operators that follow the printed advice or do not.                     *)
(***************************************************************************)
EXTENDS NginxBackfill, OrderingProofs, SequenceTheorems

Logged == ToSet(Lines)
AllWindows == Windows \cup DetectedWindows
Databases == SUBSET {"city", "asn"}

\* No client sends for an agent what nginx writes for a missing one.
AgentsAreNoDashes == \A line \in Parseable : RequestOf[line].userAgent \notin {"-", ""}

RunState ==
    [pc : {"idle", "check", "insert"}, window : AllWindows \cup {NoWindow},
     dryRun : BOOLEAN, geo : Databases, rest : Seq(Parseable),
     others : SUBSET Logged]

RunInv ==
    /\ stored \in [Logged -> Nat]
    /\ runs \in [Runs -> RunState]
    /\ \A r \in Runs : runs[r].pc # "idle" => runs[r].window \in AllWindows

\* What a step may do.
LEMMA NextCases ==
    ASSUME [Next]_vars
    PROVE  \/ \E r \in Runs :
                 \/ \E window \in AllWindows, dryRun \in BOOLEAN, geo \in Databases :
                       Start(r, window, dryRun, geo)
                 \/ Refuses(r) \/ DryRuns(r) \/ Scans(r) \/ InsertBatch(r) \/ Crash(r)
           \/ \E window \in advised : FollowAdvice(window)
           \/ UNCHANGED vars
  BY DEF Next, AllWindows, Databases

---------------------------------------------------------------------------
(* Rows and batches *)

Distinct(s) == \A i, j \in DOMAIN s : s[i] = s[j] => i = j

\* The rows of a window are the lines in it, each of them once.
LEMMA RowsFacts ==
    ASSUME NEW window
    PROVE  /\ RowsOf(window) \in Seq(Parseable)
           /\ ToSet(RowsOf(window)) = {line \in Parseable : InGap(line, window)}
           /\ Distinct(RowsOf(window))
  <1> DEFINE kept == {i \in DOMAIN Lines : Lines[i] \in Parseable /\ InGap(Lines[i], window)}
             n == Cardinality(kept)
             at == Ascending(kept)
             rows == [k \in 1..n |-> Lines[at[k]]]
  <1>1. /\ DOMAIN Lines = 1..Len(Lines) /\ Len(Lines) \in Nat /\ Parseable \subseteq ToSet(Lines)
        /\ \A i, j \in DOMAIN Lines : Lines[i] = Lines[j] => i = j
    <2>1. Lines \in Seq(ToSet(Lines))
      BY BackfillAssumption DEF BackfillAssumption
    <2>2. DOMAIN Lines = 1..Len(Lines) /\ Len(Lines) \in Nat
      BY <2>1
    <2>3. \A i, j \in DOMAIN Lines : Lines[i] = Lines[j] => i = j
      BY BackfillAssumption DEF BackfillAssumption
    <2>4. Parseable \subseteq ToSet(Lines)
      BY BackfillAssumption DEF BackfillAssumption
    <2>5. QED BY <2>2, <2>3, <2>4
  <1>2. kept \subseteq Nat /\ IsFiniteSet(kept)
    <2>1. IsFiniteSet(1..Len(Lines))
      BY <1>1, FS_Interval
    <2>2. QED BY <1>1, <2>1, FS_Subset
  <1>3. /\ n \in Nat /\ DOMAIN at = 1..n
        /\ \A k \in 1..n : at[k] \in kept
        /\ \A j, k \in 1..n : j < k => at[j] < at[k]
        /\ \A i \in kept : \E k \in 1..n : at[k] = i
    BY <1>2, AscendingLists
  <1>4. RowsOf(window) = rows
    BY <1>3 DEF RowsOf, EntriesAt
  <1>5. \A k \in 1..n : rows[k] = Lines[at[k]] /\ at[k] \in DOMAIN Lines
                            /\ rows[k] \in Parseable /\ InGap(rows[k], window)
    BY <1>3
  <1>6. rows \in Seq(Parseable) /\ DOMAIN rows = 1..n
    BY <1>3, <1>5
  <1>7. ASSUME NEW line \in Parseable, InGap(line, window)
        PROVE  \E k \in 1..n : rows[k] = line
    <2>1. PICK i \in DOMAIN Lines : Lines[i] = line
      BY <1>1 DEF ToSet
    <2>2. i \in kept
      BY <1>7, <2>1
    <2>3. QED BY <1>3, <2>1, <2>2
  <1>8. ASSUME NEW j \in 1..n, NEW k \in 1..n, rows[j] = rows[k] PROVE j = k
    <2>1. at[j] = at[k]
      BY <1>1, <1>5, <1>8
    <2>2. at[j] \in Nat
      BY <1>2, <1>3
    <2>3. ~(j < k) /\ ~(k < j)
      BY <1>3, <2>1, <2>2
    <2>4. QED BY <1>3, <2>3
  <1> HIDE DEF rows
  <1>9. ToSet(rows) = {line \in Parseable : InGap(line, window)}
    BY <1>5, <1>6, <1>7 DEF ToSet
  <1>10. QED BY <1>4, <1>6, <1>8, <1>9 DEF Distinct

\* A slice and what is left after it are the rows there were.
LEMMA BatchFacts ==
    ASSUME NEW rest \in Seq(Parseable)
    PROVE  LET batch == NextBatch(rest) IN
           /\ batch.later \in Seq(Parseable)
           /\ ToSet(batch.now) \cup ToSet(batch.later) = ToSet(rest)
           /\ Distinct(rest) => /\ Distinct(batch.later)
                                /\ ToSet(batch.now) \cap ToSet(batch.later) = {}
  <1> DEFINE n == Len(rest)
             m == Least(BatchSize, n)
             now == SubSeq(rest, 1, m)
             later == SubSeq(rest, BatchSize + 1, n)
  <1>1. n \in Nat /\ DOMAIN rest = 1..n /\ \A i \in 1..n : rest[i] \in Parseable
    OBVIOUS
  <1>2. BatchSize \in Nat \ {0}
    BY BackfillAssumption DEF BackfillAssumption
  <1> HIDE DEF n
  <1>3. m \in 0..n /\ ((m = n /\ n < BatchSize + 1) \/ (m = BatchSize /\ BatchSize < n))
    BY <1>1, <1>2 DEF Least
  <1> HIDE DEF m
  <1>4. /\ now \in Seq(Parseable) /\ Len(now) = m /\ DOMAIN now = 1..m
        /\ \A i \in 1..m : now[i] = rest[i]
    <2>1. \A i \in 1..m : rest[i] \in Parseable
      BY <1>1, <1>3
    <2>2. now \in Seq(Parseable) /\ Len(now) = m /\ \A i \in 1..m : now[i] = rest[i]
      BY <1>3, <2>1, SubSeqProperties
    <2>3. QED BY <2>2
  <1>5. /\ later \in Seq(Parseable) /\ Len(later) = n - m /\ DOMAIN later = 1..(n - m)
        /\ \A i \in 1..(n - m) : later[i] = rest[m + i]
    <2>1. CASE m = n /\ n < BatchSize + 1
      <3>1. later = << >>
        BY <1>1, <1>2, <2>1, SubSeqEmpty
      <3>2. n - m = 0 /\ 1..(n - m) = {}
        BY <1>1, <2>1
      <3>3. << >> \in Seq(Parseable) /\ Len(<< >>) = 0 /\ DOMAIN << >> = {}
        OBVIOUS
      <3>4. QED BY <3>1, <3>2, <3>3
    <2>2. CASE m = BatchSize /\ BatchSize < n
      <3>1. \A i \in (BatchSize + 1)..n : rest[i] \in Parseable
        BY <1>1, <1>2
      <3>2. /\ later \in Seq(Parseable) /\ Len(later) = n - (BatchSize + 1) + 1
            /\ \A i \in 1..(n - (BatchSize + 1) + 1) : later[i] = rest[(BatchSize + 1) + i - 1]
        BY <1>1, <1>2, <2>2, <3>1, SubSeqProperties
      <3> HIDE DEF later
      <3>3. QED BY <1>1, <1>2, <2>2, <3>2
    <2>3. QED BY <1>3, <2>1, <2>2
  <1>6. NextBatch(rest).now = now /\ NextBatch(rest).later = later
    BY DEF NextBatch, n, m
  <1> HIDE DEF now, later
  <1>7. ToSet(now) \cup ToSet(later) = ToSet(rest)
    <2>1. \A i \in 1..n : i \in 1..m \/ \E j \in 1..(n - m) : i = m + j
      <3>1. \A i \in 1..n : i \in 1..m \/ (i - m \in 1..(n - m) /\ m + (i - m) = i)
        BY <1>1, <1>3
      <3>2. QED BY <3>1
    <2>2. \A i \in 1..n : rest[i] \in ToSet(now) \cup ToSet(later)
      <3>1. ASSUME NEW i \in 1..n PROVE rest[i] \in ToSet(now) \cup ToSet(later)
        <4>1. CASE i \in 1..m
          BY <1>4, <4>1 DEF ToSet
        <4>2. ASSUME NEW j \in 1..(n - m), i = m + j PROVE rest[i] \in ToSet(later)
          BY <1>5, <4>2 DEF ToSet
        <4>3. QED BY <2>1, <4>1, <4>2
      <3>2. QED BY <3>1
    <2>3. \A i \in 1..m : i \in 1..n
      BY <1>1, <1>3
    <2>4. \A i \in 1..(n - m) : m + i \in 1..n
      BY <1>1, <1>3
    <2>5. ToSet(now) \subseteq ToSet(rest)
      BY <1>1, <1>4, <2>3 DEF ToSet
    <2>6. \A j \in 1..(n - m) : later[j] = rest[m + j] /\ rest[m + j] \in ToSet(rest)
      BY <1>1, <1>5, <2>4 DEF ToSet
    <2>7. ToSet(later) \subseteq ToSet(rest)
      BY <1>5, <2>6 DEF ToSet
    <2>8. ToSet(rest) \subseteq ToSet(now) \cup ToSet(later)
      BY <1>1, <2>2 DEF ToSet
    <2>9. QED BY <2>5, <2>7, <2>8
  <1>8. ASSUME Distinct(rest)
        PROVE  Distinct(later) /\ ToSet(now) \cap ToSet(later) = {}
    <2>1. \A i \in 1..(n - m) : m + i \in 1..n
      BY <1>1, <1>3
    <2>2. \A i \in 1..m, j \in 1..(n - m) : i \in 1..n /\ i # m + j
      BY <1>1, <1>3
    <2>3. ASSUME NEW i \in 1..(n - m), NEW j \in 1..(n - m), later[i] = later[j] PROVE i = j
      <3>1. m + i = m + j
        BY <1>1, <1>5, <1>8, <2>1, <2>3 DEF Distinct
      <3>2. QED BY <1>1, <1>3, <3>1
    <2>4. Distinct(later)
      BY <1>5, <2>3 DEF Distinct
    <2>5. ASSUME NEW i \in 1..m, NEW j \in 1..(n - m) PROVE now[i] # later[j]
      <3>1. i \in 1..n /\ m + j \in 1..n /\ i # m + j
        BY <2>1, <2>2
      <3>2. rest[i] # rest[m + j]
        BY <1>1, <1>8, <3>1 DEF Distinct
      <3>3. QED BY <1>4, <1>5, <3>2
    <2>6. QED BY <1>4, <1>5, <2>4, <2>5 DEF ToSet
  <1>9. QED BY <1>5, <1>6, <1>7, <1>8

\* A process once another, or itself, has inserted a batch.
After(r, s, batch) ==
    IF s = r
    THEN [runs[r] EXCEPT !.rest = batch.later,
                         !.pc = IF batch.later = << >> THEN "idle" ELSE "insert"]
    ELSE [runs[s] EXCEPT !.others =
             IF runs[s].pc = "insert" THEN @ \cup ToSet(batch.now) ELSE @]

\* What is inserted was logged.
LEMMA BatchLogged ==
    ASSUME RunInv, NEW r \in Runs, InsertBatch(r)
    PROVE  ToSet(NextBatch(runs[r].rest).now) \subseteq Logged
  <1>1. runs[r].rest \in Seq(Parseable)
    BY DEF RunInv, RunState
  <1>2. ToSet(runs[r].rest) \subseteq Parseable
    BY <1>1 DEF ToSet
  <1>3. Parseable \subseteq Logged
    BY BackfillAssumption DEF BackfillAssumption, Logged
  <1>4. QED BY <1>1, <1>2, <1>3, BatchFacts

---------------------------------------------------------------------------
(* Types *)

LEMMA RunStep ==
    ASSUME RunInv, [Next]_vars
    PROVE  RunInv'
  <1> USE DEF RunInv, RunState
  <1>0. Idle \in RunState
    <2>1. << >> \in Seq(Parseable)
      OBVIOUS
    <2>2. QED BY <2>1 DEF Idle, Databases
  <1>1. ASSUME NEW r \in Runs, NEW window \in AllWindows, NEW dryRun \in BOOLEAN,
               NEW geo \in Databases, Start(r, window, dryRun, geo)
        PROVE  RunInv'
    BY <1>0, <1>1 DEF Start
  <1>2. ASSUME NEW r \in Runs, Refuses(r) \/ DryRuns(r) \/ Crash(r)
        PROVE  RunInv'
    <2>1. runs' = [runs EXCEPT ![r] = Idle] /\ stored' = stored
      BY <1>2 DEF Refuses, DryRuns, Crash, Ends
    <2>2. Idle.pc = "idle"
      BY DEF Idle
    <2>3. QED BY <1>0, <2>1, <2>2
  <1>3. ASSUME NEW r \in Runs, Scans(r) PROVE RunInv'
    <2> DEFINE rows == RowsOf(runs[r].window)
    <2>1. rows \in Seq(Parseable)
      BY RowsFacts
    <2>2. /\ runs[r].pc = "check" /\ stored' = stored
          /\ runs' = [runs EXCEPT ![r].pc = IF rows = << >> THEN "idle" ELSE "insert",
                                  ![r].rest = rows]
      BY <1>3 DEF Scans
    <2> HIDE DEF rows
    <2> DEFINE run == [runs[r] EXCEPT !.pc = IF rows = << >> THEN "idle" ELSE "insert",
                                      !.rest = rows]
    <2>3. run \in RunState
      BY <2>1
    <2>4. runs' = [runs EXCEPT ![r] = run] /\ run.window = runs[r].window
      BY <2>2
    <2> HIDE DEF run
    <2>5. runs' \in [Runs -> RunState]
      BY <2>3, <2>4
    <2>6. QED BY <2>2, <2>4, <2>5
  <1>4. ASSUME NEW r \in Runs, InsertBatch(r) PROVE RunInv'
    <2> DEFINE batch == NextBatch(runs[r].rest)
    <2>1. batch.later \in Seq(Parseable)
      BY BatchFacts
    <2>2. /\ runs[r].pc = "insert"
          /\ stored' = [line \in Logged |->
                           stored[line] + IF line \in ToSet(batch.now) THEN 1 ELSE 0]
          /\ runs' = [s \in Runs |-> After(r, s, batch)]
      BY <1>4 DEF InsertBatch, Logged, After
    <2>3. ToSet(batch.now) \subseteq Logged
      BY <1>4, BatchLogged
    <2> HIDE DEF batch
    <2>4. stored' \in [Logged -> Nat]
      BY <2>2
    <2>5. \A s \in Runs : /\ After(r, s, batch) \in RunState
                          /\ After(r, s, batch).window = runs[s].window
                          /\ After(r, s, batch).pc # "idle" => runs[s].pc # "idle"
      BY <2>1, <2>2, <2>3 DEF After
    <2>6. runs' \in [Runs -> RunState]
      BY <2>2, <2>5
    <2>7. QED BY <2>2, <2>4, <2>5, <2>6
  <1>5. ASSUME NEW window \in advised, FollowAdvice(window) PROVE RunInv'
    BY <1>5 DEF FollowAdvice, Logged
  <1>6. ASSUME UNCHANGED vars PROVE RunInv'
    BY <1>6 DEF vars
  <1>7. QED BY <1>1, <1>2, <1>3, <1>4, <1>5, <1>6, NextCases

LEMMA RunInit == Init => RunInv
  <1>1. << >> \in Seq(Parseable)
    OBVIOUS
  <1>2. QED BY <1>1 DEF Init, RunInv, RunState, Idle, Logged, Databases

---------------------------------------------------------------------------
(* Complete windows *)

\* What a run has not inserted yet it still holds.
CoverInv ==
    \A r \in Runs : runs[r].pc = "insert" =>
        \A line \in Parseable :
            InGap(line, runs[r].window) => stored[line] > 0 \/ line \in ToSet(runs[r].rest)

\* A batch only adds rows, and adds one for each of its lines.
LEMMA BatchStored ==
    ASSUME RunInv, NEW r \in Runs, InsertBatch(r)
    PROVE  LET batch == NextBatch(runs[r].rest) IN
           /\ \A line \in Logged :
                 /\ stored'[line] >= stored[line]
                 /\ line \in ToSet(batch.now) => stored'[line] = stored[line] + 1
                 /\ line \notin ToSet(batch.now) => stored'[line] = stored[line]
           /\ runs[r].pc = "insert"
           /\ runs'[r].window = runs[r].window /\ runs'[r].rest = batch.later
           /\ runs'[r].pc = IF batch.later = << >> THEN "idle" ELSE "insert"
           /\ \A s \in Runs : s # r =>
                 /\ runs'[s].pc = runs[s].pc /\ runs'[s].window = runs[s].window
                 /\ runs'[s].rest = runs[s].rest /\ runs[s].others \subseteq runs'[s].others
                 /\ runs[s].pc = "insert" => ToSet(batch.now) \subseteq runs'[s].others
           /\ runs'[r].others = runs[r].others
  <1> DEFINE batch == NextBatch(runs[r].rest)
  <1>1. /\ runs[r].pc = "insert"
        /\ stored' = [line \in Logged |->
                         stored[line] + IF line \in ToSet(batch.now) THEN 1 ELSE 0]
        /\ runs' = [s \in Runs |-> After(r, s, batch)]
    BY DEF InsertBatch, Logged, After
  <1> HIDE DEF batch
  <1>2. \A line \in Logged : stored[line] \in Nat
    BY DEF RunInv
  <1>3. runs \in [Runs -> RunState]
    BY DEF RunInv
  <1>4. /\ \A s \in Runs : runs'[s] = After(r, s, batch)
        /\ \A line \in Logged : stored'[line] =
              stored[line] + IF line \in ToSet(batch.now) THEN 1 ELSE 0
    BY <1>1
  <1>5. \A s \in Runs : s # r =>
            /\ runs'[s].pc = runs[s].pc /\ runs'[s].window = runs[s].window
            /\ runs'[s].rest = runs[s].rest /\ runs[s].others \subseteq runs'[s].others
            /\ runs[s].pc = "insert" => ToSet(batch.now) \subseteq runs'[s].others
    <2> SUFFICES ASSUME NEW s \in Runs, s # r
                 PROVE  /\ runs'[s].pc = runs[s].pc /\ runs'[s].window = runs[s].window
                        /\ runs'[s].rest = runs[s].rest
                        /\ runs[s].others \subseteq runs'[s].others
                        /\ runs[s].pc = "insert" => ToSet(batch.now) \subseteq runs'[s].others
      OBVIOUS
    <2>1. runs[s] \in RunState
      BY <1>3
    <2> DEFINE others == IF runs[s].pc = "insert" THEN runs[s].others \cup ToSet(batch.now)
                         ELSE runs[s].others
    <2>2. runs'[s] = [runs[s] EXCEPT !.others = others]
      BY <1>4 DEF After
    <2>3. runs[s].others \subseteq others /\ (runs[s].pc = "insert" => ToSet(batch.now) \subseteq others)
      OBVIOUS
    <2> HIDE DEF others
    <2>4. QED BY <2>1, <2>2, <2>3 DEF RunState
  <1>6. /\ runs'[r].window = runs[r].window /\ runs'[r].rest = batch.later
        /\ runs'[r].pc = IF batch.later = << >> THEN "idle" ELSE "insert"
        /\ runs'[r].others = runs[r].others
    BY <1>3, <1>4 DEF RunState, After
  <1>7. \A line \in Logged :
            /\ stored'[line] >= stored[line]
            /\ line \in ToSet(batch.now) => stored'[line] = stored[line] + 1
            /\ line \notin ToSet(batch.now) => stored'[line] = stored[line]
    BY <1>2, <1>4
  <1>8. QED BY <1>1, <1>5, <1>6, <1>7 DEF batch

LEMMA CoverStep ==
    ASSUME RunInv, CoverInv, [Next]_vars
    PROVE  CoverInv'
  <1> USE DEF CoverInv
  <1>0. Parseable \subseteq Logged
    BY BackfillAssumption DEF BackfillAssumption, Logged
  <1>2. ASSUME NEW r \in Runs, NEW window, NEW dryRun, NEW geo, Start(r, window, dryRun, geo)
        PROVE  CoverInv'
    BY <1>2 DEF Start, RunInv
  <1>3. ASSUME NEW r \in Runs, Refuses(r) \/ DryRuns(r) \/ Crash(r) PROVE CoverInv'
    <2>1. runs' = [runs EXCEPT ![r] = Idle] /\ stored' = stored /\ Idle.pc = "idle"
      BY <1>3 DEF Refuses, DryRuns, Crash, Ends, Idle
    <2>2. QED BY <2>1 DEF RunInv
  <1>4. ASSUME NEW r \in Runs, Scans(r) PROVE CoverInv'
    <2> DEFINE rows == RowsOf(runs[r].window)
    <2>1. ToSet(rows) = {line \in Parseable : InGap(line, runs[r].window)}
      BY RowsFacts
    <2>2. /\ stored' = stored
          /\ runs' = [runs EXCEPT ![r].pc = IF rows = << >> THEN "idle" ELSE "insert",
                                  ![r].rest = rows]
      BY <1>4 DEF Scans
    <2> HIDE DEF rows
    <2>3. /\ runs'[r].window = runs[r].window /\ runs'[r].rest = rows
          /\ \A s \in Runs : s # r => runs'[s] = runs[s]
      BY <2>2 DEF RunInv, RunState
    <2>4. QED BY <2>1, <2>2, <2>3
  <1>5. ASSUME NEW r \in Runs, InsertBatch(r) PROVE CoverInv'
    <2> DEFINE batch == NextBatch(runs[r].rest)
    <2>1. ToSet(batch.now) \cup ToSet(batch.later) = ToSet(runs[r].rest)
      BY BatchFacts DEF RunInv, RunState
    <2>2. /\ \A line \in Logged :
                 /\ stored[line] \in Nat /\ stored'[line] >= stored[line]
                 /\ stored'[line] \in Nat
                 /\ line \in ToSet(batch.now) => stored'[line] = stored[line] + 1
          /\ runs[r].pc = "insert"
          /\ runs'[r].window = runs[r].window /\ runs'[r].rest = batch.later
          /\ \A s \in Runs : s # r =>
                /\ runs'[s].pc = runs[s].pc /\ runs'[s].window = runs[s].window
                /\ runs'[s].rest = runs[s].rest
      BY <1>5, BatchStored, RunStep DEF RunInv
    <2> HIDE DEF batch
    <2>3. \A line \in Parseable : InGap(line, runs[r].window) =>
              stored'[line] > 0 \/ line \in ToSet(batch.later)
      BY <1>0, <2>1, <2>2
    <2>4. \A line \in Parseable : stored[line] > 0 => stored'[line] > 0
      BY <1>0, <2>2
    <2>5. QED BY <2>2, <2>3, <2>4 DEF InGap
  <1>6. ASSUME NEW window \in advised, FollowAdvice(window) PROVE CoverInv'
    BY <1>6 DEF FollowAdvice
  <1>7. ASSUME UNCHANGED vars PROVE CoverInv'
    BY <1>7 DEF vars
  <1>8. QED BY <1>2, <1>3, <1>4, <1>5, <1>6, <1>7, NextCases

\* Batches cover the window and what a crashed run left is never taken for the
\* whole: with any batch size, any number of processes at once and any crashes, the
\* batch that ends a run leaves every request of its window in the table.
THEOREM WindowsComplete == Spec => DoneMeansComplete
  <1>1. Init => CoverInv
    BY DEF Init, CoverInv, Idle
  <1>2. ASSUME RunInv, CoverInv, NEW r \in Runs, InsertBatch(r), runs'[r].pc = "idle",
               NEW line \in Parseable, InGap(line, runs[r].window)
        PROVE  stored'[line] > 0
    <2> DEFINE batch == NextBatch(runs[r].rest)
    <2>1. line \in Logged
      BY BackfillAssumption DEF BackfillAssumption, Logged
    <2>2. /\ stored'[line] >= stored[line] /\ stored[line] \in Nat
          /\ line \in ToSet(batch.now) => stored'[line] = stored[line] + 1
          /\ runs[r].pc = "insert" /\ batch.later = << >>
      BY <1>2, <2>1, BatchStored DEF RunInv
    <2>3. ToSet(batch.now) \cup ToSet(batch.later) = ToSet(runs[r].rest)
      BY <1>2, BatchFacts DEF RunInv, RunState
    <2> HIDE DEF batch
    <2>4. ToSet(batch.later) = {}
      BY <2>2 DEF ToSet
    <2>5. stored[line] > 0 \/ line \in ToSet(batch.now)
      BY <1>2, <2>2, <2>3, <2>4 DEF CoverInv
    <2>6. stored'[line] \in Int
      BY <1>2, <2>1, BatchStored DEF RunInv
    <2>7. QED BY <2>2, <2>5, <2>6
  <1>3. RunInv /\ CoverInv /\ [Next]_vars
            => [\A r \in Runs : runs[r].pc = "insert" /\ InsertBatch(r) /\ runs'[r].pc = "idle"
                   => \A line \in Parseable : InGap(line, runs[r].window)
                                                  => stored'[line] > 0]_vars
    BY <1>2
  <1>4. RunInv /\ [Next]_vars => RunInv'
    BY RunStep
  <1>5. RunInv /\ CoverInv /\ [Next]_vars => CoverInv'
    BY CoverStep
  <1>6. QED BY <1>1, <1>3, <1>4, <1>5, RunInit, PTL DEF Spec, DoneMeansComplete

---------------------------------------------------------------------------
(* No line twice *)

\* What a run has still to insert, and is there already, was logged when its window
\* ends or came from others.
Known(run, line) == At[line] = run.window.to \/ line \in run.others

TwiceInv ==
    \A r \in Runs : runs[r].pc = "insert" =>
        /\ Distinct(runs[r].rest)
        /\ \A line \in ToSet(runs[r].rest) : stored[line] > 0 => Known(runs[r], line)

\* A window in which the tool counts no row has none of its lines in the table, but
\* for those of its last second.
LEMMA CountedNone ==
    ASSUME RunInv, NEW window \in AllWindows,
           countBackfilledRowsInWindow(window) = 0,
           NEW line \in Parseable, InGap(line, window), At[line] # window.to
    PROVE  stored[line] = 0
  <1> DEFINE counted == {l \in Logged : stored[l] > 0 /\ InCount(l, window)}
  <1>1. IsFiniteSet(Logged)
    <2>1. DOMAIN Lines = 1..Len(Lines) /\ Len(Lines) \in Nat
      <3>1. Lines \in Seq(ToSet(Lines))
        BY BackfillAssumption DEF BackfillAssumption
      <3>2. QED BY <3>1
    <2>2. IsFiniteSet(DOMAIN Lines)
      BY <2>1, FS_Interval
    <2>3. Lines \in Surjection(DOMAIN Lines, Logged)
      <3>1. Lines \in [DOMAIN Lines -> Logged] /\ \A l \in Logged : \E i \in DOMAIN Lines : Lines[i] = l
        <4>1. Lines \in Seq(ToSet(Lines))
          BY BackfillAssumption DEF BackfillAssumption
        <4>2. Lines \in [DOMAIN Lines -> Logged]
          BY <4>1 DEF Logged
        <4>3. QED BY <4>2 DEF Logged, ToSet
      <3>2. QED BY <3>1 DEF Surjection
    <2>4. QED BY <2>2, <2>3, FS_Surjection
  <1>2. IsFiniteSet(counted) /\ Cardinality(counted) = 0
    BY <1>1, FS_Subset DEF countBackfilledRowsInWindow, Logged
  <1>3. counted = {}
    BY <1>2, FS_EmptySet
  <1>4. line \in Logged /\ At[line] \in Nat
    BY BackfillAssumption DEF BackfillAssumption, Logged
  <1>5. window.from \in Nat /\ window.to \in Nat
    <2>1. CASE window \in Windows
      BY <2>1, BackfillAssumption DEF BackfillAssumption
    <2>2. CASE window \in DetectedWindows
      <3>1. PICK last \in RealAt : window = [from |-> last, to |-> Now]
        BY <2>2 DEF DetectedWindows
      <3>2. RealAt \subseteq Nat /\ Now \in Nat
        BY BackfillAssumption DEF BackfillAssumption
      <3>3. last \in Nat
        BY <3>2
      <3>4. QED BY <3>1, <3>2, <3>3
    <2>3. QED BY <2>1, <2>2 DEF AllWindows
  <1>6. InCount(line, window)
    BY <1>4, <1>5 DEF InGap, InCount
  <1>7. stored[line] \in Nat
    BY <1>4 DEF RunInv
  <1>8. QED BY <1>3, <1>4, <1>6, <1>7

LEMMA TwiceStep ==
    ASSUME RunInv, TwiceInv, [Next]_vars
    PROVE  TwiceInv'
  <1> USE DEF TwiceInv, Known
  <1>0. Parseable \subseteq Logged
    BY BackfillAssumption DEF BackfillAssumption, Logged
  <1>1. ASSUME NEW r \in Runs, NEW window, NEW dryRun, NEW geo, Start(r, window, dryRun, geo)
        PROVE  TwiceInv'
    BY <1>1 DEF Start, RunInv
  <1>2. ASSUME NEW r \in Runs, Refuses(r) \/ DryRuns(r) \/ Crash(r) PROVE TwiceInv'
    <2>1. runs' = [runs EXCEPT ![r] = Idle] /\ stored' = stored /\ Idle.pc = "idle"
      BY <1>2 DEF Refuses, DryRuns, Crash, Ends, Idle
    <2>2. QED BY <2>1 DEF RunInv
  <1>3. ASSUME NEW r \in Runs, Scans(r) PROVE TwiceInv'
    <2> DEFINE window == runs[r].window
               rows == RowsOf(window)
    <2>1. ToSet(rows) = {line \in Parseable : InGap(line, window)} /\ Distinct(rows)
      BY RowsFacts
    <2>2. /\ stored' = stored /\ runs[r].pc = "check"
          /\ countBackfilledRowsInWindow(window) = 0
          /\ runs' = [runs EXCEPT ![r].pc = IF rows = << >> THEN "idle" ELSE "insert",
                                  ![r].rest = rows]
      BY <1>3 DEF Scans
    <2>3. window \in AllWindows
      BY <2>2 DEF RunInv
    <2> HIDE DEF rows, window
    <2>4. \A line \in ToSet(rows) : stored[line] = 0 \/ At[line] = window.to
      BY <2>1, <2>2, <2>3, CountedNone
    <2>5. /\ runs'[r].rest = rows /\ runs'[r].window = window
          /\ \A s \in Runs : s # r => runs'[s] = runs[s]
      BY <2>2 DEF RunInv, RunState, window
    <2>6. Distinct(runs'[r].rest)
      BY <2>1, <2>5
    <2>7. \A line \in ToSet(runs'[r].rest) : stored'[line] > 0 => At[line] = runs'[r].window.to
      BY <2>2, <2>4, <2>5
    <2>8. QED BY <2>2, <2>5, <2>6, <2>7
  <1>4. ASSUME NEW r \in Runs, InsertBatch(r) PROVE TwiceInv'
    <2> DEFINE batch == NextBatch(runs[r].rest)
    <2>1. /\ ToSet(batch.now) \cup ToSet(batch.later) = ToSet(runs[r].rest)
          /\ Distinct(runs[r].rest) => /\ Distinct(batch.later)
                                       /\ ToSet(batch.now) \cap ToSet(batch.later) = {}
      BY BatchFacts DEF RunInv, RunState
    <2>2. \A s \in Runs : ToSet(runs[s].rest) \subseteq Logged
      BY <1>0 DEF RunInv, RunState, ToSet
    <2>3. /\ \A line \in Logged : line \notin ToSet(batch.now) => stored'[line] = stored[line]
          /\ runs[r].pc = "insert" /\ runs'[r].rest = batch.later
          /\ runs'[r].window = runs[r].window /\ runs'[r].others = runs[r].others
          /\ \A s \in Runs : s # r =>
                /\ runs'[s].pc = runs[s].pc /\ runs'[s].window = runs[s].window
                /\ runs'[s].rest = runs[s].rest /\ runs[s].others \subseteq runs'[s].others
                /\ runs[s].pc = "insert" => ToSet(batch.now) \subseteq runs'[s].others
      BY <1>4, BatchStored
    <2> HIDE DEF batch
    <2>4. Distinct(batch.later) /\ ToSet(batch.now) \cap ToSet(batch.later) = {}
      BY <2>1, <2>3
    <2>5. ASSUME NEW line \in ToSet(batch.later), stored'[line] > 0
          PROVE  Known(runs[r], line)
      BY <2>1, <2>2, <2>3, <2>4, <2>5
    <2>6. ASSUME NEW s \in Runs, s # r, runs[s].pc = "insert",
                 NEW line \in ToSet(runs[s].rest), stored'[line] > 0
          PROVE  At[line] = runs[s].window.to \/ line \in runs'[s].others
      BY <2>2, <2>3, <2>6
    <2>7. QED BY <2>3, <2>4, <2>5, <2>6
  <1>5. ASSUME NEW window \in advised, FollowAdvice(window) PROVE TwiceInv'
    BY <1>5 DEF FollowAdvice
  <1>6. ASSUME UNCHANGED vars PROVE TwiceInv'
    BY <1>6 DEF vars
  <1>7. QED BY <1>1, <1>2, <1>3, <1>4, <1>5, <1>6, NextCases

\* However often runs die between two batches, are refused and are started over, with
\* any number of them at once and windows that end anywhere: a run inserts a line that
\* is there already only if another run inserted it since the check, or it was logged
\* in the very last second of the window.
THEOREM NoneTwice == Spec => NoLineTwice
  <1>1. Init => TwiceInv
    BY DEF Init, TwiceInv, Idle
  <1>2. RunInv /\ TwiceInv /\ [Next]_vars => TwiceInv'
    BY TwiceStep
  <1>3. ASSUME RunInv, TwiceInv, NEW r \in Runs, NEW line \in ToSet(Lines),
               InsertBatch(r), stored[line] > 0, stored'[line] > stored[line]
        PROVE  At[line] = runs[r].window.to \/ line \in runs[r].others
    <2> DEFINE batch == NextBatch(runs[r].rest)
    <2>1. /\ line \notin ToSet(batch.now) => stored'[line] = stored[line]
          /\ runs[r].pc = "insert" /\ stored[line] \in Nat
      BY <1>3, BatchStored DEF Logged, RunInv
    <2>2. ToSet(batch.now) \subseteq ToSet(runs[r].rest)
      BY <1>3, BatchFacts DEF RunInv, RunState
    <2> HIDE DEF batch
    <2>3. line \in ToSet(runs[r].rest)
      BY <1>3, <2>1, <2>2
    <2>4. QED BY <1>3, <2>1, <2>3 DEF TwiceInv, Known
  <1>4. RunInv /\ TwiceInv /\ [Next]_vars
            => [\A r \in Runs, line \in ToSet(Lines) :
                   InsertBatch(r) /\ stored[line] > 0 /\ stored'[line] > stored[line] =>
                       At[line] = runs[r].window.to \/ line \in runs[r].others]_vars
    BY <1>3
  <1>5. RunInv /\ [Next]_vars => RunInv'
    BY RunStep
  <1>6. QED BY <1>1, <1>2, <1>4, <1>5, RunInit, PTL DEF Spec, NoLineTwice

---------------------------------------------------------------------------
(* What a row says *)

\* Found in the texts of a request, whatever order they are tried in.
Found(threat, request) ==
    (IF request.body # NoText /\ request.body \in threat.matches THEN {"body"} ELSE {})
        \cup (IF request.url \in threat.matches THEN {"url"} ELSE {})
        \cup (IF request.method \in threat.matches THEN {"method"} ELSE {})

LEMMA BodyScanFinds ==
    ASSUME NEW threat, NEW request
    PROVE  BodyScan(threat, request, {}).categories = Found(threat, request)
  <1> DEFINE start == [categories |-> {}, resumes |-> threat \in {}]
             scanned == Scan(threat, start, "body", request.body)
             body == IF request.body = NoText THEN start ELSE scanned
             url == Scan(threat, body, "url", request.url)
             all == Scan(threat, url, "method", request.method)
             hit(text, category) == IF text \in threat.matches THEN {category} ELSE {}
  <1>1. BodyScan(threat, request, {}) = all
    BY DEF BodyScan
  <1>2. \A seen, category, text : ~seen.resumes =>
            /\ ~Scan(threat, seen, category, text).resumes
            /\ Scan(threat, seen, category, text).categories
                   = seen.categories \cup hit(text, category)
    BY DEF Scan
  <1>3. ~start.resumes
    BY Zenon
  <1>4. start.categories = {}
    OBVIOUS
  <1> HIDE DEF start
  <1>5. ~scanned.resumes /\ scanned.categories = hit(request.body, "body")
    <2>1. ~scanned.resumes /\ scanned.categories = start.categories \cup hit(request.body, "body")
      BY <1>2, <1>3
    <2> HIDE DEF scanned
    <2>2. QED BY <1>4, <2>1
  <1> HIDE DEF scanned, hit
  <1>6. ~body.resumes /\ body.categories = IF request.body = NoText THEN {}
                                           ELSE hit(request.body, "body")
    BY <1>3, <1>4, <1>5
  <1> HIDE DEF body
  <1>7. ~url.resumes /\ url.categories = body.categories \cup hit(request.url, "url")
    BY <1>2, <1>6
  <1> HIDE DEF url
  <1>8. all.categories = url.categories \cup hit(request.method, "method")
    BY <1>2, <1>7
  <1> HIDE DEF all
  <1>9. all.categories = ((IF request.body = NoText THEN {} ELSE hit(request.body, "body"))
                             \cup hit(request.url, "url")) \cup hit(request.method, "method")
    BY <1>6, <1>7, <1>8
  <1>10. (IF request.body = NoText THEN {} ELSE hit(request.body, "body"))
             = IF request.body # NoText /\ request.body \in threat.matches THEN {"body"} ELSE {}
    BY DEF hit
  <1>11. QED BY <1>1, <1>9, <1>10 DEF Found, hit

\* The signals of a request without its body are those that are not about its body.
LEMMA WithoutBody ==
    ASSUME NEW library, NEW request, NEW bodiless,
           bodiless.url = request.url, bodiless.method = request.method,
           bodiless.userAgent = request.userAgent, bodiless.body = NoText
    PROVE  detectThreats(library, bodiless, {}).signals
               = {s \in detectThreats(library, request, {}).signals : s.category # "body"}
  <1> DEFINE path(r) == {Signal("path", t) : t \in {u \in library.path : r.url \in u.matches}}
             method(r) == {Signal("method", t) :
                              t \in {u \in library.method : u.method = r.method}}
             found(t, r) == {Signal(c, t) : c \in Found(t, r)}
             body(r) == UNION {found(t, r) : t \in library.body}
             agent(r) == IF r.userAgent = NoText
                         THEN {[category |-> "agent", severity |-> "low"]} ELSE {}
  <1>1. \A r : detectThreats(library, r, {}).signals
                  = path(r) \cup method(r) \cup body(r) \cup agent(r)
    <2> TAKE r
    <2> DEFINE scans == [t \in library.body |-> BodyScan(t, r, {})]
               scanned == UNION {{Signal(c, t) : c \in scans[t].categories} : t \in library.body}
    <2>1. detectThreats(library, r, {}).signals
              = path(r) \cup method(r) \cup scanned \cup agent(r)
      BY DEF detectThreats
    <2>2. \A t \in library.body : scans[t].categories = Found(t, r)
      BY BodyScanFinds
    <2> HIDE DEF scans
    <2>3. scanned = body(r)
      BY <2>2
    <2> HIDE DEF scanned, body
    <2>4. QED BY <2>1, <2>3
  <1>2. path(bodiless) = path(request) /\ method(bodiless) = method(request)
            /\ agent(bodiless) = agent(request)
    OBVIOUS
  <1>3. \A c, t : Signal(c, t).category = c
    BY DEF Signal
  <1>4. \A s \in path(request) \cup method(request) \cup agent(request) : s.category # "body"
    BY <1>3
  <1>5. \A t : Found(t, bodiless) = Found(t, request) \ {"body"}
    BY DEF Found
  <1>6. \A t : found(t, bodiless) = {s \in found(t, request) : s.category # "body"}
    BY <1>3, <1>5
  <1> HIDE DEF found
  <1>7. body(bodiless) = {s \in body(request) : s.category # "body"}
    BY <1>6
  <1> HIDE DEF path, method, body, agent
  <1>8. QED BY <1>1, <1>2, <1>4, <1>7

\* The row of a line, written with whichever databases the run could load.
Written(line) == {enrichRequest(parseNginxLog(line), geo) : geo \in Databases}

LEMMA WrittenLikeLive ==
    ASSUME AgentsAreNoDashes, NEW line \in Parseable, NEW row \in Written(line)
    PROVE  LET request == RequestOf[line]
               live == detectThreats(Library, request, {})
           IN  /\ row.source = detectSource(request.userAgent)
               /\ row.threat_details = {s \in live.signals : s.category # "body"}
               /\ live.signals = row.threat_details => row.threat_level = live.level
               /\ row.ip_type = IF row.ip_location = {} THEN Unknown
                                ELSE classifyIp({"city", "asn"}, request.ip)
  <1> DEFINE request == RequestOf[line]
             parsed == parseNginxLog(line)
  <1>1. PICK geo \in Databases : row = enrichRequest(parsed, geo)
    BY DEF Written
  <1>2. UserAgent(line) = request.userAgent
    <2>1. LoggedAgent[line] \in IF request.userAgent = NoText THEN {"-", ""}
                                ELSE {request.userAgent}
      BY BackfillAssumption DEF BackfillAssumption
    <2>2. request.userAgent \notin {"-", ""}
      BY DEF AgentsAreNoDashes
    <2>3. QED BY <2>1, <2>2 DEF UserAgent
  <1>3. /\ parsed.ip = request.ip /\ parsed.url = request.url
        /\ parsed.method = request.method /\ parsed.user_agent = request.userAgent
    BY <1>2 DEF parseNginxLog
  <1> HIDE DEF parsed, request
  <1> DEFINE location == geoLookup(geo, parsed.ip)
             bodiless == [ url |-> parsed.url, method |-> parsed.method,
                           body |-> NoText, userAgent |-> parsed.user_agent ]
             threats == detectThreats(Library, bodiless, {})
             live == detectThreats(Library, request, {})
  <1>4. /\ row.source = detectSource(parsed.user_agent)
        /\ row.threat_details = threats.signals /\ row.threat_level = threats.level
        /\ row.ip_location = location /\ row.ip_type = classifyIp(location, parsed.ip)
    BY <1>1 DEF enrichRequest, deriveSource, detectSource
  <1>5. /\ bodiless.url = request.url /\ bodiless.method = request.method
        /\ bodiless.userAgent = request.userAgent /\ bodiless.body = NoText
    BY <1>3
  <1> HIDE DEF bodiless
  <1>6. threats.signals = {s \in live.signals : s.category # "body"}
    BY <1>5, WithoutBody
  <1>7. threats.level = HighestOf({s.severity : s \in threats.signals})
            /\ live.level = HighestOf({s.severity : s \in live.signals})
    BY DEF detectThreats
  <1> HIDE DEF threats, live
  <1>8. live.signals = row.threat_details => row.threat_level = live.level
    BY <1>4, <1>7
  <1>9. location = {} \/ location = {"city", "asn"}
    BY DEF geoLookup
  <1>10. classifyIp({}, parsed.ip) = Unknown
    BY DEF classifyIp
  <1> HIDE DEF location
  <1>11. row.ip_type = IF row.ip_location = {} THEN Unknown
                       ELSE classifyIp({"city", "asn"}, request.ip)
    BY <1>3, <1>4, <1>9, <1>10
  <1>12. QED BY <1>3, <1>4, <1>6, <1>8, <1>11 DEF live, request

ContentInv ==
    \A line \in Logged :
        stored[line] > 0 => line \in Parseable /\ content[line] \in Written(line)

LEMMA ContentStep ==
    ASSUME RunInv, ContentInv, [Next]_vars
    PROVE  ContentInv'
  <1> USE DEF ContentInv
  <1>1. ASSUME UNCHANGED <<stored, content>> PROVE ContentInv'
    BY <1>1 DEF Written
  <1>2. ASSUME NEW r \in Runs, InsertBatch(r) PROVE ContentInv'
    <2> DEFINE batch == NextBatch(runs[r].rest)
    <2>1. runs[r].rest \in Seq(Parseable) /\ runs[r].geo \in Databases
      BY DEF RunInv, RunState
    <2>2. ToSet(batch.now) \subseteq Parseable
      <3>1. ToSet(runs[r].rest) \subseteq Parseable
        BY <2>1 DEF ToSet
      <3>2. QED BY <2>1, <3>1, BatchFacts
    <2>3. /\ \A line \in Logged :
                 line \notin ToSet(batch.now) => stored'[line] = stored[line]
      BY <1>2, BatchStored
    <2>4. content' = [line \in Logged |->
                        IF line \in ToSet(batch.now)
                        THEN enrichRequest(parseNginxLog(line), runs[r].geo) ELSE content[line]]
      BY <1>2 DEF InsertBatch, Logged
    <2> HIDE DEF batch
    <2>5. ASSUME NEW line \in Logged, stored'[line] > 0
          PROVE  line \in Parseable /\ content'[line] \in Written(line)
      <3>1. CASE line \in ToSet(batch.now)
        BY <2>1, <2>2, <2>4, <3>1 DEF Written
      <3>2. CASE line \notin ToSet(batch.now)
        BY <2>3, <2>4, <2>5, <3>2
      <3>3. QED BY <3>1, <3>2
    <2>6. QED BY <2>5 DEF Written
  <1>3. ASSUME NEW window \in advised, FollowAdvice(window) PROVE ContentInv'
    <2>1. \A line \in Logged :
              /\ stored'[line] = IF line \in DeletedBy(window) THEN 0 ELSE stored[line]
              /\ content'[line] = IF line \in DeletedBy(window) THEN NoRow ELSE content[line]
      BY <1>3 DEF FollowAdvice, Logged
    <2>2. \A line \in Logged : stored'[line] > 0 =>
              stored'[line] = stored[line] /\ content'[line] = content[line]
      BY <2>1
    <2>3. QED BY <2>2 DEF Written
  <1>4. QED
    BY <1>1, <1>2, <1>3, NextCases DEF Start, Refuses, DryRuns, Scans, Crash, vars

\* Whichever databases a run could load, and whatever was deleted and filled again in
\* between, a backfilled row says of its request what the middleware's row would have
\* said, but for what the body alone gives away.
THEOREM LikeLive ==
    ASSUME AgentsAreNoDashes
    PROVE  Spec => []BackfilledLikeLive
  <1>1. Init => ContentInv
    BY DEF Init, ContentInv, Logged
  <1>2. ContentInv => BackfilledLikeLive
    <2> SUFFICES ASSUME ContentInv PROVE BackfilledLikeLive
      OBVIOUS
    <2>1. \A line \in ToSet(Lines) :
              stored[line] > 0 => line \in Parseable /\ content[line] \in Written(line)
      BY DEF ContentInv, Logged
    <2>2. QED BY <2>1, WrittenLikeLive DEF BackfilledLikeLive
  <1>3. RunInv /\ [Next]_vars => RunInv'
    BY RunStep
  <1>4. RunInv /\ ContentInv /\ [Next]_vars => ContentInv'
    BY ContentStep
  <1>5. QED BY <1>1, <1>2, <1>3, <1>4, RunInit, PTL DEF Spec
=============================================================================
