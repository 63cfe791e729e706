---------------------- MODULE BacktestStrategiesProofs ----------------------
(***************************************************************************)
(* Theorems about a backtest, for any log, window, step, suppression time, *)
(* confidence function and number of runs, crashes and campaigns set aside,*)
(* and about the tools that read the same table with the same strategies.  *)
(***************************************************************************)
EXTENDS BacktestStrategies, ScoreTuning, OrderingProofs

\* What a step may do.
LEMMA NextCases ==
    ASSUME [Next]_vars
    PROVE  \/ StartRun \/ LoadRequests \/ SkipGroup \/ UpsertCandidate \/ RecordMarkers
           \/ NextStrategy \/ Finish \/ Crash \/ SetCampaignStatus \/ UNCHANGED vars
  BY DEF Next, Step

---------------------------------------------------------------------------
(* Windows *)

ScanInv ==
    /\ pc \in {"idle", "load", "score", "mark", "done"}
    /\ log \in Logs /\ scanFrom \in Nat /\ step \in Nat \ {0}
    /\ epoch \in Nat \ {0} /\ turn \in 1..Len(OrderedStrategies)

LEMMA FourStrategies ==
    /\ Len(OrderedStrategies) = 4
    /\ OrderedStrategies[1] = "subnet-fingerprint-overlap"
    /\ OrderedStrategies[2] = "asn-path-fingerprint-cluster"
    /\ OrderedStrategies[3] = "ua-reputation"
    /\ OrderedStrategies[4] = "single-ip-burst"
  BY DEF OrderedStrategies

LEMMA ScanRange ==
    ASSUME log \in Logs, NEW fromArg \in FromArgs, ~Rejects(fromArg)
    PROVE  resolveScanRange(fromArg) \in Nat
  <1>1. CASE fromArg = NoArg
    <2> DEFINE times == {r.created_at : r \in log}
    <2>1. times \subseteq Nat /\ times # {}
      BY <1>1, LogAssumption DEF LogAssumption, IsATable, Rejects
    <2> HIDE DEF times
    <2>2. \E x \in times : \A y \in times : x <= y
      BY <2>1, LeastOf
    <2>3. Min(times) \in times
      BY <2>2 DEF Min
    <2>4. QED BY <1>1, <2>1, <2>3 DEF resolveScanRange, times
  <1>2. CASE fromArg # NoArg
    BY <1>2, ScanAssumption DEF ScanAssumption, resolveScanRange
  <1>3. QED BY <1>1, <1>2

LEMMA ScanStep == ScanInv /\ [Next]_vars => ScanInv'
  <1> SUFFICES ASSUME ScanInv, [Next]_vars PROVE ScanInv'
    OBVIOUS
  <1> USE DEF ScanInv
  <1>1. CASE StartRun
    <2>1. /\ step' \in StepIns /\ epoch' = 1 /\ log' = log /\ turn' = turn
          /\ \/ pc' = "idle" /\ scanFrom' = scanFrom
             \/ /\ pc' = "load"
                /\ \E fromArg \in FromArgs :
                      ~Rejects(fromArg) /\ scanFrom' = resolveScanRange(fromArg)
      BY <1>1 DEF StartRun
    <2>2. scanFrom' \in Nat
      BY <2>1, ScanRange
    <2>3. step' \in Nat \ {0}
      BY <2>1, ScanAssumption DEF ScanAssumption
    <2>4. QED BY <2>1, <2>2, <2>3
  <1>2. CASE LoadRequests
    <2>1. /\ log' = log /\ scanFrom' = scanFrom /\ step' = step
          /\ \/ epoch' = epoch + 1 /\ pc' = pc /\ turn' = turn
             \/ epoch' = epoch /\ pc' = "score" /\ turn' = 1
      BY <1>2 DEF LoadRequests, EmptyWindow, Begins
    <2>2. QED BY <2>1, FourStrategies
  <1>3. CASE SkipGroup
    BY <1>3 DEF SkipGroup
  <1>4. CASE UpsertCandidate
    BY <1>4 DEF UpsertCandidate
  <1>5. CASE RecordMarkers
    BY <1>5 DEF RecordMarkers
  <1>6. CASE NextStrategy
    <2>1. /\ log' = log /\ scanFrom' = scanFrom /\ step' = step
          /\ \/ /\ turn < Len(OrderedStrategies) /\ turn' = turn + 1
                /\ epoch' = epoch /\ pc' = "score"
             \/ epoch' = epoch + 1 /\ pc' = "load" /\ turn' = turn
      BY <1>6 DEF NextStrategy, Begins
    <2>2. QED BY <2>1, FourStrategies
  <1>7. CASE Finish
    BY <1>7 DEF Finish
  <1>8. CASE Crash
    BY <1>8 DEF Crash, runVars
  <1>9. CASE SetCampaignStatus
    BY <1>9 DEF SetCampaignStatus, runVars
  <1>10. CASE UNCHANGED vars
    BY <1>10 DEF vars, runVars
  <1>11. QED
    BY <1>1, <1>2, <1>3, <1>4, <1>5, <1>6, <1>7, <1>8, <1>9, <1>10, NextCases

LEMMA ScanInit == Init => ScanInv
  BY ScanAssumption, FourStrategies DEF Init, ScanInv, ScanAssumption

LEMMA ProductsGrow ==
    ASSUME NEW s \in Nat, NEW j \in Nat, NEW k \in Nat, j <= k
    PROVE  j * s <= k * s /\ j * s \in Nat /\ k * s \in Nat
  <1>1. k = j + (k - j) /\ k - j \in Nat
    OBVIOUS
  <1>2. k * s = j * s + (k - j) * s
    BY <1>1
  <1>3. (k - j) * s \in Nat /\ j * s \in Nat
    BY <1>1
  <1>4. QED BY <1>2, <1>3

\* Windows begin and end in their order, one step apart, within the scan.
LEMMA Epochs ==
    ASSUME ScanInv, NEW k \in Nat \ {0}, NEW l \in Nat \ {0}, k <= l
    PROVE  /\ EpochStart(k) \in Nat /\ EpochEnd(k) \in Nat
           /\ EpochStart(k) >= scanFrom /\ EpochStart(k + 1) = EpochStart(k) + step
           /\ EpochEnd(k) <= EpochEnd(l) /\ EpochEnd(k) <= ScanTo
  <1>1. /\ (k - 1) * step <= (l - 1) * step
        /\ (k - 1) * step \in Nat /\ (l - 1) * step \in Nat
    <2>1. k - 1 \in Nat /\ l - 1 \in Nat /\ k - 1 <= l - 1 /\ step \in Nat
      BY DEF ScanInv
    <2>2. QED BY <2>1, ProductsGrow
  <1>2. ((k + 1) - 1) * step = (k - 1) * step + step
    <2>1. k = (k - 1) + 1 /\ (k + 1) - 1 = k /\ step \in Nat
      BY DEF ScanInv
    <2>2. QED BY <2>1
  <1>3. scanFrom \in Nat /\ step \in Nat /\ ScanTo \in Nat /\ WindowIn \in Nat
    BY ScanAssumption DEF ScanInv, ScanAssumption
  <1>4. QED BY <1>1, <1>2, <1>3 DEF EpochStart, EpochEnd, Earlier

---------------------------------------------------------------------------
(* What is scanned *)

\* The next window that will be loaded.
NextEpoch == IF pc \in {"score", "mark"} THEN epoch + 1 ELSE epoch

InScan(r) == r.family = 4 /\ r.created_at >= scanFrom /\ r.created_at < ScanTo

\* A request has been loaded once the start of the next window is past it: once
\* if windows tumble, once at least if they overlap.
LoadedSoFar(r) ==
    /\ ~InScan(r) => scanned[r.id] = 0
    /\ InScan(r) /\ step = WindowIn =>
          scanned[r.id] = IF r.created_at < EpochStart(NextEpoch) THEN 1 ELSE 0
    /\ InScan(r) /\ step < WindowIn /\ r.created_at < EpochStart(NextEpoch) =>
          scanned[r.id] > 0

LoadInv ==
    /\ scanned \in [RequestIds -> Nat]
    /\ pc # "idle" => \A r \in log : LoadedSoFar(r)
    /\ pc = "done" => EpochStart(epoch) >= ScanTo

LEMMA LoadedCounts ==
    ASSUME ScanInv, LoadInv, LoadRequests, NEW r \in log
    PROVE  /\ r.id \in RequestIds /\ scanned[r.id] \in Nat /\ r.created_at \in Nat
           /\ scanned'[r.id] = scanned[r.id] + IF InWindow(r, epoch) THEN 1 ELSE 0
  <1> DEFINE loaded == {q \in log : InWindow(q, epoch)}
  <1>1. r.id \in RequestIds
    BY DEF RequestIds, ScanInv
  <1>2. scanned' = [id \in RequestIds |->
                       scanned[id] + IF \E q \in loaded : q.id = id THEN 1 ELSE 0]
    BY DEF LoadRequests
  <1>3. (\E q \in loaded : q.id = r.id) <=> InWindow(r, epoch)
    BY LogAssumption DEF LogAssumption, IsATable, ScanInv
  <1> HIDE DEF loaded
  <1>4. scanned'[r.id] = scanned[r.id] + IF \E q \in loaded : q.id = r.id THEN 1 ELSE 0
    BY <1>1, <1>2
  <1>5. r.created_at \in Nat /\ scanned[r.id] \in Nat
    BY <1>1, LogAssumption DEF LogAssumption, IsATable, ScanInv, LoadInv
  <1>6. QED BY <1>1, <1>3, <1>4, <1>5

\* The last window ends where the scan ends.
LEMMA LastEpoch ==
    ASSUME ScanInv, epoch > EpochCount
    PROVE  EpochStart(epoch) >= ScanTo
  <1> DEFINE span == ScanTo - scanFrom
  <1>1. span \in Int /\ step \in Nat /\ step > 0 /\ epoch \in Nat /\ epoch > 0
        /\ scanFrom \in Nat /\ ScanTo \in Nat
    BY ScanAssumption DEF ScanInv, ScanAssumption
  <1>2. EpochCount = (span + step - 1) \div step
    BY DEF EpochCount
  <1> HIDE DEF span
  <1> DEFINE n == (span + step - 1) \div step
  <1>3. n \in Int /\ n * step >= span
    BY <1>1
  <1> HIDE DEF n
  <1>4. epoch - 1 >= n /\ (epoch - 1) * step \in Nat
    <2>1. epoch - 1 \in Nat
      BY <1>1
    <2>2. (epoch - 1) * step \in Nat
      BY <1>1, <2>1, ProductsGrow
    <2>3. QED BY <1>1, <1>2, <1>3, <2>2 DEF n
  <1>5. (epoch - 1) * step >= span
    <2>1. CASE n \in Nat
      <3>1. epoch - 1 \in Nat
        BY <1>1
      <3>2. n * step <= (epoch - 1) * step /\ n * step \in Nat
        BY <1>1, <1>4, <2>1, <3>1, ProductsGrow
      <3>3. QED BY <1>1, <1>3, <1>4, <3>2
    <2>2. CASE n \notin Nat
      <3>1. n < 0 /\ n * step <= 0
        BY <1>1, <1>3, <2>2
      <3>2. n * step \in Int
        BY <1>1, <1>3
      <3>3. QED BY <1>1, <1>3, <1>4, <3>1, <3>2
    <2>3. QED BY <2>1, <2>2
  <1>6. QED BY <1>1, <1>4, <1>5 DEF EpochStart, span

LEMMA LoadStep ==
    ASSUME ScanInv, LoadInv, [Next]_vars
    PROVE  LoadInv'
  <1> USE DEF ScanInv, LoadInv
  <1>1. CASE StartRun
    <2>1. /\ log' = log /\ epoch' = 1 /\ scanned' = [id \in RequestIds |-> 0]
          /\ pc' \in {"idle", "load"}
      BY <1>1 DEF StartRun
    <2>2. scanFrom' + (1 - 1) * step' = scanFrom'
      BY ScanStep
    <2>3. \A r \in log : LoadedSoFar(r)'
      <3> TAKE r \in log
      <3>1. r.id \in RequestIds
        BY DEF RequestIds
      <3>2. scanned'[r.id] = 0
        BY <2>1, <3>1
      <3>3. EpochStart(NextEpoch)' = scanFrom'
        BY <2>1, <2>2 DEF NextEpoch, EpochStart
      <3>4. scanFrom' \in Nat /\ r.created_at \in Nat
        BY ScanStep, LogAssumption DEF LogAssumption, IsATable
      <3>5. QED BY <3>2, <3>3, <3>4 DEF LoadedSoFar, InScan
    <2>4. QED BY <2>1, <2>3
  <1>2. CASE LoadRequests
    <2>1. /\ pc = "load" /\ log' = log /\ scanFrom' = scanFrom /\ step' = step
          /\ \/ epoch' = epoch + 1 /\ pc' = "load"
             \/ epoch' = epoch /\ pc' = "score"
      BY <1>2 DEF LoadRequests, EmptyWindow, Begins
    <2>2. NextEpoch = epoch /\ NextEpoch' = epoch + 1
      BY <2>1 DEF NextEpoch
    <2>3. /\ EpochStart(epoch) \in Nat /\ EpochStart(epoch) >= scanFrom
          /\ EpochStart(epoch + 1) = EpochStart(epoch) + step
          /\ step \in Nat /\ scanFrom \in Nat /\ WindowIn \in Nat /\ ScanTo \in Nat
      <3>1. epoch \in Nat \ {0} /\ epoch <= epoch
        OBVIOUS
      <3>2. QED BY <3>1, Epochs, ScanAssumption DEF ScanAssumption
    <2>4. EpochStart(NextEpoch) = EpochStart(epoch)
          /\ EpochStart(NextEpoch)' = EpochStart(epoch) + step
      BY <2>1, <2>2, <2>3 DEF EpochStart
    <2>5. \A r \in log : LoadedSoFar(r)'
      <3> TAKE r \in log
      <3> DEFINE in == InWindow(r, epoch)
      <3>1. /\ scanned[r.id] \in Nat /\ r.created_at \in Nat
            /\ scanned'[r.id] = scanned[r.id] + IF in THEN 1 ELSE 0
        BY <1>2, LoadedCounts
      <3>2. in <=> /\ r.created_at >= EpochStart(epoch) /\ r.family = 4
                   /\ r.created_at < EpochStart(epoch) + WindowIn /\ r.created_at < ScanTo
        BY <2>3, <3>1 DEF InWindow, EpochEnd, Earlier
      <3>3. LoadedSoFar(r) /\ (InScan(r)' <=> InScan(r))
        BY <2>1 DEF InScan
      <3> HIDE DEF in
      <3>4. ~InScan(r) => scanned'[r.id] = 0
        BY <2>3, <3>1, <3>2, <3>3 DEF LoadedSoFar, InScan
      <3>5. ASSUME InScan(r), step = WindowIn
            PROVE  scanned'[r.id] = IF r.created_at < EpochStart(epoch) + step THEN 1 ELSE 0
        BY <2>3, <2>4, <3>1, <3>2, <3>3, <3>5 DEF LoadedSoFar, InScan
      <3>6. ASSUME InScan(r), step < WindowIn, r.created_at < EpochStart(epoch) + step
            PROVE  scanned'[r.id] > 0
        BY <2>3, <2>4, <3>1, <3>2, <3>3, <3>6 DEF LoadedSoFar, InScan
      <3>7. QED BY <2>1, <2>4, <3>3, <3>4, <3>5, <3>6 DEF LoadedSoFar
    <2>6. scanned' \in [RequestIds -> Nat]
      BY <1>2 DEF LoadRequests
    <2>7. QED BY <2>1, <2>5, <2>6
  <1>3. CASE /\ UNCHANGED <<log, scanFrom, step, epoch, scanned>>
             /\ pc \in {"score", "mark"} /\ pc' \in {"score", "mark"}
    BY <1>3 DEF LoadedSoFar, InScan, NextEpoch, EpochStart
  <1>4. CASE /\ UNCHANGED <<log, scanFrom, step, scanned>>
             /\ pc = "score" /\ epoch' = epoch + 1 /\ pc' = "load"
    BY <1>4 DEF LoadedSoFar, InScan, NextEpoch, EpochStart
  <1>5. CASE Finish
    <2>1. /\ UNCHANGED <<log, scanFrom, step, epoch, scanned>>
          /\ pc = "load" /\ pc' = "done" /\ epoch > EpochCount
      BY <1>5 DEF Finish
    <2>2. EpochStart(epoch)' >= ScanTo
      BY <2>1, LastEpoch DEF EpochStart
    <2>3. QED BY <2>1, <2>2 DEF LoadedSoFar, InScan, NextEpoch, EpochStart
  <1>6. CASE pc' = "idle" /\ scanned' = scanned
    BY <1>6
  <1>7. CASE UNCHANGED <<log, scanFrom, step, epoch, scanned, pc>>
    BY <1>7 DEF LoadedSoFar, InScan, NextEpoch, EpochStart
  <1>8. SkipGroup \/ UpsertCandidate \/ RecordMarkers =>
            /\ UNCHANGED <<log, scanFrom, step, epoch, scanned>>
            /\ pc \in {"score", "mark"} /\ pc' \in {"score", "mark"}
    BY DEF SkipGroup, UpsertCandidate, RecordMarkers
  <1>9. ASSUME NextStrategy
        PROVE  /\ UNCHANGED <<log, scanFrom, step, scanned>> /\ pc = "score"
               /\ \/ epoch' = epoch /\ pc' = "score"
                  \/ epoch' = epoch + 1 /\ pc' = "load"
    BY <1>9 DEF NextStrategy, Begins
  <1>10. Crash => pc' = "idle" /\ scanned' = scanned
    BY DEF Crash, runVars
  <1>11. SetCampaignStatus \/ UNCHANGED vars => UNCHANGED <<log, scanFrom, step, epoch, scanned, pc>>
    BY DEF SetCampaignStatus, vars, runVars
  <1>12. QED
    BY <1>1, <1>2, <1>3, <1>4, <1>5, <1>6, <1>7, <1>8, <1>9, <1>10, <1>11, NextCases

\* Wherever the scan begins and ends, however long a window and a step are, and
\* whatever dies meanwhile: a finished scan has looked at every IPv4 request of its
\* range, exactly once with tumbling windows, and at no other one.
THEOREM RequestsScanned == Spec => []EveryRequestScanned
  <1>1. Init => ScanInv /\ LoadInv
    <2>1. Init => LoadInv
      BY DEF Init, LoadInv
    <2>2. QED BY <2>1, ScanInit
  <1>2. ScanInv /\ LoadInv /\ [Next]_vars => LoadInv'
    BY LoadStep
  <1>3. ScanInv /\ LoadInv => EveryRequestScanned
    <2> SUFFICES ASSUME ScanInv, LoadInv, pc = "done", NEW r \in log
                 PROVE  LET inScan == r.family = 4 /\ r.created_at \in scanFrom..(ScanTo - 1) IN
                        /\ ~inScan => scanned[r.id] = 0
                        /\ inScan /\ step = WindowIn => scanned[r.id] = 1
                        /\ inScan /\ step < WindowIn => scanned[r.id] > 0
      BY DEF EveryRequestScanned
    <2>1. /\ r.created_at \in Nat /\ scanFrom \in Nat /\ ScanTo \in Nat
          /\ EpochStart(epoch) \in Nat /\ EpochStart(epoch) >= ScanTo
      <3>1. epoch \in Nat \ {0} /\ epoch <= epoch
        BY DEF ScanInv
      <3>2. EpochStart(epoch) \in Nat
        BY <3>1, Epochs
      <3>3. QED BY <3>2, ScanAssumption, LogAssumption
                DEF ScanAssumption, LogAssumption, IsATable, ScanInv, LoadInv
    <2>2. LoadedSoFar(r) /\ NextEpoch = epoch
      BY DEF LoadInv, NextEpoch
    <2>3. QED BY <2>1, <2>2 DEF LoadedSoFar, InScan
  <1>4. QED BY <1>1, <1>2, <1>3, ScanStep, PTL DEF Spec

---------------------------------------------------------------------------
(* Markers *)

SprayMark(subnet) == Marker("asn_subnet", subnet, "seen_in_subnet_spray")

\* Markers are the sprays', and they expire at some time.
SprayMarks(marks) ==
    /\ marks = [key \in DOMAIN marks |-> marks[key]]
    /\ \A key \in DOMAIN marks : marks[key] \in Nat /\ \E subnet : key = SprayMark(subnet)

LEMMA MarksLeft ==
    ASSUME NEW strategy, NEW key
    PROVE  /\ strategy = "subnet-fingerprint-overlap" => MarkersLeft(strategy, key) = {SprayMark(key)}
           /\ strategy # "subnet-fingerprint-overlap" => MarkersLeft(strategy, key) = {}
  <1>1. ASSUME strategy = "subnet-fingerprint-overlap"
        PROVE  MarkersLeft(strategy, key) = {SprayMark(key)}
    BY <1>1 DEF MarkersLeft, markers_observed, SprayMark, Marker
  <1>2. ASSUME strategy # "subnet-fingerprint-overlap" PROVE MarkersLeft(strategy, key) = {}
    BY <1>2 DEF MarkersLeft, markers_observed
  <1>3. QED BY <1>1, <1>2

\* Recording marks of sprays leaves marks of sprays.
LEMMA RecordingKeeps ==
    ASSUME NEW marks, SprayMarks(marks), NEW keys, NEW at \in Nat,
           \A key \in keys : \E subnet : key = SprayMark(subnet)
    PROVE  /\ SprayMarks(recordMarkers(marks, keys, at))
           /\ keys = {} => recordMarkers(marks, keys, at) = marks
           /\ \A key \in keys : /\ key \in DOMAIN recordMarkers(marks, keys, at)
                                /\ recordMarkers(marks, keys, at)[key] = at
           /\ \A key \in DOMAIN marks \ keys :
                 /\ key \in DOMAIN recordMarkers(marks, keys, at)
                 /\ recordMarkers(marks, keys, at)[key] = marks[key]
  BY DEF recordMarkers, SprayMarks

\* The markers of the running strategy's snapshot are those that were there when
\* it began.
MarkInv ==
    /\ SprayMarks(markers) /\ SprayMarks(snapshot.markers)
    /\ snapshot.asOfMs \in Nat
    /\ pc \in {"score", "mark"} /\ turn = 4 =>
          snapshot = memorySnapshot(markers, EpochEnd(epoch))

LEMMA EpochEndIs ==
    ASSUME ScanInv
    PROVE  EpochEnd(epoch) \in Nat /\ EpochEnd(epoch) + SuppressFor \in Nat
  <1>1. epoch \in Nat \ {0} /\ epoch <= epoch
    BY DEF ScanInv
  <1>2. EpochEnd(epoch) \in Nat
    BY <1>1, Epochs
  <1>3. QED BY <1>2, ScanAssumption DEF ScanAssumption

LEMMA MarkStep ==
    ASSUME ScanInv, MarkInv, [Next]_vars
    PROVE  MarkInv'
  <1> USE DEF MarkInv
  <1>1. CASE StartRun
    <2>1. markers' = NoMarkers /\ snapshot' = snapshot /\ pc' \in {"idle", "load"}
      BY <1>1 DEF StartRun
    <2>2. SprayMarks(NoMarkers)
      BY DEF SprayMarks, NoMarkers
    <2>3. QED BY <2>1, <2>2
  <1>2. CASE /\ UNCHANGED <<markers, scanFrom, step, epoch>> /\ pc' = "score"
             /\ snapshot' = memorySnapshot(markers, EpochEnd(epoch))
    BY <1>2, EpochEndIs DEF memorySnapshot, EpochEnd, EpochStart
  <1>3. CASE UNCHANGED <<markers, snapshot>> /\ pc' \in {"load", "idle", "done"}
    BY <1>3
  <1>4. CASE UNCHANGED <<markers, snapshot, scanFrom, step, epoch, turn>>
             /\ (pc' = pc \/ (pc = "score" /\ pc' = "mark"))
    BY <1>4 DEF EpochEnd, EpochStart
  <1>5. CASE RecordMarkers
    <2> DEFINE left == MarkersLeft(Strategy, KeyOf(Strategy, Group[1]))
               at == EpochEnd(epoch) + SuppressFor
    <2>1. /\ pc = "mark" /\ pc' = "score" /\ snapshot' = snapshot
          /\ UNCHANGED <<scanFrom, step, epoch, turn>>
          /\ markers' = recordMarkers(markers, left, at)
      BY <1>5 DEF RecordMarkers
    <2>2. at \in Nat
      BY EpochEndIs
    <2>3. \A key \in left : \E subnet : key = SprayMark(subnet)
      BY MarksLeft
    <2>4. turn = 4 => left = {}
      BY MarksLeft, FourStrategies DEF Strategy
    <2> HIDE DEF left, at
    <2>5. SprayMarks(markers') /\ (turn = 4 => markers' = markers)
      BY <2>1, <2>2, <2>3, <2>4, RecordingKeeps
    <2>6. QED BY <2>1, <2>5 DEF EpochEnd, EpochStart
  <1>6. ASSUME LoadRequests
        PROVE  \/ UNCHANGED <<markers, snapshot>> /\ pc' = "load"
               \/ /\ UNCHANGED <<markers, scanFrom, step, epoch>> /\ pc' = "score"
                  /\ snapshot' = memorySnapshot(markers, EpochEnd(epoch))
    BY <1>6 DEF LoadRequests, EmptyWindow, Begins
  <1>7. ASSUME NextStrategy
        PROVE  \/ UNCHANGED <<markers, snapshot>> /\ pc' = "load"
               \/ /\ UNCHANGED <<markers, scanFrom, step, epoch>> /\ pc' = "score"
                  /\ snapshot' = memorySnapshot(markers, EpochEnd(epoch))
    BY <1>7 DEF NextStrategy, Begins
  <1>8. Finish \/ Crash => UNCHANGED <<markers, snapshot>> /\ pc' \in {"idle", "done"}
    BY DEF Finish, Crash, runVars
  <1>9. ASSUME SkipGroup \/ UpsertCandidate \/ SetCampaignStatus \/ UNCHANGED vars
        PROVE  /\ UNCHANGED <<markers, snapshot, scanFrom, step, epoch, turn>>
               /\ pc' = pc \/ (pc = "score" /\ pc' = "mark")
    BY <1>9 DEF SkipGroup, UpsertCandidate, SetCampaignStatus, vars, runVars
  <1>10. QED
    BY <1>1, <1>2, <1>3, <1>4, <1>5, <1>6, <1>7, <1>8, <1>9, NextCases

LEMMA MarkInit == Init => MarkInv
  <1>1. SprayMarks(NoMarkers)
    BY DEF SprayMarks, NoMarkers
  <1>2. QED BY <1>1 DEF Init, MarkInv, memorySnapshot

---------------------------------------------------------------------------
(* The tracker's snapshot *)

\* A marker of a scope that is asked for is in the tracker's snapshot exactly if it
\* has not expired, with its own expiry.
LEMMA TrackerAnswers ==
    ASSUME NEW marks, SprayMarks(marks), NEW filter, NEW at \in Nat,
           NEW subnet \in filter.subnets
    PROVE  LET key == SprayMark(subnet)
               tracked == trackerSnapshot(TableOf(marks), filter, at)
               held == memorySnapshot(marks, at)
           IN  /\ hasMarker(tracked, key) = hasMarker(held, key)
               /\ markerTtl(tracked, key) = markerTtl(held, key)
  <1> DEFINE key == SprayMark(subnet)
             KeyOfRow(row) == Marker(row.scope_type, row.scope_value, row.flag_name)
             found == {row \in TableOf(marks) : row.expires_at > at /\ InScope(row, filter)}
             kept == [k \in {KeyOfRow(row) : row \in found} |->
                         (CHOOSE row \in found : KeyOfRow(row) = k).expires_at]
             row0 == [ scope_type |-> "asn_subnet", scope_value |-> subnet,
                       flag_name |-> "seen_in_subnet_spray", expires_at |-> marks[key] ]
  <1>1. trackerSnapshot(TableOf(marks), filter, at) = [markers |-> kept, asOfMs |-> at]
    BY DEF trackerSnapshot
  <1>2. \A row \in TableOf(marks) : /\ KeyOfRow(row) \in DOMAIN marks
                                    /\ row.expires_at = marks[KeyOfRow(row)]
    <2> TAKE row \in TableOf(marks)
    <2>1. PICK k \in DOMAIN marks : row = [ scope_type |-> k[1], scope_value |-> k[2],
                                           flag_name |-> k[3], expires_at |-> marks[k] ]
      BY DEF TableOf
    <2>2. PICK net : k = SprayMark(net)
      BY DEF SprayMarks
    <2>3. KeyOfRow(row) = k
      BY <2>1, <2>2 DEF SprayMark, Marker
    <2>4. QED BY <2>1, <2>3
  <1>3. key \in DOMAIN marks => row0 \in TableOf(marks)
    <2>1. row0 = [ scope_type |-> key[1], scope_value |-> key[2],
                   flag_name |-> key[3], expires_at |-> marks[key] ]
      BY DEF SprayMark, Marker
    <2>2. QED BY <2>1 DEF TableOf
  <1>4. KeyOfRow(row0) = key /\ row0.expires_at = marks[key] /\ InScope(row0, filter)
    BY DEF SprayMark, InScope
  <1>5. key \in DOMAIN kept <=> key \in DOMAIN marks /\ marks[key] > at
    <2>1. ASSUME key \in DOMAIN kept PROVE key \in DOMAIN marks /\ marks[key] > at
      <3>1. PICK row \in found : KeyOfRow(row) = key
        BY <2>1
      <3>2. QED BY <1>2, <3>1
    <2>2. ASSUME key \in DOMAIN marks, marks[key] > at PROVE key \in DOMAIN kept
      <3>1. row0 \in found
        BY <1>3, <1>4, <2>2
      <3>2. QED BY <1>4, <3>1
    <2>3. QED BY <2>1, <2>2
  <1>6. key \in DOMAIN kept => kept[key] = marks[key]
    <2>1. \A row \in found : KeyOfRow(row) = key => row.expires_at = marks[key]
      BY <1>2
    <2>2. QED BY <2>1
  <1>7. key \in DOMAIN marks => marks[key] \in Nat
    BY DEF SprayMarks
  <1> HIDE DEF key, kept
  <1>8. /\ hasMarker([markers |-> kept, asOfMs |-> at], key)
              = hasMarker(memorySnapshot(marks, at), key)
        /\ markerTtl([markers |-> kept, asOfMs |-> at], key)
              = markerTtl(memorySnapshot(marks, at), key)
    BY <1>5, <1>6, <1>7 DEF hasMarker, markerTtl, memorySnapshot
  <1>9. QED BY <1>1, <1>8 DEF key

\* The dormant tracker can take the place of the markers in memory, in every window
\* of every scan: it answers the strategies as they do, expired markers included.
THEOREM TrackerAgrees == Spec => []TrackerWouldAgree
  <1>1. MarkInv => TrackerWouldAgree
    <2> SUFFICES ASSUME MarkInv, NEW r \in ToSet(metrics.requests)
                 PROVE  LET requests == ToSet(metrics.requests)
                            filter == [ ips |-> {q.ip : q \in requests},
                                        asns |-> {q.asn : q \in requests} \ {NoAsn},
                                        subnets |-> {SubnetOf[q.ip] : q \in requests} ]
                            tracked == trackerSnapshot(TableOf(snapshot.markers), filter,
                                                       snapshot.asOfMs)
                            key == SprayMark(SubnetOf[r.ip])
                        IN  /\ hasMarker(tracked, key) = hasMarker(snapshot, key)
                            /\ markerTtl(tracked, key) = markerTtl(snapshot, key)
      BY DEF TrackerWouldAgree, SprayMark
    <2> DEFINE requests == ToSet(metrics.requests)
               filter == [ ips |-> {q.ip : q \in requests},
                           asns |-> {q.asn : q \in requests} \ {NoAsn},
                           subnets |-> {SubnetOf[q.ip] : q \in requests} ]
               held == memorySnapshot(snapshot.markers, snapshot.asOfMs)
    <2>1. SubnetOf[r.ip] \in filter.subnets
      OBVIOUS
    <2>2. \A key : /\ hasMarker(snapshot, key) = hasMarker(held, key)
                   /\ markerTtl(snapshot, key) = markerTtl(held, key)
      BY DEF hasMarker, markerTtl, memorySnapshot
    <2> HIDE DEF filter, held
    <2>3. QED BY <2>1, <2>2, TrackerAnswers DEF MarkInv, filter, held
  <1>2. ScanInv /\ MarkInv /\ [Next]_vars => MarkInv'
    BY MarkStep
  <1>3. QED BY <1>1, <1>2, ScanStep, ScanInit, MarkInit, PTL DEF Spec

---------------------------------------------------------------------------
(* Bursts stand down *)

IsSpray(report) == report.strategy = "subnet-fingerprint-overlap"
IsBurst(report) == report.strategy = "single-ip-burst"

\* The marker of a reported spray is there, and outlives the suppression.
IsMarked(report) ==
    /\ SprayMark(report.key) \in DOMAIN markers
    /\ markers[SprayMark(report.key)] >= report.epochEnd + SuppressFor

\* Reports are numbered by windows up to this one; bursts come last in a window,
\* and by then the markers of its sprays are recorded.
ReportInv ==
    /\ DOMAIN reports = 1..Len(reports) /\ Len(reports) \in Nat
    /\ reports \in Seq(ToSet(reports))
    /\ \A i \in DOMAIN reports :
          /\ reports[i].epoch \in Nat \ {0} /\ reports[i].epoch <= epoch
          /\ reports[i].epochEnd = EpochEnd(reports[i].epoch)
    /\ pc = "load" => \A i \in DOMAIN reports : reports[i].epoch < epoch

BurstInv ==
    /\ pc \in {"score", "mark"} /\ turn < 4 =>
          \A i \in DOMAIN reports : IsBurst(reports[i]) => reports[i].epoch < epoch
    /\ pc \in {"load", "score"} =>
          \A i \in DOMAIN reports : IsSpray(reports[i]) => IsMarked(reports[i])
    /\ pc = "mark" =>
          /\ Len(reports) > 0
          /\ reports[Len(reports)].strategy = Strategy
          /\ reports[Len(reports)].key = KeyOf(Strategy, Group[1])
          /\ reports[Len(reports)].epoch = epoch
          /\ \A i \in 1..(Len(reports) - 1) : IsSpray(reports[i]) => IsMarked(reports[i])
    /\ BurstsStandDown

LEMMA AppendFacts ==
    ASSUME NEW s, DOMAIN s = 1..Len(s), Len(s) \in Nat, s \in Seq(ToSet(s)), NEW e
    PROVE  LET t == Append(s, e) IN
           /\ DOMAIN t = 1..Len(t) /\ Len(t) = Len(s) + 1 /\ Len(t) \in Nat
           /\ t \in Seq(ToSet(t)) /\ t[Len(t)] = e
           /\ \A i \in DOMAIN s : t[i] = s[i]
  <1> DEFINE S == ToSet(s) \cup {e}
             t == Append(s, e)
  <1>1. s \in Seq(S) /\ e \in S
    OBVIOUS
  <1>2. /\ t \in Seq(S) /\ Len(t) = Len(s) + 1 /\ DOMAIN t = 1..(Len(s) + 1)
        /\ t[Len(s) + 1] = e /\ \A i \in 1..Len(s) : t[i] = s[i]
    <2> HIDE DEF S
    <2>1. QED BY <1>1
  <1> HIDE DEF t
  <1>3. \A i \in 1..Len(t) : t[i] \in ToSet(t)
    BY <1>2 DEF ToSet
  <1>4. t \in Seq(ToSet(t))
    BY <1>2, <1>3
  <1>5. QED BY <1>2, <1>4 DEF t

\* What an upsert reports.
LEMMA Reported ==
    ASSUME ScanInv, ReportInv, UpsertCandidate
    PROVE  LET n == Len(reports) + 1 IN
           /\ DOMAIN reports' = 1..n /\ Len(reports') = n
           /\ \A i \in 1..Len(reports) : reports'[i] = reports[i]
           /\ reports'[n].strategy = Strategy
           /\ reports'[n].key = KeyOf(Strategy, Group[1])
           /\ reports'[n].epoch = epoch /\ reports'[n].epochEnd = EpochEnd(epoch)
           /\ reports' \in Seq(ToSet(reports'))
  <1> DEFINE report == Report(buildCandidate)
  <1>1. reports' = Append(reports, report)
    BY DEF UpsertCandidate
  <1>2. /\ report.strategy = Strategy /\ report.key = KeyOf(Strategy, Group[1])
        /\ report.epoch = epoch /\ report.epochEnd = EpochEnd(epoch)
    BY DEF Report
  <1> HIDE DEF report
  <1>3. QED BY <1>1, <1>2, AppendFacts DEF ReportInv

LEMMA ReportStep ==
    ASSUME ScanInv, ReportInv, [Next]_vars
    PROVE  ReportInv'
  <1> USE DEF ReportInv
  <1>1. CASE StartRun
    <2>1. reports' = << >> /\ epoch' = 1
      BY <1>1 DEF StartRun
    <2>2. << >> \in Seq(ToSet(<< >>))
      OBVIOUS
    <2>3. QED BY <2>1, <2>2
  <1>2. CASE UpsertCandidate
    <2>1. UNCHANGED <<scanFrom, step, epoch>> /\ pc' = "mark"
      BY <1>2 DEF UpsertCandidate
    <2>2. epoch \in Nat \ {0}
      BY DEF ScanInv
    <2>3. QED BY <1>2, <2>1, <2>2, Reported DEF EpochEnd, EpochStart
  <1>3. CASE UNCHANGED <<reports, scanFrom, step, epoch>> /\ (pc' = "load" => pc = "load")
    BY <1>3 DEF EpochEnd, EpochStart
  <1>4. CASE UNCHANGED <<reports, scanFrom, step>> /\ epoch' = epoch + 1
    <2>1. epoch \in Nat
      BY DEF ScanInv
    <2>2. QED BY <1>4, <2>1 DEF EpochEnd, EpochStart
  <1>5. ASSUME LoadRequests \/ NextStrategy
        PROVE  /\ UNCHANGED <<reports, scanFrom, step>>
               /\ \/ epoch' = epoch + 1
                  \/ epoch' = epoch /\ pc' = "score"
    BY <1>5 DEF LoadRequests, NextStrategy, EmptyWindow, Begins
  <1>6. ASSUME \/ SkipGroup \/ RecordMarkers \/ Finish \/ Crash \/ SetCampaignStatus
               \/ UNCHANGED vars
        PROVE  UNCHANGED <<reports, scanFrom, step, epoch>> /\ (pc' = "load" => pc = "load")
    BY <1>6 DEF SkipGroup, RecordMarkers, Finish, Crash, SetCampaignStatus, vars, runVars
  <1>7. QED BY <1>1, <1>2, <1>3, <1>4, <1>5, <1>6, NextCases

\* A burst is not scored while the marker of its /24 lasts.
LEMMA BurstUnmarked ==
    ASSUME ScanInv, MarkInv, pc = "score", turn = 4, Fires
    PROVE  LET key == SprayMark(SubnetOf[KeyOf(Strategy, Group[1])])
           IN  key \in DOMAIN markers => markers[key] <= EpochEnd(epoch)
  <1> DEFINE marked == {key \in DOMAIN snapshot.markers : hasMarker(snapshot, key)}
             key0 == SprayMark(SubnetOf[Group[1].ip])
  <1>1. Strategy = "single-ip-burst"
    BY FourStrategies DEF Strategy
  <1>2. Figs = BurstFigures(metrics, Group, marked) /\ KeyOf(Strategy, Group[1]) = Group[1].ip
    BY <1>1 DEF Figs, FiguresOf, KeyOf
  <1> HIDE DEF marked
  <1>3. key0 \notin marked
    BY <1>2 DEF Fires, BurstFigures, SprayMark
  <1>4. snapshot.markers = markers /\ snapshot.asOfMs = EpochEnd(epoch)
    BY DEF MarkInv, memorySnapshot
  <1>5. key0 \in DOMAIN markers => markers[key0] \in Nat /\ EpochEnd(epoch) \in Nat
    BY EpochEndIs DEF MarkInv, SprayMarks
  <1> HIDE DEF key0
  <1>6. key0 \in DOMAIN markers => markers[key0] <= EpochEnd(epoch)
    BY <1>3, <1>4, <1>5 DEF marked, hasMarker
  <1>7. QED BY <1>2, <1>6 DEF key0

LEMMA BurstStep ==
    ASSUME ScanInv, MarkInv, ReportInv, BurstInv, [Next]_vars
    PROVE  BurstInv'
  <1> USE DEF BurstInv
  <1>0. /\ turn \in 1..4 /\ epoch \in Nat \ {0}
        /\ turn = 4 <=> Strategy = "single-ip-burst"
        /\ turn = 1 <=> Strategy = "subnet-fingerprint-overlap"
    BY FourStrategies DEF ScanInv, Strategy
  <1>1. CASE StartRun
    <2>1. reports' = << >> /\ pc' \in {"idle", "load"}
      BY <1>1 DEF StartRun
    <2>2. DOMAIN reports' = {}
      BY <2>1
    <2>3. QED BY <2>1, <2>2 DEF BurstsStandDown
  <1>2. CASE UpsertCandidate
    <2> DEFINE n == Len(reports) + 1
    <2>1. /\ pc = "score" /\ Fires /\ pc' = "mark"
          /\ UNCHANGED <<scanFrom, step, epoch, turn, groups, markers, metrics>>
      BY <1>2 DEF UpsertCandidate
    <2>2. /\ DOMAIN reports' = 1..n /\ Len(reports') = n
          /\ \A i \in 1..Len(reports) : reports'[i] = reports[i]
          /\ reports'[n].strategy = Strategy
          /\ reports'[n].key = KeyOf(Strategy, Group[1])
          /\ reports'[n].epoch = epoch /\ reports'[n].epochEnd = EpochEnd(epoch)
      BY <1>2, Reported
    <2>3. DOMAIN reports = 1..Len(reports) /\ Len(reports) \in Nat
      BY DEF ReportInv
    <2>4. Strategy' = Strategy /\ Group' = Group
      BY <2>1 DEF Strategy, Group
    <2>5. ASSUME turn < 4, NEW i \in DOMAIN reports', IsBurst(reports'[i])
          PROVE  reports'[i].epoch < epoch
      <3>1. CASE i = n
        BY <1>0, <2>2, <2>5, <3>1 DEF IsBurst
      <3>2. CASE i # n
        BY <2>1, <2>2, <2>3, <2>5, <3>2
      <3>3. QED BY <3>1, <3>2
    <2>6. \A i \in 1..Len(reports) : (IsSpray(reports[i]) => IsMarked(reports[i]))'
      BY <2>1, <2>2, <2>3 DEF IsMarked, IsSpray
    <2>7. BurstsStandDown'
      <3> SUFFICES ASSUME NEW i \in DOMAIN reports', NEW j \in DOMAIN reports',
                          reports'[i].epoch <= reports'[j].epoch,
                          IsSpray(reports'[i]), IsBurst(reports'[j]),
                          SubnetOf[reports'[j].key] = reports'[i].key
                   PROVE  reports'[j].epochEnd >= reports'[i].epochEnd + SuppressFor
        BY DEF BurstsStandDown, IsSpray, IsBurst
      <3>1. CASE i # n /\ j # n
        BY <2>2, <2>3, <3>1 DEF BurstsStandDown, IsSpray, IsBurst
      <3>2. CASE j = n /\ i # n
        <4> DEFINE key == SprayMark(SubnetOf[KeyOf(Strategy, Group[1])])
        <4>1. reports'[i] = reports[i] /\ i \in DOMAIN reports
          BY <2>2, <2>3, <3>2
        <4>2. turn = 4
          BY <1>0, <2>2, <3>2 DEF IsBurst
        <4>3. SprayMark(reports[i].key) = key
          BY <2>2, <3>2, <4>1
        <4>4. key \in DOMAIN markers => markers[key] <= EpochEnd(epoch)
          BY <2>1, <4>2, BurstUnmarked
        <4>5. key \in DOMAIN markers /\ markers[key] >= reports[i].epochEnd + SuppressFor
          BY <2>1, <4>1, <4>3 DEF IsMarked
        <4>6. markers[key] \in Nat /\ EpochEnd(epoch) \in Nat /\ SuppressFor \in Nat
          BY <4>5, EpochEndIs, ScanAssumption DEF MarkInv, SprayMarks, ScanAssumption
        <4>7. reports[i].epochEnd \in Nat
          <5>1. /\ reports[i].epochEnd = EpochEnd(reports[i].epoch)
                /\ reports[i].epoch \in Nat \ {0} /\ reports[i].epoch <= reports[i].epoch
            BY <4>1 DEF ReportInv
          <5>2. QED BY <5>1, Epochs
        <4> HIDE DEF key
        <4>8. QED BY <2>2, <3>2, <4>1, <4>4, <4>5, <4>6, <4>7
      <3>3. CASE i = n /\ j # n
        <4>1. reports'[j] = reports[j] /\ j \in DOMAIN reports
          BY <2>2, <2>3, <3>3
        <4>2. turn < 4
          BY <1>0, <2>2, <3>3 DEF IsSpray
        <4>3. reports[j].epoch < epoch /\ reports[j].epoch \in Nat
          BY <2>1, <4>1, <4>2 DEF ReportInv
        <4>4. QED BY <1>0, <2>2, <3>3, <4>1, <4>3
      <3>4. CASE i = n /\ j = n
        BY <3>4 DEF IsSpray, IsBurst
      <3>5. QED BY <3>1, <3>2, <3>3, <3>4
    <2>8. QED BY <2>1, <2>2, <2>3, <2>4, <2>5, <2>6, <2>7
  <1>3. CASE RecordMarkers
    <2> DEFINE key == KeyOf(Strategy, Group[1])
               left == MarkersLeft(Strategy, key)
               at == EpochEnd(epoch) + SuppressFor
    <2>1. /\ pc = "mark" /\ pc' = "score" /\ reports' = reports
          /\ UNCHANGED <<scanFrom, step, epoch, turn>>
          /\ markers' = recordMarkers(markers, left, at)
      BY <1>3 DEF RecordMarkers
    <2>2. at \in Nat /\ SprayMarks(markers)
      BY EpochEndIs DEF MarkInv
    <2>3. \A k \in left : \E subnet : k = SprayMark(subnet)
      BY MarksLeft
    <2>4. /\ \A k \in left : k \in DOMAIN markers' /\ markers'[k] = at
          /\ \A k \in DOMAIN markers \ left :
                k \in DOMAIN markers' /\ markers'[k] = markers[k]
      <3> HIDE DEF left, at
      <3>1. QED BY <2>1, <2>2, <2>3, RecordingKeeps
    <2>5. \A i \in DOMAIN reports : reports[i].epochEnd \in Nat /\ reports[i].epochEnd + SuppressFor <= at
      <3> TAKE i \in DOMAIN reports
      <3>1. /\ reports[i].epoch \in Nat \ {0} /\ reports[i].epoch <= epoch
            /\ reports[i].epochEnd = EpochEnd(reports[i].epoch)
        BY DEF ReportInv
      <3>2. reports[i].epochEnd \in Nat /\ reports[i].epochEnd <= EpochEnd(epoch)
        BY <1>0, <3>1, Epochs
      <3>3. QED BY <3>2, EpochEndIs, ScanAssumption DEF ScanAssumption
    <2>6. ASSUME NEW i \in DOMAIN reports, IsSpray(reports[i]) PROVE IsMarked(reports[i])'
      <3> DEFINE mark == SprayMark(reports[i].key)
      <3>1. CASE mark \in left
        <4>1. mark \in DOMAIN markers' /\ markers'[mark] = at
          BY <2>4, <3>1
        <4>2. reports[i].epochEnd + SuppressFor <= at
          BY <2>5
        <4>3. QED
          <5> HIDE DEF at, left
          <5>1. at >= reports[i].epochEnd + SuppressFor
            BY <2>2, <2>5, <4>2, ScanAssumption DEF ScanAssumption
          <5>2. QED BY <2>1, <4>1, <5>1 DEF IsMarked
      <3>2. CASE mark \notin left
        <4>1. i # Len(reports)
          <5>1. IsSpray(reports[Len(reports)]) => SprayMark(reports[Len(reports)].key) \in left
            BY <2>1, MarksLeft DEF IsSpray
          <5>2. QED BY <2>6, <3>2, <5>1
        <4>2. i \in 1..(Len(reports) - 1)
          BY <4>1 DEF ReportInv
        <4>3. mark \in DOMAIN markers /\ markers[mark] >= reports[i].epochEnd + SuppressFor
          BY <2>1, <2>6, <4>2 DEF IsMarked
        <4> HIDE DEF left, at
        <4>4. mark \in DOMAIN markers' /\ markers'[mark] = markers[mark]
          BY <2>4, <3>2, <4>3
        <4>5. QED BY <2>1, <4>3, <4>4 DEF IsMarked
      <3>3. QED BY <3>1, <3>2
    <2>7. turn < 4 => \A i \in DOMAIN reports : IsBurst(reports[i]) => reports[i].epoch < epoch
      BY <2>1
    <2>8. QED BY <2>1, <2>6, <2>7 DEF BurstsStandDown
  <1>4. CASE LoadRequests
    <2>1. /\ pc = "load" /\ UNCHANGED <<reports, markers>>
          /\ \/ epoch' = epoch + 1 /\ pc' = "load"
             \/ epoch' = epoch /\ pc' = "score"
      BY <1>4 DEF LoadRequests, EmptyWindow, Begins
    <2>2. \A i \in DOMAIN reports : reports[i].epoch < epoch
      BY <2>1 DEF ReportInv
    <2>3. QED BY <2>1, <2>2 DEF IsMarked, BurstsStandDown
  <1>5. CASE NextStrategy
    <2>1. /\ pc = "score" /\ UNCHANGED <<reports, markers>>
          /\ \/ epoch' = epoch /\ pc' = "score" /\ turn' = turn + 1
             \/ pc' = "load"
      BY <1>5 DEF NextStrategy, Begins
    <2>2. QED BY <1>0, <2>1 DEF IsMarked, BurstsStandDown
  <1>6. CASE UNCHANGED <<reports, markers>> /\ pc' \in {"idle", "done"}
    BY <1>6 DEF BurstsStandDown
  <1>7. CASE UNCHANGED <<reports, markers, pc, turn, epoch>> /\ (pc = "mark" => groups' = groups)
    <2>1. Strategy' = Strategy /\ (pc = "mark" => Group' = Group)
      BY <1>7 DEF Strategy, Group
    <2>2. QED BY <1>7, <2>1 DEF IsMarked, BurstsStandDown
  <1>8. Finish \/ Crash => UNCHANGED <<reports, markers>> /\ pc' \in {"idle", "done"}
    BY DEF Finish, Crash, runVars
  <1>9. ASSUME SkipGroup \/ SetCampaignStatus \/ UNCHANGED vars
        PROVE  UNCHANGED <<reports, markers, pc, turn, epoch>> /\ (pc = "mark" => groups' = groups)
    BY <1>9 DEF SkipGroup, SetCampaignStatus, vars, runVars
  <1>10. QED
    BY <1>1, <1>2, <1>3, <1>4, <1>5, <1>6, <1>7, <1>8, <1>9, NextCases

\* "so later strategies on the same actor read them and stand down": for any log,
\* window, step and suppression time, once a /24 has been reported as a spray no IP
\* of it is reported as a burst in a window that ends before the marker expires.
THEOREM StandDown == Spec => []BurstsStandDown
  <1>1. Init => ReportInv /\ BurstInv
    <2>1. Init => reports = << >> /\ pc = "idle"
      BY DEF Init
    <2>2. << >> \in Seq(ToSet(<< >>))
      OBVIOUS
    <2>3. QED BY <2>1, <2>2 DEF ReportInv, BurstInv, BurstsStandDown
  <1>2. ScanInv /\ ReportInv /\ [Next]_vars => ReportInv'
    BY ReportStep
  <1>3. ScanInv /\ MarkInv /\ ReportInv /\ BurstInv /\ [Next]_vars => BurstInv'
    BY BurstStep
  <1>4. ScanInv /\ MarkInv /\ [Next]_vars => MarkInv'
    BY MarkStep
  <1>5. BurstInv => BurstsStandDown
    BY DEF BurstInv
  <1>6. QED
    BY <1>1, <1>2, <1>3, <1>4, <1>5, ScanStep, ScanInit, MarkInit, PTL DEF Spec

---------------------------------------------------------------------------
(* The campaigns table *)

RowFields ==
    { "identifier", "source", "status", "confidence", "peak_confidence", "first_seen",
      "last_seen", "times_fired", "contributing_ips", "evidence", "evidence_history" }

\* An open row of an identifier is its only one.
RowsInv ==
    /\ DOMAIN rows = 1..Len(rows) /\ Len(rows) \in Nat /\ rows \in Seq(ToSet(rows))
    /\ \A i \in DOMAIN rows :
          /\ DOMAIN rows[i] = RowFields /\ rows[i].source = "backtest"
          /\ rows[i].times_fired \in Nat \ {0}
    /\ \A i, j \in DOMAIN rows :
          /\ IsOpen(rows[i]) /\ IsOpen(rows[j])
          /\ rows[i].identifier = rows[j].identifier
          => i = j

LEMMA ExceptFacts ==
    ASSUME NEW s, DOMAIN s = 1..Len(s), Len(s) \in Nat, s \in Seq(ToSet(s)),
           NEW i \in DOMAIN s, NEW e
    PROVE  LET t == [s EXCEPT ![i] = e] IN
           /\ DOMAIN t = 1..Len(t) /\ Len(t) = Len(s) /\ t \in Seq(ToSet(t))
           /\ t[i] = e /\ \A j \in DOMAIN s : j # i => t[j] = s[j]
  <1> DEFINE S == ToSet(s) \cup {e}
             t == [s EXCEPT ![i] = e]
  <1>1. s \in Seq(S) /\ e \in S
    OBVIOUS
  <1>2. /\ t \in Seq(S) /\ Len(t) = Len(s) /\ DOMAIN t = 1..Len(s)
        /\ t[i] = e /\ \A j \in DOMAIN s : j # i => t[j] = s[j]
    <2> HIDE DEF S
    <2>1. QED BY <1>1
  <1> HIDE DEF t
  <1>3. \A j \in 1..Len(t) : t[j] \in ToSet(t)
    BY <1>2 DEF ToSet
  <1>4. t \in Seq(ToSet(t))
    BY <1>2, <1>3
  <1>5. QED BY <1>2, <1>4 DEF t

OpenRow(i, identifier) == i \in DOMAIN rows /\ IsOpen(rows[i]) /\ rows[i].identifier = identifier

Opens(c, row) ==
    /\ \A i : ~OpenRow(i, c.identifier)
    /\ outcome'[2] = "inserted" /\ rows' = Append(rows, row)
    /\ DOMAIN row = RowFields /\ row.source = "backtest"
    /\ row.identifier = c.identifier /\ IsOpen(row) /\ row.times_fired = 1
    /\ row.status = "active" /\ row.peak_confidence = c.confidence
    /\ row.first_seen = c.first /\ row.last_seen = c.last

Refires(c, i, row) ==
    /\ OpenRow(i, c.identifier)
    /\ outcome'[2] = "updated" /\ rows' = [rows EXCEPT ![i] = row]
    /\ DOMAIN row = RowFields /\ row.source = "backtest"
    /\ row.identifier = c.identifier /\ IsOpen(row)
    /\ row.times_fired = rows[i].times_fired + 1
    /\ row.status = rows[i].status
    /\ row.peak_confidence = Later(rows[i].peak_confidence, c.confidence)
    /\ row.first_seen = Earlier(rows[i].first_seen, c.first)
    /\ row.last_seen = Later(rows[i].last_seen, c.last)

\* An upsert adds an episode's first row, or counts a fire on the open one.
LEMMA Upserted ==
    ASSUME RowsInv, NEW c, Store!upsertCandidate(c, "backtest")
    PROVE  (\E row : Opens(c, row)) \/ (\E i, row : Refires(c, i, row))
  <1>1. CASE Store!Insert(c, "backtest")
    <2> DEFINE row == Store!InsertedRow(c, "backtest")
    <2>1. rows' = Append(rows, row) /\ outcome'[2] = "inserted"
      BY <1>1 DEF Store!Insert
    <2>2. /\ DOMAIN row = RowFields /\ row.source = "backtest" /\ row.status = "active"
          /\ row.identifier = c.identifier /\ row.times_fired = 1
          /\ row.peak_confidence = c.confidence
          /\ row.first_seen = c.first /\ row.last_seen = c.last
      BY DEF Store!InsertedRow, Store!FreshRow, RowFields
    <2>3. \A i : ~OpenRow(i, c.identifier)
      BY <1>1 DEF Store!Insert, Store!Conflicting, Store!Conflicts, Store!IsOpen, Store!HasKey,
                  OpenRow, IsOpen, RowsInv
    <2> HIDE DEF row
    <2>4. IsOpen(row)
      BY <2>2 DEF IsOpen
    <2>5. Opens(c, row)
      BY <2>1, <2>2, <2>3, <2>4 DEF Opens
    <2>6. QED BY <2>5
  <1>2. CASE Store!Update(c, "backtest")
    <2>1. PICK i \in Store!Conflicting(c, "backtest") :
              rows' = [rows EXCEPT ![i] = Store!DoUpdate(rows[i], c)]
      BY <1>2 DEF Store!Update
    <2>0. outcome'[2] = "updated"
      <3>1. outcome' = <<"backtest", "updated">>
        BY <1>2 DEF Store!Update
      <3>2. QED BY <3>1
    <2> DEFINE row == Store!DoUpdate(rows[i], c)
    <2>2. i \in DOMAIN rows /\ OpenRow(i, c.identifier)
      BY <2>1 DEF Store!Conflicting, Store!Conflicts, Store!IsOpen, Store!HasKey, OpenRow, IsOpen
    <2>3. rows' = [rows EXCEPT ![i] = row]
      BY <2>1, <2>2
    <2>4. DOMAIN rows[i] = RowFields /\ rows[i].source = "backtest"
      BY <2>2 DEF RowsInv
    <2>5. /\ DOMAIN row = RowFields /\ row.source = rows[i].source
          /\ row.identifier = rows[i].identifier /\ row.status = rows[i].status
          /\ row.times_fired = rows[i].times_fired + 1
          /\ row.peak_confidence = Later(rows[i].peak_confidence, c.confidence)
          /\ row.first_seen = Earlier(rows[i].first_seen, c.first)
          /\ row.last_seen = Later(rows[i].last_seen, c.last)
      BY <2>4 DEF Store!DoUpdate, RowFields, Store!Later, Later, Store!Earlier, Earlier
    <2> HIDE DEF row
    <2>6. Refires(c, i, row)
      BY <2>0, <2>2, <2>3, <2>4, <2>5 DEF Refires, OpenRow, IsOpen
    <2>7. QED BY <2>6
  <1>3. QED BY <1>1, <1>2 DEF Store!upsertCandidate

LEMMA RowsStep ==
    ASSUME RowsInv, [Next]_vars
    PROVE  RowsInv'
  <1> USE DEF RowsInv
  <1>1. CASE UpsertCandidate
    <2> DEFINE c == buildCandidate
    <2>0. Store!upsertCandidate(c, "backtest")
      BY <1>1 DEF UpsertCandidate
    <2> HIDE DEF c
    <2>1. ASSUME NEW row, Opens(c, row) PROVE RowsInv'
      <3> USE <2>1 DEF Opens
      <3>1. /\ DOMAIN rows' = 1..(Len(rows) + 1) /\ Len(rows') = Len(rows) + 1
            /\ rows' \in Seq(ToSet(rows')) /\ rows'[Len(rows) + 1] = row
            /\ \A i \in 1..Len(rows) : rows'[i] = rows[i]
        BY <2>1, AppendFacts
      <3>2. \A i \in 1..Len(rows) : ~(IsOpen(rows[i]) /\ rows[i].identifier = row.identifier)
        BY <2>1 DEF OpenRow
      <3>3. QED BY <2>1, <3>1, <3>2
    <2>2. ASSUME NEW i, NEW row, Refires(c, i, row) PROVE RowsInv'
      <3>0. /\ i \in DOMAIN rows /\ OpenRow(i, c.identifier)
            /\ rows' = [rows EXCEPT ![i] = row]
        BY <2>2 DEF Refires, OpenRow
      <3>1. /\ DOMAIN rows' = DOMAIN rows /\ Len(rows') = Len(rows)
            /\ rows' \in Seq(ToSet(rows')) /\ rows'[i] = row
            /\ \A j \in DOMAIN rows : j # i => rows'[j] = rows[j]
        BY <3>0, ExceptFacts
      <3>2. QED BY <2>2, <3>0, <3>1 DEF Refires, OpenRow
    <2>3. QED BY <2>0, <2>1, <2>2, Upserted
  <1>2. CASE SetCampaignStatus
    <2>1. PICK i \in DOMAIN rows, status \in {"dormant", "closed"} :
              rows' = [rows EXCEPT ![i].status = status] /\ IsOpen(rows[i])
      BY <1>2 DEF SetCampaignStatus, Store!SetStatus, Store!IsOpen, IsOpen
    <2> DEFINE row == [rows[i] EXCEPT !.status = status]
    <2>2. /\ DOMAIN row = RowFields /\ row.source = "backtest"
          /\ row.identifier = rows[i].identifier /\ row.times_fired = rows[i].times_fired
      BY DEF RowFields, RowsInv
    <2>3. rows' = [rows EXCEPT ![i] = row]
      BY <2>1
    <2> HIDE DEF row
    <2>4. /\ DOMAIN rows' = DOMAIN rows /\ Len(rows') = Len(rows)
          /\ rows' \in Seq(ToSet(rows')) /\ rows'[i] = row
          /\ \A j \in DOMAIN rows : j # i => rows'[j] = rows[j]
      BY <2>3, ExceptFacts
    <2>5. \A j \in DOMAIN rows : /\ rows'[j].identifier = rows[j].identifier
                               /\ IsOpen(rows'[j]) => IsOpen(rows[j])
      BY <2>1, <2>2, <2>4
    <2>6. QED BY <2>2, <2>4, <2>5
  <1>3. CASE UNCHANGED rows
    BY <1>3
  <1>4. QED
    BY <1>1, <1>2, <1>3, NextCases
    DEF StartRun, LoadRequests, SkipGroup, RecordMarkers, NextStrategy, Finish, Crash, vars,
        storeVars

LEMMA MaxOf ==
    ASSUME NEW T, T \subseteq Nat, T # {}, NEW n \in Nat, \A t \in T : t <= n
    PROVE  Max(T) \in T /\ \A t \in T : t <= Max(T)
  <1>1. \E x \in T : \A y \in T : x >= y
    BY GreatestOf
  <1>2. Max(T) \in T /\ \A y \in T : Max(T) >= y
    BY <1>1 DEF Max
  <1>3. \A t \in T : t \in Nat
    OBVIOUS
  <1>4. QED BY <1>2, <1>3

IdentifierOf(i) == reports[i].candidate.identifier
LastOf(j) == \A i \in DOMAIN reports : i > j => IdentifierOf(i) # IdentifierOf(j)

\* The open row of what was reported has the count its last report spoke of.
Counted(j) ==
    /\ reports[j].times_fired \in Nat
    /\ \E i \in DOMAIN rows : rows[i].identifier = IdentifierOf(j)
    /\ LastOf(j) => \A i : OpenRow(i, IdentifierOf(j)) =>
                        rows[i].times_fired = reports[j].times_fired

Before(j) == {i \in 1..(j - 1) : IdentifierOf(i) = IdentifierOf(j)}

\* ReportsAddUp of one report.
AddsUp(j) ==
    /\ (reports[j].outcome = "inserted") <=> (reports[j].times_fired = 1)
    /\ Before(j) # {} /\ reports[j].times_fired # 1 =>
          reports[j].times_fired = reports[Max(Before(j))].times_fired + 1
    /\ Before(j) # {} /\ reports[j].times_fired = 1 =>
          \E row \in ToSet(rows) : ~IsOpen(row) /\ row.identifier = IdentifierOf(j)

CountInv == \A j \in DOMAIN reports : Counted(j) /\ AddsUp(j)

\* The report of a fire speaks of the open row the upsert wrote.
LEMMA ReportedCount ==
    ASSUME RowsInv, RowsInv', ReportInv, UpsertCandidate
    PROVE  LET n == Len(reports) + 1
               c == buildCandidate IN
           /\ DOMAIN reports' = 1..n /\ n \in Nat
           /\ \A i \in 1..Len(reports) : reports'[i] = reports[i]
           /\ reports'[n].candidate = c
           /\ Store!upsertCandidate(c, "backtest")
           /\ reports'[n].outcome = outcome'[2]
           /\ \A i \in DOMAIN rows' :
                 IsOpen(rows'[i]) /\ rows'[i].identifier = c.identifier =>
                     reports'[n].times_fired = rows'[i].times_fired
  <1> DEFINE c == buildCandidate
             report == Report(c)
  <1>1. reports' = Append(reports, report) /\ Store!upsertCandidate(c, "backtest")
    BY DEF UpsertCandidate
  <1>2. /\ report.candidate = c /\ report.outcome = outcome'[2]
        /\ report.times_fired = Written(c).times_fired
    BY DEF Report
  <1> HIDE DEF c, report
  <1>3. ASSUME NEW i \in DOMAIN rows', IsOpen(rows'[i]), rows'[i].identifier = c.identifier
        PROVE  Written(c) = rows'[i]
    <2> DEFINE Is(row) == IsOpen(row) /\ HasKey(row, c.identifier, "backtest")
    <2>1. \E row \in ToSet(rows') : Is(row)
      BY <1>3 DEF ToSet, RowsInv, HasKey
    <2>2. Written(c) \in ToSet(rows') /\ Is(Written(c))
      BY <2>1 DEF Written
    <2>3. PICK k \in DOMAIN rows' : rows'[k] = Written(c)
      BY <2>2 DEF ToSet
    <2>4. IsOpen(rows'[k]) /\ rows'[k].identifier = c.identifier
      BY <2>2, <2>3 DEF HasKey
    <2>5. k = i
      BY <1>3, <2>3, <2>4 DEF RowsInv
    <2>6. QED BY <2>3, <2>5
  <1>4. /\ DOMAIN reports' = 1..(Len(reports) + 1) /\ reports'[Len(reports) + 1] = report
        /\ \A i \in 1..Len(reports) : reports'[i] = reports[i]
    BY <1>1, AppendFacts DEF ReportInv
  <1>5. QED BY <1>1, <1>2, <1>3, <1>4 DEF ReportInv, c

\* What an upsert does to the rows of the identifiers that were reported.
LEMMA CountUpserted ==
    ASSUME RowsInv, RowsInv', ReportInv, CountInv, UpsertCandidate
    PROVE  CountInv'
  <1> DEFINE n == Len(reports) + 1
             c == buildCandidate
             X == c.identifier
             before == {i \in 1..(n - 1) : IdentifierOf(i) = X}
  <1>1. /\ DOMAIN reports' = 1..n /\ n \in Nat /\ DOMAIN reports = 1..(n - 1) /\ n >= 1
        /\ \A i \in 1..(n - 1) : reports'[i] = reports[i]
        /\ reports'[n].candidate = c
        /\ reports'[n].outcome = outcome'[2]
        /\ \A i \in DOMAIN rows' :
              IsOpen(rows'[i]) /\ rows'[i].identifier = X =>
                  reports'[n].times_fired = rows'[i].times_fired
    BY ReportedCount DEF ReportInv
  <1>2. Store!upsertCandidate(c, "backtest")
    BY ReportedCount
  <1> HIDE DEF n, c
  <1>3. \A j \in 1..(n - 1) : IdentifierOf(j)' = IdentifierOf(j)
    BY <1>1 DEF IdentifierOf
  <1>4. \A j : j = n => IdentifierOf(j)' = X
    BY <1>1 DEF IdentifierOf
  <1> HIDE DEF X
  <1>5. ASSUME before # {}
        PROVE  /\ Max(before) \in before /\ LastOf(Max(before))
               /\ Counted(Max(before)) /\ IdentifierOf(Max(before)) = X
    <2>1. \A i \in before : i <= n
      BY <1>1
    <2>2. Max(before) \in before /\ \A t \in before : t <= Max(before)
      <3>1. before \subseteq Nat
        BY <1>1
      <3> HIDE DEF before
      <3>2. QED BY <1>1, <1>5, <2>1, <3>1, MaxOf
    <2>3. LastOf(Max(before))
      <3>1. Max(before) \in Nat
        BY <1>1, <2>2
      <3>2. QED BY <1>1, <2>2, <3>1 DEF LastOf
    <2>4. QED BY <1>1, <2>2, <2>3 DEF CountInv
  <1> DEFINE Adds ==
                 /\ (reports'[n].outcome = "inserted") <=> (reports'[n].times_fired = 1)
                 /\ before # {} /\ reports'[n].times_fired # 1 =>
                       reports'[n].times_fired = reports[Max(before)].times_fired + 1
                 /\ before # {} /\ reports'[n].times_fired = 1 =>
                       \E row \in ToSet(rows') : ~IsOpen(row) /\ row.identifier = X
             \* The rows of other identifiers, and closed rows, stay.
             Kept == \A i \in DOMAIN rows :
                        /\ i \in DOMAIN rows'
                        /\ rows'[i].identifier = rows[i].identifier
                        /\ rows[i].identifier # X \/ ~IsOpen(rows[i]) => rows'[i] = rows[i]
             New == \A i \in DOMAIN rows' : rows'[i].identifier # X => i \in DOMAIN rows
             Result == /\ Adds /\ Kept /\ New /\ reports'[n].times_fired \in Nat
                       /\ \E i \in DOMAIN rows' : rows'[i].identifier = X
  <1>6. Result
    <2>1. ASSUME NEW row, \A i : ~OpenRow(i, X), outcome'[2] = "inserted",
                 rows' = Append(rows, row), row.identifier = X, IsOpen(row),
                 row.times_fired = 1
          PROVE  Result
      <3>1. /\ DOMAIN rows' = 1..(Len(rows) + 1) /\ Len(rows) + 1 \in DOMAIN rows'
            /\ rows'[Len(rows) + 1] = row
            /\ \A i \in DOMAIN rows : rows'[i] = rows[i] /\ i \in DOMAIN rows'
            /\ \A i \in DOMAIN rows' : i \in DOMAIN rows \/ i = Len(rows) + 1
        BY <2>1, AppendFacts DEF RowsInv
      <3>2. reports'[n].times_fired = 1
        BY <1>1, <2>1, <3>1
      <3>3. ASSUME before # {}
            PROVE  \E closed \in ToSet(rows') : ~IsOpen(closed) /\ closed.identifier = X
        <4>1. PICK i \in DOMAIN rows : rows[i].identifier = X
          BY <1>5, <3>3 DEF Counted
        <4>2. ~IsOpen(rows'[i]) /\ rows'[i].identifier = X /\ i \in DOMAIN rows'
          BY <2>1, <3>1, <4>1 DEF OpenRow
        <4>3. QED BY <4>2 DEF ToSet
      <3>4. Adds
        BY <1>1, <2>1, <3>2, <3>3
      <3>5. Kept /\ New
        BY <2>1, <3>1
      <3>6. QED BY <2>1, <3>1, <3>2, <3>4, <3>5
    <2>2. ASSUME NEW k, NEW row, OpenRow(k, X), outcome'[2] = "updated",
                 rows' = [rows EXCEPT ![k] = row], row.identifier = X, IsOpen(row),
                 row.times_fired = rows[k].times_fired + 1
          PROVE  Result
      <3>1. /\ DOMAIN rows' = DOMAIN rows /\ rows'[k] = row /\ k \in DOMAIN rows
            /\ \A i \in DOMAIN rows : i # k => rows'[i] = rows[i]
        BY <2>2, ExceptFacts DEF RowsInv, OpenRow
      <3>2. /\ reports'[n].times_fired = rows[k].times_fired + 1
            /\ rows[k].times_fired \in Nat \ {0}
        BY <1>1, <2>2, <3>1 DEF RowsInv
      <3>3. before # {} => rows[k].times_fired = reports[Max(before)].times_fired
        BY <1>5, <2>2 DEF Counted
      <3>4. Adds
        BY <1>1, <2>2, <3>2, <3>3
      <3>5. Kept /\ New
        BY <2>2, <3>1 DEF OpenRow
      <3>6. QED BY <2>2, <3>1, <3>2, <3>4, <3>5
    <2>3. ASSUME NEW row, Opens(c, row) PROVE Result
      <3> HIDE DEF Result
      <3>1. QED BY <2>1, <2>3 DEF Opens, X
    <2>4. ASSUME NEW i, NEW row, Refires(c, i, row) PROVE Result
      <3> HIDE DEF Result
      <3>1. QED BY <2>2, <2>4 DEF Refires, X
    <2> HIDE DEF Result
    <2>5. QED BY <1>2, <2>3, <2>4, Upserted
  <1> HIDE DEF Adds
  <1>7. ASSUME NEW j \in DOMAIN reports' PROVE Counted(j)'
    <2>1. CASE j = n
      BY <1>1, <1>4, <1>6, <2>1 DEF Counted, OpenRow, LastOf
    <2>2. CASE j # n
      <3>1. j \in 1..(n - 1) /\ Counted(j)
        BY <1>1, <2>2 DEF CountInv
      <3>2. reports'[j] = reports[j] /\ IdentifierOf(j)' = IdentifierOf(j)
        BY <1>1, <1>3, <3>1
      <3>3. \E i \in DOMAIN rows' : rows'[i].identifier = IdentifierOf(j)
        BY <1>6, <3>1 DEF Counted
      <3>4. ASSUME LastOf(j)', NEW i, OpenRow(i, IdentifierOf(j))'
            PROVE  rows'[i].times_fired = reports[j].times_fired
        <4>1. IdentifierOf(j) # X
          BY <1>1, <1>4, <3>1, <3>2, <3>4 DEF LastOf
        <4>2. LastOf(j)
          BY <1>1, <1>3, <3>1, <3>4 DEF LastOf
        <4>3. OpenRow(i, IdentifierOf(j)) /\ rows'[i] = rows[i]
          BY <1>6, <3>2, <3>4, <4>1 DEF OpenRow
        <4>4. QED BY <3>1, <4>2, <4>3 DEF Counted
      <3>5. QED BY <3>1, <3>2, <3>3, <3>4 DEF Counted
    <2>3. QED BY <2>1, <2>2
  <1>8. ASSUME NEW j \in DOMAIN reports' PROVE AddsUp(j)'
    <2>1. CASE j = n
      <3>1. Before(j)' = before
        BY <1>1, <1>3, <1>4, <2>1 DEF Before
      <3>2. before # {} => reports'[Max(before)] = reports[Max(before)]
        BY <1>1, <1>5
      <3> HIDE DEF before
      <3>3. IdentifierOf(j)' = X
        BY <1>4, <2>1
      <3>4. before # {} /\ reports'[n].times_fired # 1 =>
                reports'[n].times_fired = reports'[Max(before)].times_fired + 1
        BY <1>6, <3>2 DEF Adds
      <3>5. /\ (reports'[n].outcome = "inserted") <=> (reports'[n].times_fired = 1)
            /\ before # {} /\ reports'[n].times_fired = 1 =>
                  \E row \in ToSet(rows') : ~IsOpen(row) /\ row.identifier = X
        BY <1>6 DEF Adds
      <3>6. QED BY <2>1, <3>1, <3>3, <3>4, <3>5 DEF AddsUp
    <2>2. CASE j # n
      <3>1. j \in 1..(n - 1) /\ AddsUp(j)
        BY <1>1, <2>2 DEF CountInv
      <3>2. reports'[j] = reports[j] /\ IdentifierOf(j)' = IdentifierOf(j)
        BY <1>1, <1>3, <3>1
      <3>3. Before(j)' = Before(j) /\ Before(j) \subseteq Nat /\ Before(j) \subseteq 1..(n - 1)
        BY <1>1, <1>3, <3>1 DEF Before
      <3>4. \A t \in Before(j) : t <= n
        BY <1>1, <3>3
      <3>5. Before(j) # {} => Max(Before(j)) \in Before(j)
        BY <1>1, <3>3, <3>4, MaxOf
      <3>6. Before(j) # {} => reports'[Max(Before(j))] = reports[Max(Before(j))]
        BY <1>1, <3>3, <3>5
      <3>7. ASSUME NEW row \in ToSet(rows), ~IsOpen(row) PROVE row \in ToSet(rows')
        <4>1. PICK i \in DOMAIN rows : rows[i] = row
          BY <3>7 DEF ToSet
        <4>2. QED BY <1>6, <3>7, <4>1 DEF ToSet
      <3>8. QED BY <3>1, <3>2, <3>3, <3>6, <3>7 DEF AddsUp
    <2>3. QED BY <2>1, <2>2
  <1>9. QED BY <1>7, <1>8 DEF CountInv

LEMMA CountStep ==
    ASSUME RowsInv, ReportInv, CountInv, [Next]_vars
    PROVE  CountInv'
  <1>0. RowsInv'
    BY RowsStep
  <1>1. CASE StartRun
    <2>1. reports' = << >>
      BY <1>1 DEF StartRun
    <2>2. QED BY <2>1 DEF CountInv
  <1>2. CASE UpsertCandidate
    BY <1>0, <1>2, CountUpserted
  <1>3. CASE SetCampaignStatus
    <2>1. reports' = reports
      BY <1>3 DEF SetCampaignStatus, runVars
    <2>2. PICK i \in DOMAIN rows, status \in {"dormant", "closed"} :
              rows' = [rows EXCEPT ![i].status = status] /\ IsOpen(rows[i])
      BY <1>3 DEF SetCampaignStatus, Store!SetStatus, Store!IsOpen, IsOpen
    <2>3. /\ DOMAIN rows' = DOMAIN rows
          /\ rows'[i].identifier = rows[i].identifier
          /\ rows'[i].times_fired = rows[i].times_fired
          /\ \A j \in DOMAIN rows : j # i => rows'[j] = rows[j]
      BY <2>2 DEF RowsInv, RowFields
    <2>4. \A row \in ToSet(rows) : ~IsOpen(row) => row \in ToSet(rows')
      BY <2>2, <2>3 DEF ToSet
    <2>5. ASSUME NEW j \in DOMAIN reports, Counted(j) PROVE Counted(j)'
      BY <2>1, <2>2, <2>3, <2>5 DEF Counted, LastOf, IdentifierOf, OpenRow
    <2>6. ASSUME NEW j \in DOMAIN reports, AddsUp(j) PROVE AddsUp(j)'
      BY <2>1, <2>4, <2>6 DEF AddsUp, Before, IdentifierOf
    <2>7. QED BY <2>1, <2>5, <2>6 DEF CountInv
  <1>4. CASE UNCHANGED <<reports, rows>>
    <2>1. \A j : Counted(j)' <=> Counted(j)
      BY <1>4 DEF Counted, LastOf, IdentifierOf, OpenRow
    <2>2. \A j : AddsUp(j)' <=> AddsUp(j)
      BY <1>4 DEF AddsUp, Before, IdentifierOf
    <2>3. QED BY <1>4, <2>1, <2>2 DEF CountInv
  <1>5. QED
    BY <1>1, <1>2, <1>3, <1>4, NextCases
    DEF LoadRequests, SkipGroup, RecordMarkers, NextStrategy, Finish, Crash, vars, runVars,
        storeVars

\* The re-fire numbers: for any log, any strategies' figures, any number of runs,
\* crashes and campaigns set aside, the fires of one identifier that a run reports carry
\* consecutive numbers, an insert is a first fire, and the count starts over only
\* where an operator closed the episode.
THEOREM ReportsCount == Spec => []ReportsAddUp
  <1>1. Init => RowsInv /\ ReportInv /\ CountInv
    <2>1. Init => reports = << >> /\ rows = << >> /\ pc = "idle"
      BY DEF Init, Store!Init
    <2>2. << >> \in Seq(ToSet(<< >>))
      OBVIOUS
    <2>3. QED BY <2>1, <2>2 DEF RowsInv, ReportInv, CountInv
  <1>2. CountInv => ReportsAddUp
    BY DEF CountInv, ReportsAddUp, AddsUp, Before, IdentifierOf
  <1>3. RowsInv /\ [Next]_vars => RowsInv'
    BY RowsStep
  <1>4. ScanInv /\ ReportInv /\ [Next]_vars => ReportInv'
    BY ReportStep
  <1>5. RowsInv /\ ReportInv /\ CountInv /\ [Next]_vars => CountInv'
    BY CountStep
  <1>6. QED BY <1>1, <1>2, <1>3, <1>4, <1>5, ScanInit, ScanStep, PTL DEF Spec

---------------------------------------------------------------------------
(***************************************************************************)
(* What a run prints at its end, against the table.  A row that nobody     *)
(* closed has a peak that no report of its identifier exceeds (PeakInv),   *)
(* and the count of the last one (CountInv); the lists that are printed    *)
(* leave nothing out (HighestFirstLists); and after the end nothing but a  *)
(* closing changes the table.                                              *)
(***************************************************************************)

\* A confidence is a number, in the code from 0 to 1.
ConfidencesAreNumbers ==
    \A strategy, figures : Confidence(strategy, figures) \in Nat

Closed(identifier) == \E row \in ToSet(rows) : ~IsOpen(row) /\ row.identifier = identifier

SetAside(identifier) ==
    \E row \in ToSet(rows) : row.status # "active" /\ row.identifier = identifier

PeakInv ==
    /\ \A i \in DOMAIN rows :
          rows[i].status \in Statuses /\ rows[i].peak_confidence \in Nat
    /\ \A j \in DOMAIN reports :
          /\ reports[j].candidate.confidence \in Nat
          /\ ~Closed(IdentifierOf(j)) =>
                \A i : OpenRow(i, IdentifierOf(j)) =>
                    rows[i].peak_confidence >= reports[j].candidate.confidence

LEMMA PeakUpserted ==
    ASSUME ConfidencesAreNumbers, RowsInv, RowsInv', ReportInv, CountInv, PeakInv,
           UpsertCandidate
    PROVE  PeakInv'
  <1> DEFINE n == Len(reports) + 1
             c == buildCandidate
             X == c.identifier
  <1>1. /\ DOMAIN reports' = 1..n /\ n \in Nat /\ DOMAIN reports = 1..(n - 1)
        /\ \A j \in 1..(n - 1) : reports'[j] = reports[j]
        /\ reports'[n].candidate = c
        /\ Store!upsertCandidate(c, "backtest")
    BY ReportedCount DEF ReportInv
  <1>2. c.confidence \in Nat
    BY DEF buildCandidate, ConfidencesAreNumbers
  <1> HIDE DEF n, c
  <1>3. \A j \in 1..(n - 1) : IdentifierOf(j)' = IdentifierOf(j)
    BY <1>1 DEF IdentifierOf
  <1>4. \A j : j = n => IdentifierOf(j)' = X
    BY <1>1 DEF IdentifierOf
  <1> HIDE DEF X
  <1> DEFINE Typed == \A i \in DOMAIN rows' : /\ rows'[i].status \in Statuses
                                              /\ rows'[i].peak_confidence \in Nat
             \* Rows of other identifiers, and closed rows, stay; the open one of
             \* X covers the fire, and what it covered.
             Kept == \A i \in DOMAIN rows :
                        rows[i].identifier # X \/ ~IsOpen(rows[i]) =>
                            i \in DOMAIN rows' /\ rows'[i] = rows[i]
             New == \A i \in DOMAIN rows' :
                        rows'[i].identifier # X => i \in DOMAIN rows /\ rows'[i] = rows[i]
             Covers == \A i \in DOMAIN rows' :
                        IsOpen(rows'[i]) /\ rows'[i].identifier = X =>
                            rows'[i].peak_confidence >= c.confidence
             Grows == \A i \in DOMAIN rows' :
                        IsOpen(rows'[i]) /\ rows'[i].identifier = X =>
                            \/ \A k : ~OpenRow(k, X)
                            \/ /\ OpenRow(i, X)
                               /\ rows'[i].peak_confidence >= rows[i].peak_confidence
             Result == Typed /\ Kept /\ New /\ Covers /\ Grows
  <1>5. Result
    <2>1. ASSUME NEW row, \A i : ~OpenRow(i, X), rows' = Append(rows, row),
                 row.identifier = X, row.status = "active",
                 row.peak_confidence = c.confidence
          PROVE  Result
      <3>1. /\ DOMAIN rows' = 1..(Len(rows) + 1) /\ rows'[Len(rows) + 1] = row
            /\ \A i \in DOMAIN rows : rows'[i] = rows[i] /\ i \in DOMAIN rows'
            /\ \A i \in DOMAIN rows' : i \in DOMAIN rows \/ i = Len(rows) + 1
        BY <2>1, AppendFacts DEF RowsInv
      <3>2. Typed /\ Kept /\ New
        BY <1>2, <2>1, <3>1 DEF PeakInv, Statuses
      <3>3. Covers
        BY <1>2, <2>1, <3>1 DEF OpenRow
      <3>4. Grows
        BY <2>1
      <3>5. QED BY <3>2, <3>3, <3>4
    <2>2. ASSUME NEW k, NEW row, OpenRow(k, X), rows' = [rows EXCEPT ![k] = row],
                 row.identifier = X, row.status = rows[k].status,
                 row.peak_confidence = Later(rows[k].peak_confidence, c.confidence)
          PROVE  Result
      <3>1. /\ DOMAIN rows' = DOMAIN rows /\ rows'[k] = row /\ k \in DOMAIN rows
            /\ \A i \in DOMAIN rows : i # k => rows'[i] = rows[i]
        BY <2>2, ExceptFacts DEF RowsInv, OpenRow
      <3>2. /\ rows[k].peak_confidence \in Nat /\ row.peak_confidence \in Nat
            /\ row.peak_confidence >= rows[k].peak_confidence
            /\ row.peak_confidence >= c.confidence
        BY <1>2, <2>2, <3>1 DEF PeakInv, Later
      <3>3. \A i \in DOMAIN rows' : IsOpen(rows'[i]) /\ rows'[i].identifier = X => i = k
        BY <2>2, <3>1 DEF OpenRow, RowsInv
      <3>4. Typed
        BY <2>2, <3>1, <3>2 DEF PeakInv
      <3>5. Kept /\ New
        BY <2>2, <3>1 DEF OpenRow
      <3>6. Covers /\ Grows
        BY <2>2, <3>1, <3>2, <3>3
      <3>7. QED BY <3>4, <3>5, <3>6
    <2>3. ASSUME NEW row, Opens(c, row) PROVE Result
      <3> HIDE DEF Result
      <3>1. QED BY <2>1, <2>3 DEF Opens, X
    <2>4. ASSUME NEW i, NEW row, Refires(c, i, row) PROVE Result
      <3> HIDE DEF Result
      <3>1. QED BY <2>2, <2>4 DEF Refires, X
    <2> HIDE DEF Result
    <2>5. QED BY <1>1, <2>3, <2>4, Upserted
  <1>6. \A identifier : Closed(identifier) => Closed(identifier)'
    <2> SUFFICES ASSUME NEW identifier, NEW i \in DOMAIN rows, ~IsOpen(rows[i]),
                        rows[i].identifier = identifier
                 PROVE  \E row \in ToSet(rows') : ~IsOpen(row) /\ row.identifier = identifier
      BY DEF Closed, ToSet
    <2>1. i \in DOMAIN rows' /\ rows'[i] = rows[i]
      BY <1>5
    <2>2. QED BY <2>1 DEF ToSet
  <1>7. ASSUME NEW j \in DOMAIN reports', ~Closed(IdentifierOf(j))',
               NEW i, OpenRow(i, IdentifierOf(j))'
        PROVE  rows'[i].peak_confidence >= reports'[j].candidate.confidence
    <2>1. CASE j = n
      BY <1>1, <1>4, <1>5, <1>7, <2>1 DEF OpenRow
    <2>2. CASE j # n
      <3>1. j \in 1..(n - 1)
        BY <1>1, <2>2
      <3>2. /\ reports'[j] = reports[j] /\ IdentifierOf(j)' = IdentifierOf(j)
            /\ j \in DOMAIN reports
        BY <1>1, <1>3, <3>1
      <3>3. ~Closed(IdentifierOf(j))
        BY <1>6, <1>7, <3>2 DEF Closed
      <3>4. i \in DOMAIN rows' /\ IsOpen(rows'[i]) /\ rows'[i].identifier = IdentifierOf(j)
        BY <1>7, <3>2 DEF OpenRow
      <3>5. CASE IdentifierOf(j) # X
        <4>1. OpenRow(i, IdentifierOf(j)) /\ rows'[i] = rows[i]
          BY <1>5, <3>4, <3>5 DEF OpenRow
        <4>2. QED BY <3>2, <3>3, <4>1 DEF PeakInv
      <3>6. CASE IdentifierOf(j) = X
        <4>1. PICK k \in DOMAIN rows : rows[k].identifier = X
          BY <3>2, <3>6 DEF CountInv, Counted
        <4>2. OpenRow(k, X)
          BY <3>3, <3>6, <4>1 DEF Closed, ToSet, OpenRow
        <4>3. OpenRow(i, X) /\ rows'[i].peak_confidence >= rows[i].peak_confidence
          BY <1>5, <3>4, <3>6, <4>2
        <4>4. rows[i].peak_confidence >= reports[j].candidate.confidence
          BY <3>2, <3>3, <3>6, <4>3 DEF PeakInv
        <4>5. /\ rows'[i].peak_confidence \in Nat /\ rows[i].peak_confidence \in Nat
              /\ reports[j].candidate.confidence \in Nat
          BY <1>5, <3>2, <3>4, <4>3 DEF PeakInv, OpenRow
        <4>6. QED BY <3>2, <4>3, <4>4, <4>5
      <3>7. QED BY <3>5, <3>6
    <2>3. QED BY <2>1, <2>2
  <1>8. \A j \in DOMAIN reports' : reports'[j].candidate.confidence \in Nat
    BY <1>1, <1>2 DEF PeakInv
  <1>9. Typed
    BY <1>5
  <1>10. QED BY <1>7, <1>8, <1>9 DEF PeakInv

\* Setting a row's status leaves the rest of it; what was set aside stays so.
LEMMA StatusStep ==
    ASSUME RowsInv, SetCampaignStatus
    PROVE  \E i \in DOMAIN rows :
              /\ IsOpen(rows[i]) /\ rows'[i].status \in {"dormant", "closed"}
              /\ rows'[i].identifier = rows[i].identifier
              /\ rows'[i].peak_confidence = rows[i].peak_confidence
              /\ rows'[i].first_seen = rows[i].first_seen
              /\ rows'[i].last_seen = rows[i].last_seen
              /\ DOMAIN rows' = DOMAIN rows
              /\ \A j \in DOMAIN rows : j # i => rows'[j] = rows[j]
              /\ \A identifier : Closed(identifier) => Closed(identifier)'
              /\ \A identifier : SetAside(identifier) => SetAside(identifier)'
              /\ reports' = reports /\ output' = output /\ pc' = pc
  <1>1. PICK i \in DOMAIN rows, status \in {"dormant", "closed"} :
            rows' = [rows EXCEPT ![i].status = status] /\ IsOpen(rows[i])
    BY DEF SetCampaignStatus, Store!SetStatus, Store!IsOpen, IsOpen
  <1>2. /\ DOMAIN rows' = DOMAIN rows /\ rows'[i].status = status
        /\ rows'[i].identifier = rows[i].identifier
        /\ rows'[i].peak_confidence = rows[i].peak_confidence
        /\ rows'[i].first_seen = rows[i].first_seen
        /\ rows'[i].last_seen = rows[i].last_seen
        /\ \A j \in DOMAIN rows : j # i => rows'[j] = rows[j]
    BY <1>1 DEF RowsInv, RowFields
  <1>3. ASSUME NEW identifier, Closed(identifier) PROVE Closed(identifier)'
    <2>1. PICK k \in DOMAIN rows : ~IsOpen(rows[k]) /\ rows[k].identifier = identifier
      BY <1>3 DEF Closed, ToSet
    <2>2. rows'[k] = rows[k] /\ k \in DOMAIN rows'
      BY <1>1, <1>2, <2>1
    <2>3. rows'[k] \in ToSet(rows')
      BY <2>2 DEF ToSet
    <2>4. QED BY <2>1, <2>2, <2>3 DEF Closed
  <1>4. ASSUME NEW identifier, SetAside(identifier) PROVE SetAside(identifier)'
    <2>1. PICK k \in DOMAIN rows : rows[k].status # "active" /\ rows[k].identifier = identifier
      BY <1>4 DEF SetAside, ToSet
    <2>2. /\ k \in DOMAIN rows' /\ rows'[k].identifier = identifier
          /\ rows'[k].status # "active"
      BY <1>2, <2>1
    <2>3. rows'[k] \in ToSet(rows')
      BY <2>2 DEF ToSet
    <2>4. QED BY <2>2, <2>3 DEF SetAside
  <1>5. reports' = reports /\ output' = output /\ pc' = pc
    BY DEF SetCampaignStatus, runVars
  <1>6. QED BY <1>1, <1>2, <1>3, <1>4, <1>5

LEMMA PeakStep ==
    ASSUME ConfidencesAreNumbers, RowsInv, ReportInv, CountInv, PeakInv, [Next]_vars
    PROVE  PeakInv'
  <1>1. CASE StartRun
    <2>1. reports' = << >> /\ rows' = rows
      BY <1>1 DEF StartRun, storeVars
    <2>2. QED BY <2>1 DEF PeakInv
  <1>2. CASE UpsertCandidate
    BY <1>2, RowsStep, PeakUpserted
  <1>3. CASE SetCampaignStatus
    <2>1. PICK i \in DOMAIN rows :
              /\ IsOpen(rows[i]) /\ rows'[i].status \in {"dormant", "closed"}
              /\ rows'[i].identifier = rows[i].identifier
              /\ rows'[i].peak_confidence = rows[i].peak_confidence
              /\ DOMAIN rows' = DOMAIN rows
              /\ \A j \in DOMAIN rows : j # i => rows'[j] = rows[j]
              /\ \A identifier : Closed(identifier) => Closed(identifier)'
              /\ reports' = reports
      BY <1>3, StatusStep
    <2>2. \A k \in DOMAIN rows' : /\ rows'[k].status \in Statuses
                                  /\ rows'[k].peak_confidence \in Nat
      BY <2>1 DEF PeakInv, Statuses
    <2>3. ASSUME NEW j \in DOMAIN reports, ~Closed(IdentifierOf(j))',
                 NEW k, OpenRow(k, IdentifierOf(j))'
          PROVE  rows'[k].peak_confidence >= reports[j].candidate.confidence
      <3>1. IdentifierOf(j)' = IdentifierOf(j)
        BY <2>1 DEF IdentifierOf
      <3>2. ~Closed(IdentifierOf(j))
        BY <2>1, <2>3, <3>1 DEF Closed
      <3>3. /\ OpenRow(k, IdentifierOf(j))
            /\ rows'[k].peak_confidence = rows[k].peak_confidence
        BY <2>1, <2>3, <3>1 DEF OpenRow
      <3>4. QED BY <3>2, <3>3 DEF PeakInv
    <2>4. QED BY <2>1, <2>2, <2>3 DEF PeakInv
  <1>4. CASE UNCHANGED <<reports, rows>>
    BY <1>4 DEF PeakInv, Closed, OpenRow, IdentifierOf
  <1>5. QED
    BY <1>1, <1>2, <1>3, <1>4, NextCases
    DEF LoadRequests, SkipGroup, RecordMarkers, NextStrategy, Finish, Crash, vars, runVars,
        storeVars

OutputInv ==
    /\ pc # "done" => output = NoOutput
    /\ OutputMatchesTable

\* The list that is printed of the rows has every active row in it.
LEMMA ActiveListed ==
    ASSUME RowsInv, PeakInv, NEW i \in DOMAIN rows, rows[i].status = "active"
    PROVE  rows[i] \in ToSet(Store!listByStatus("active"))
  <1> DEFINE listed == {k \in DOMAIN rows : rows[k].status = "active"}
             key == [k \in listed |-> rows[k].peak_confidence]
             order == HighestFirst(listed, key)
  <1>1. Store!listByStatus("active") = [k \in DOMAIN order |-> rows[order[k]]]
    <2>1. \A S, f : Store!HighestFirst(S, f) = HighestFirst(S, f)
      BY DEF HighestFirst, Store!HighestFirst, Place, Store!Place,
                   Precedes, Store!Precedes, Cardinality, Store!Cardinality
    <2>2. Store!listByStatus("active") =
              [k \in DOMAIN Store!HighestFirst(listed, key) |->
                  rows[Store!HighestFirst(listed, key)[k]]]
      BY DEF Store!listByStatus
    <2> HIDE DEF listed, key
    <2>3. QED BY <2>1, <2>2
  <1>2. listed \subseteq Nat /\ IsFiniteSet(listed)
    <2>0. Len(rows) \in Nat
      BY DEF RowsInv
    <2>1. IsFiniteSet(1..Len(rows))
      BY <2>0, FS_Interval
    <2>2. listed \in SUBSET (1..Len(rows))
      BY DEF RowsInv
    <2>3. QED BY <2>1, <2>2, FS_Subset DEF RowsInv
  <1>3. \A k \in listed : key[k] \in Nat
    BY DEF PeakInv
  <1>4. i \in listed
    OBVIOUS
  <1> HIDE DEF listed, key
  <1>5. Range(order) = listed
    BY <1>2, <1>3, HighestFirstLists
  <1> HIDE DEF order
  <1>6. PICK k \in DOMAIN order : order[k] = i
    BY <1>4, <1>5 DEF Range
  <1>7. QED BY <1>1, <1>6 DEF ToSet

\* Every fire that is printed was reported.
LEMMA RenderedReported ==
    ASSUME ReportInv, PeakInv, NEW filter, NEW k \in DOMAIN renderOutput(filter)
    PROVE  \E j \in DOMAIN reports : renderOutput(filter)[k] = reports[j]
  <1> DEFINE kept == {j \in DOMAIN reports : filter \in {"all", reports[j].strategy}}
             key == [j \in kept |-> reports[j].candidate.confidence]
             sorted == HighestFirst(kept, key)
  <1>1. renderOutput(filter) = [j \in DOMAIN sorted |-> reports[sorted[j]]]
    BY DEF renderOutput
  <1>2. kept \subseteq Nat /\ IsFiniteSet(kept)
    <2>1. IsFiniteSet(1..Len(reports))
      BY FS_Interval DEF ReportInv
    <2>2. kept \in SUBSET (1..Len(reports))
      BY DEF ReportInv
    <2>3. QED BY <2>1, <2>2, FS_Subset DEF ReportInv
  <1>3. \A j \in kept : key[j] \in Nat
    BY DEF PeakInv
  <1>4. kept \subseteq DOMAIN reports
    OBVIOUS
  <1> HIDE DEF kept, key
  <1>5. Range(sorted) = kept
    BY <1>2, <1>3, HighestFirstLists
  <1> HIDE DEF sorted
  <1>6. QED BY <1>1, <1>4, <1>5 DEF Range

\* OutputMatchesTable of one printed fire.
Matches(fire, printed) ==
    LET same == {i \in DOMAIN reports : IdentifierOf(i) = fire.candidate.identifier} IN
    \/ SetAside(fire.candidate.identifier)
    \/ \E row \in ToSet(printed) :
          /\ row.identifier = fire.candidate.identifier
          /\ row.times_fired = reports[Max(same)].times_fired
          /\ row.peak_confidence >= fire.candidate.confidence

LEMMA MatchesAll ==
    OutputMatchesTable /\ output.format = "table" =>
        \A k \in DOMAIN output.fires : Matches(output.fires[k], output.active)
  BY DEF OutputMatchesTable, Matches, SetAside, IdentifierOf

LEMMA MatchesAllNext ==
    ASSUME output'.format = "table" =>
               \A k \in DOMAIN output'.fires : \A fire, printed :
                   fire = output'.fires[k] /\ printed = output'.active
                   => Matches(fire, printed)'
    PROVE  OutputMatchesTable'
  BY DEF OutputMatchesTable, Matches, SetAside, IdentifierOf

\* At the end of the scan the table is as the reports said.
LEMMA ReportMatches ==
    ASSUME RowsInv, ReportInv, CountInv, PeakInv, NEW j \in DOMAIN reports
    PROVE  Matches(reports[j], Store!listByStatus("active"))
  <1> DEFINE X == IdentifierOf(j)
             same == {i \in DOMAIN reports : IdentifierOf(i) = X}
  <1> SUFFICES ASSUME ~SetAside(X)
               PROVE  \E row \in ToSet(Store!listByStatus("active")) :
                         /\ row.identifier = X
                         /\ row.times_fired = reports[Max(same)].times_fired
                         /\ row.peak_confidence >= reports[j].candidate.confidence
    BY DEF Matches, IdentifierOf
  <1>1. PICK i \in DOMAIN rows : rows[i].identifier = X
    BY DEF CountInv, Counted
  <1>2. rows[i].status = "active" /\ OpenRow(i, X) /\ ~Closed(X)
    BY <1>1 DEF SetAside, Closed, IsOpen, ToSet, OpenRow
  <1>3. rows[i] \in ToSet(Store!listByStatus("active"))
    BY <1>2, ActiveListed
  <1>4. rows[i].peak_confidence >= reports[j].candidate.confidence
    BY <1>2 DEF PeakInv
  <1>5. Max(same) \in same /\ \A t \in same : t <= Max(same)
    <2>1. /\ same \subseteq Nat /\ j \in same /\ Len(reports) \in Nat
          /\ \A t \in same : t <= Len(reports)
      BY DEF ReportInv
    <2> HIDE DEF same
    <2>2. QED BY <2>1, MaxOf
  <1>6. LastOf(Max(same)) /\ Counted(Max(same)) /\ IdentifierOf(Max(same)) = X
    <2>1. /\ Max(same) \in DOMAIN reports /\ Max(same) \in Nat
          /\ IdentifierOf(Max(same)) = X
      BY <1>5 DEF ReportInv
    <2>2. \A t \in DOMAIN reports : t > Max(same) => IdentifierOf(t) # X
      <3>1. \A t \in DOMAIN reports : t \in Nat
        BY DEF ReportInv
      <3>2. QED BY <1>5, <2>1, <3>1
    <2> HIDE DEF same, X
    <2>3. LastOf(Max(same))
      BY <2>1, <2>2 DEF LastOf
    <2>4. QED BY <2>1, <2>3 DEF CountInv
  <1>7. rows[i].times_fired = reports[Max(same)].times_fired
    <2> HIDE DEF same, X
    <2>1. QED BY <1>2, <1>6 DEF Counted
  <1>8. QED BY <1>1, <1>3, <1>4, <1>7

LEMMA OutputStep ==
    ASSUME ScanInv, RowsInv, ReportInv, CountInv, PeakInv, OutputInv, [Next]_vars
    PROVE  OutputInv'
  <1>1. CASE StartRun
    <2>1. output' = NoOutput
      BY <1>1 DEF StartRun
    <2>2. QED BY <2>1 DEF OutputInv, OutputMatchesTable, NoOutput
  <1>2. CASE LoadRequests \/ SkipGroup \/ UpsertCandidate \/ RecordMarkers \/ NextStrategy \/ Crash
    <2>1. output' = output /\ pc # "done"
      BY <1>2 DEF LoadRequests, SkipGroup, UpsertCandidate, RecordMarkers, NextStrategy, Crash,
                  runVars
    <2>2. output' = NoOutput
      BY <2>1 DEF OutputInv
    <2>3. QED BY <2>2 DEF OutputInv, OutputMatchesTable, NoOutput
  <1>3. CASE Finish
    <2>1. PICK filter, format :
              output' = [ format |-> format, fires |-> renderOutput(filter),
                          active |-> IF format = "jsonl" THEN << >>
                                     ELSE Store!listByStatus("active") ]
      BY <1>3 DEF Finish
    <2>2. pc' = "done" /\ reports' = reports /\ rows' = rows
      BY <1>3 DEF Finish, storeVars
    <2>3. ASSUME output'.format = "table", NEW k \in DOMAIN output'.fires
          PROVE  Matches(output'.fires[k], output'.active)
      <3>1. output'.fires = renderOutput(filter) /\ output'.active = Store!listByStatus("active")
        BY <2>1, <2>3
      <3>2. PICK j \in DOMAIN reports : output'.fires[k] = reports[j]
        BY <2>3, <3>1, RenderedReported
      <3>3. QED BY <3>1, <3>2, ReportMatches
    <2>4. \A fire, printed : Matches(fire, printed) => Matches(fire, printed)'
      BY <2>2 DEF Matches, SetAside, IdentifierOf
    <2>5. OutputMatchesTable'
      BY <2>3, <2>4, MatchesAllNext
    <2>6. QED BY <2>2, <2>5 DEF OutputInv
  <1>4. CASE SetCampaignStatus
    <2>1. /\ \A identifier : SetAside(identifier) => SetAside(identifier)'
          /\ reports' = reports /\ output' = output /\ pc' = pc
      BY <1>4, StatusStep
    <2>2. \A fire, printed : Matches(fire, printed) => Matches(fire, printed)'
      BY <2>1 DEF Matches, SetAside, IdentifierOf
    <2>3. OutputMatchesTable'
      BY <2>1, <2>2, MatchesAll, MatchesAllNext DEF OutputInv
    <2>4. QED BY <2>1, <2>3 DEF OutputInv
  <1>5. CASE UNCHANGED vars
    BY <1>5 DEF vars, runVars, storeVars, OutputInv, OutputMatchesTable
  <1>6. QED BY <1>1, <1>2, <1>3, <1>4, <1>5, NextCases

\* What a run prints: whatever it found and whichever strategy is asked for, every
\* fire of the default output belongs to a campaign that it lists too, with the count
\* of its last fire and a peak that no listed fire exceeds, unless an operator closed
\* it or set it dormant.
THEOREM OutputAgrees ==
    ASSUME ConfidencesAreNumbers
    PROVE  Spec => []OutputMatchesTable
  <1>1. Init => RowsInv /\ ReportInv /\ CountInv /\ PeakInv /\ OutputInv
    <2>1. Init => reports = << >> /\ rows = << >> /\ pc = "idle" /\ output = NoOutput
      BY DEF Init, Store!Init
    <2>2. << >> \in Seq(ToSet(<< >>))
      OBVIOUS
    <2>3. QED
      BY <2>1, <2>2
      DEF RowsInv, ReportInv, CountInv, PeakInv, OutputInv, OutputMatchesTable, NoOutput
  <1>2. RowsInv /\ [Next]_vars => RowsInv'
    BY RowsStep
  <1>3. ScanInv /\ ReportInv /\ [Next]_vars => ReportInv'
    BY ReportStep
  <1>4. RowsInv /\ ReportInv /\ CountInv /\ [Next]_vars => CountInv'
    BY CountStep
  <1>5. RowsInv /\ ReportInv /\ CountInv /\ PeakInv /\ [Next]_vars => PeakInv'
    BY PeakStep
  <1>6. /\ ScanInv /\ RowsInv /\ ReportInv /\ CountInv /\ PeakInv /\ OutputInv
        /\ [Next]_vars
        => OutputInv'
    BY OutputStep
  <1>7. OutputInv => OutputMatchesTable
    BY DEF OutputInv
  <1>8. QED
    BY <1>1, <1>2, <1>3, <1>4, <1>5, <1>6, <1>7, ScanInit, ScanStep, PTL DEF Spec

---------------------------------------------------------------------------
(***************************************************************************)
(* What a window holds and what the strategies make of it: the query's     *)
(* answer is a list of logged requests of the window, and every group is   *)
(* what a strategy observes of it under one key.                           *)
(***************************************************************************)

\* The greatest member of a finite set.
LEMMA GreatestMember ==
    ASSUME NEW T, T \subseteq Nat, IsFiniteSet(T), T # {}
    PROVE  Max(T) \in T /\ \A t \in T : Max(T) >= t
  <1> DEFINE n == Cardinality(T)
             at == Ascending(T)
  <1>1. /\ n \in Nat /\ \A k \in 1..n : at[k] \in T
        /\ \A j, k \in 1..n : j < k => at[j] < at[k]
        /\ \A p \in T : \E k \in 1..n : at[k] = p
    BY AscendingLists
  <1> HIDE DEF at, n
  <1>2. n \in 1..n
    <2>1. PICK k \in 1..n : TRUE
      BY <1>1
    <2>2. QED BY <1>1, <2>1
  <1>3. ASSUME NEW t \in T PROVE at[n] >= t
    <2>1. PICK k \in 1..n : at[k] = t
      BY <1>1
    <2>2. k < n \/ k = n
      BY <1>1
    <2>3. at[n] \in Nat /\ t \in Nat
      BY <1>1, <1>2
    <2>4. QED BY <1>1, <1>2, <2>1, <2>2, <2>3
  <1>4. \E x \in T : \A t \in T : x >= t
    BY <1>1, <1>2, <1>3
  <1>5. QED BY <1>4 DEF Max

\* What two lists hold, one after the other.
LEMMA ConcatMembers ==
    ASSUME NEW S, NEW e \in Seq(S), NEW x \in Seq(S)
    PROVE  e \o x \in Seq(S) /\ ToSet(e \o x) = ToSet(e) \cup ToSet(x)
  <1>1. /\ Len(e) \in Nat /\ Len(x) \in Nat /\ DOMAIN e = 1..Len(e) /\ DOMAIN x = 1..Len(x)
        /\ e \o x \in Seq(S) /\ DOMAIN (e \o x) = 1..(Len(e) + Len(x))
        /\ \A i \in 1..(Len(e) + Len(x)) :
              (e \o x)[i] = IF i <= Len(e) THEN e[i] ELSE x[i - Len(e)]
    OBVIOUS
  <1>2. \A i \in 1..Len(e) : i \in 1..(Len(e) + Len(x)) /\ (e \o x)[i] = e[i]
    BY <1>1
  <1>3. \A i \in 1..Len(x) : /\ Len(e) + i \in 1..(Len(e) + Len(x))
                             /\ (e \o x)[Len(e) + i] = x[i]
    BY <1>1
  <1>4. \A i \in 1..(Len(e) + Len(x)) :
            IF i <= Len(e) THEN i \in 1..Len(e) ELSE i - Len(e) \in 1..Len(x)
    BY <1>1
  <1>5. ToSet(e \o x) \subseteq ToSet(e) \cup ToSet(x)
    <2>1. ASSUME NEW i \in 1..(Len(e) + Len(x))
          PROVE  (e \o x)[i] \in ToSet(e) \cup ToSet(x)
      <3>1. CASE i <= Len(e)
        BY <1>1, <1>4, <3>1 DEF ToSet
      <3>2. CASE ~(i <= Len(e))
        BY <1>1, <1>4, <3>2 DEF ToSet
      <3>3. QED BY <3>1, <3>2
    <2>2. QED BY <1>1, <2>1 DEF ToSet
  <1>6. ToSet(e) \subseteq ToSet(e \o x) /\ ToSet(x) \subseteq ToSet(e \o x)
    <2> DEFINE both == e \o x
    <2>1. /\ DOMAIN both = 1..(Len(e) + Len(x)) /\ \A i \in 1..Len(e) : both[i] = e[i]
          /\ \A i \in 1..Len(x) : both[Len(e) + i] = x[i]
      BY <1>1, <1>2, <1>3
    <2> HIDE DEF both
    <2>2. \A i \in 1..Len(e) : e[i] \in ToSet(both)
      BY <1>2, <2>1 DEF ToSet
    <2>3. \A i \in 1..Len(x) : x[i] \in ToSet(both)
      BY <1>3, <2>1 DEF ToSet
    <2>4. QED BY <1>1, <2>2, <2>3 DEF ToSet, both
  <1>7. QED BY <1>1, <1>5, <1>6

\* A window is a list of the requests the query found, all of them, in whatever order.
LEMMA OrdersList ==
    ASSUME NEW requests, IsFiniteSet(requests), \A r \in requests : r.created_at \in Nat,
           NEW order \in Orders(requests)
    PROVE  order \in Seq(requests) /\ ToSet(order) = requests
  <1> DEFINE times == {r.created_at : r \in requests} \cup {0}
             end == Max(times)
             tied == [t \in 0..end |-> SetToSeqs({r \in requests : r.created_at = t})]
             Followed(before, t) == {earlier \o next : earlier \in before, next \in tied[t]}
             Solves(f) == f = [t \in 0..end |-> IF t = 0 THEN tied[0] ELSE Followed(f[t - 1], t)]
             upTo == CHOOSE f : Solves(f)
             V == SUBSET Seq(requests)
             Until(t) == {s \in Seq(requests) : ToSet(s) = {r \in requests : r.created_at <= t}}
             follow == [t \in 1..end |-> [before \in V |-> Followed(before, t)]]
  <1>1. Orders(requests) = upTo[end]
    BY DEF Orders
  <1>2. end \in Nat /\ \A r \in requests : r.created_at <= end
    <2>1. IsFiniteSet({r.created_at : r \in requests})
      <3> DEFINE at == [r \in requests |-> r.created_at]
      <3>1. at \in Surjection(requests, {r.created_at : r \in requests})
        BY DEF Surjection
      <3>2. QED BY <3>1, FS_Surjection
    <2>2. IsFiniteSet(times) /\ times \subseteq Nat /\ times # {}
      <3>1. IsFiniteSet({0})
        BY FS_Singleton
      <3>2. IsFiniteSet(times)
        BY <2>1, <3>1, FS_Union
      <3>3. QED BY <3>2
    <2>3. \A r \in requests : r.created_at \in times
      OBVIOUS
    <2> HIDE DEF times
    <2>4. QED BY <2>2, <2>3, GreatestMember
  <1>3. \A t \in 0..end : /\ tied[t] \in V
                            /\ \A f \in tied[t] : ToSet(f) = {r \in requests : r.created_at = t}
    <2> TAKE t \in 0..end
    <2> DEFINE S == {r \in requests : r.created_at = t}
               n == Cardinality(S)
    <2>1. IsFiniteSet(S)
      BY FS_Subset
    <2>2. n \in Nat
      BY <2>1, FS_CardinalityType
    <2>3. \A f \in tied[t] : /\ f \in [1..n -> S]
                              /\ \A i, j \in 1..n : i # j => f[i] # f[j]
      BY DEF SetToSeqs
    <2>4. S \subseteq requests /\ n = Cardinality(S)
      OBVIOUS
    <2> HIDE DEF n, tied, S
    <2>5. \A f \in tied[t] : f \in Seq(requests)
      BY <2>2, <2>3, <2>4
    <2>6. ASSUME NEW f \in tied[t] PROVE ToSet(f) = S
      <3>1. f \in Injection(1..n, S)
        BY <2>3 DEF Injection, IsInjective
      <3>2. Cardinality(1..n) = n
        BY <2>2, FS_Interval
      <3>3. f \in Surjection(1..n, S)
        BY <2>1, <2>4, <3>1, <3>2, FS_Injection
      <3>4. DOMAIN f = 1..n /\ \A i \in 1..n : f[i] \in S
        BY <2>3
      <3>5. \A r \in S : \E i \in 1..n : f[i] = r
        BY <3>3 DEF Surjection
      <3>6. QED BY <3>4, <3>5 DEF ToSet
    <2>7. QED BY <2>5, <2>6 DEF S
  <1> HIDE DEF tied, end
  <1>4. ASSUME NEW t \in 1..end, NEW before \in V PROVE Followed(before, t) \in V
    <2>1. t \in 0..end
      BY <1>2
    <2>2. tied[t] \in V
      BY <1>3, <2>1
    <2>3. \A e \in before, x \in tied[t] : e \in Seq(requests) /\ x \in Seq(requests)
      BY <2>2
    <2>4. ASSUME NEW e \in before, NEW x \in tied[t] PROVE e \o x \in Seq(requests)
      <3>1. e \in Seq(requests) /\ x \in Seq(requests)
        BY <2>3
      <3>2. QED BY <3>1
    <2>5. ASSUME NEW s \in Followed(before, t) PROVE s \in Seq(requests)
      <3>1. PICK e \in before, x \in tied[t] : s = e \o x
        OBVIOUS
      <3>2. QED BY <2>4, <3>1
    <2>6. QED BY <2>5
  <1> HIDE DEF Followed, V
  <1>5. follow \in [1..end -> [V -> V]]
    BY <1>4
  <1>6. 0 \in 0..end /\ end \in 0..end /\ tied[0] \in V
    BY <1>2, <1>3
  <1> HIDE DEF follow
  <1>7. PICK F \in [0..end -> V] :
            F[0] = tied[0] /\ \A t \in 1..end : F[t] = follow[t][F[t - 1]]
    <2>1. Solvable(end, V, tied[0], follow)
      BY <1>2, <1>5, <1>6, RecursionExists
    <2>2. QED BY <2>1 DEF Solvable, Unfolds
  <1>8. Solves(F)
    <2>1. ASSUME NEW t \in 1..end PROVE F[t] = Followed(F[t - 1], t)
      <3>1. t - 1 \in 0..end
        BY <1>2
      <3>2. F[t - 1] \in V
        BY <3>1
      <3>3. QED BY <1>7, <3>2 DEF follow
    <2>2. \A t \in 0..end : t = 0 \/ t \in 1..end
      BY <1>2
    <2>3. \A t \in 0..end : F[t] = IF t = 0 THEN tied[0] ELSE Followed(F[t - 1], t)
      BY <1>7, <2>1, <2>2
    <2>4. QED BY <2>3
  <1>9. Solves(upTo)
    <2> HIDE DEF Solves
    <2>1. QED BY <1>8
  <1> HIDE DEF upTo
  <1>10. \A t \in 0..end : upTo[t] = IF t = 0 THEN tied[0] ELSE Followed(upTo[t - 1], t)
    BY <1>9
  <1>11. ASSUME NEW t \in 1..end, upTo[t - 1] \subseteq Until(t - 1)
         PROVE  upTo[t] \subseteq Until(t)
    <2>1. t \in 0..end /\ upTo[t] = Followed(upTo[t - 1], t)
      BY <1>2, <1>10
    <2>2. ASSUME NEW e \in upTo[t - 1], NEW x \in tied[t] PROVE e \o x \in Until(t)
      <3>1. /\ e \in Seq(requests) /\ x \in Seq(requests)
            /\ ToSet(e) = {r \in requests : r.created_at <= t - 1}
            /\ ToSet(x) = {r \in requests : r.created_at = t}
        BY <1>3, <1>11, <2>1 DEF V
      <3>2. e \o x \in Seq(requests) /\ ToSet(e \o x) = ToSet(e) \cup ToSet(x)
        BY <3>1, ConcatMembers
      <3>3. \A r \in requests : r.created_at <= t <=> r.created_at <= t - 1 \/ r.created_at = t
        BY <1>2
      <3>4. QED BY <3>1, <3>2, <3>3
    <2> HIDE DEF Until
    <2>3. ASSUME NEW s \in upTo[t] PROVE s \in Until(t)
      <3>1. s \in Followed(upTo[t - 1], t)
        BY <2>1
      <3> DEFINE before == upTo[t - 1]
      <3>2. s \in Followed(before, t)
        BY <3>1
      <3> HIDE DEF before
      <3>3. PICK e \in before, x \in tied[t] : s = e \o x
        BY <3>2 DEF Followed
      <3>4. QED BY <2>2, <3>3 DEF before
    <2>4. QED BY <2>3
  <1>12. upTo[0] \subseteq Until(0)
    <2>1. upTo[0] = tied[0] /\ \A r \in requests : r.created_at <= 0 <=> r.created_at = 0
      BY <1>6, <1>10
    <2>2. QED BY <1>3, <1>6, <2>1 DEF V
  <1> DEFINE right == {t \in 0..end : upTo[t] \subseteq Until(t)}
  <1>13. upTo[end] \subseteq Until(end)
    <2> HIDE DEF Until
    <2>1. 0 \in right
      BY <1>6, <1>12
    <2>2. \A t \in 1..end : t - 1 \in right => t \in right
      BY <1>2, <1>11
    <2> HIDE DEF right
    <2>3. end \in right
      BY <1>2, <1>6, <2>1, <2>2, StepByStep
    <2>4. QED BY <2>3 DEF right
  <1>14. QED BY <1>1, <1>2, <1>13

\* A group holds the requests of the window that the strategy observes under one
\* key, and there is at least one.
IsGroup(strategy, computed, group) ==
    /\ Len(group) \in Nat \ {0} /\ DOMAIN group = 1..Len(group)
    /\ ToSet(group) = {r \in ToSet(computed.requests) :
                          /\ Observes(strategy, computed, r)
                          /\ KeyOf(strategy, r) = KeyOf(strategy, group[1])}

LEMMA GroupsListed ==
    ASSUME NEW X, NEW computed, computed.requests \in Seq(X), NEW strategy
    PROVE  LET groupsOf == GroupsOf(strategy, computed) IN
           /\ groupsOf \in Seq(ToSet(groupsOf))
           /\ \A k \in DOMAIN groupsOf : IsGroup(strategy, computed, groupsOf[k])
  <1> DEFINE requests == computed.requests
             observed == {i \in DOMAIN requests : Observes(strategy, computed, requests[i])}
             key == [i \in DOMAIN requests |-> KeyOf(strategy, requests[i])]
             starts == Ascending(FirstAt(observed, key))
             Positions(k) == {i \in observed : key[i] = key[starts[k]]}
             groupsOf == GroupsOf(strategy, computed)
             N == Cardinality(FirstAt(observed, key))
  <1>1. groupsOf = [k \in DOMAIN starts |-> EntriesAt(requests, Positions(k))]
    BY DEF GroupsOf
  <1>2. IsFiniteSet(observed) /\ observed \subseteq Nat
    <2>1. DOMAIN requests = 1..Len(requests) /\ Len(requests) \in Nat
      OBVIOUS
    <2>2. IsFiniteSet(1..Len(requests))
      BY <2>1, FS_Interval
    <2>3. observed \in SUBSET (1..Len(requests))
      BY <2>1
    <2>4. QED BY <2>2, <2>3, FS_Subset
  <1>3. /\ N \in Nat /\ DOMAIN starts = 1..N
        /\ \A k \in 1..N : starts[k] \in observed
    <2>1. FirstAt(observed, key) \in SUBSET observed
      BY DEF FirstAt
    <2>2. IsFiniteSet(FirstAt(observed, key)) /\ FirstAt(observed, key) \subseteq Nat
      BY <1>2, <2>1, FS_Subset
    <2> HIDE DEF observed, key
    <2>3. QED BY <2>1, <2>2, AscendingLists
  <1>4. \A i \in observed : /\ i \in DOMAIN requests /\ key[i] = KeyOf(strategy, requests[i])
                             /\ Observes(strategy, computed, requests[i])
    OBVIOUS
  <1>5. \A i \in DOMAIN requests : Observes(strategy, computed, requests[i]) => i \in observed
    OBVIOUS
  <1> HIDE DEF starts, N, observed, key
  <1>6. ASSUME NEW k \in 1..N PROVE IsGroup(strategy, computed, EntriesAt(requests, Positions(k)))
    <2> DEFINE P == Positions(k)
               group == EntriesAt(requests, P)
    <2>1. starts[k] \in P
      BY <1>3
    <2>2. IsFiniteSet(P) /\ P \subseteq Nat /\ P # {}
      <3>1. P \in SUBSET observed
        OBVIOUS
      <3>2. QED BY <1>2, <2>1, <3>1, FS_Subset
    <2>3. \A i : i \in P <=> i \in observed /\ key[i] = key[starts[k]]
      OBVIOUS
    <2> HIDE DEF P
    <2>4. /\ Len(group) = Cardinality(P) /\ Range(group) = {requests[i] : i \in P}
          /\ group \in Seq({requests[i] : i \in P})
      BY <2>2, EntriesAtLists
    <2>5. Cardinality(P) \in Nat \ {0}
      BY <2>2, FS_CardinalityType, FS_EmptySet
    <2> HIDE DEF group
    <2>6. DOMAIN group = 1..Len(group) /\ 1 \in DOMAIN group
      BY <2>4, <2>5
    <2>7. ToSet(group) = {requests[i] : i \in P}
      BY <2>4 DEF ToSet, Range
    <2>8. PICK i0 \in P : group[1] = requests[i0]
      BY <2>6, <2>7 DEF ToSet
    <2>9. key[i0] = key[starts[k]] /\ key[i0] = KeyOf(strategy, group[1])
      BY <1>4, <2>3, <2>8
    <2>10. ASSUME NEW r \in ToSet(group)
           PROVE  /\ r \in ToSet(requests) /\ Observes(strategy, computed, r)
                  /\ KeyOf(strategy, r) = KeyOf(strategy, group[1])
      <3>1. PICK i \in P : r = requests[i]
        BY <2>7
      <3>2. i \in DOMAIN requests /\ Observes(strategy, computed, r)
            /\ key[i] = KeyOf(strategy, r) /\ key[i] = key[starts[k]]
        BY <1>4, <2>3, <3>1
      <3>3. QED BY <2>9, <3>1, <3>2 DEF ToSet
    <2>11. ASSUME NEW r \in ToSet(requests), Observes(strategy, computed, r),
                  KeyOf(strategy, r) = KeyOf(strategy, group[1])
           PROVE  r \in ToSet(group)
      <3>1. PICK i \in DOMAIN requests : r = requests[i]
        BY DEF ToSet
      <3>2. i \in observed
        BY <1>5, <2>11, <3>1
      <3>3. key[i] = key[starts[k]]
        BY <1>4, <2>9, <2>11, <3>1, <3>2
      <3>4. QED BY <2>3, <2>7, <3>1, <3>2, <3>3
    <2>12. ToSet(group) = {r \in ToSet(requests) :
                             /\ Observes(strategy, computed, r)
                             /\ KeyOf(strategy, r) = KeyOf(strategy, group[1])}
      BY <2>10, <2>11
    <2>13. IsGroup(strategy, computed, group)
      BY <2>4, <2>5, <2>6, <2>12 DEF IsGroup
    <2>14. QED BY <2>13 DEF group, P
  <1>7. DOMAIN groupsOf = 1..N /\ \A k \in 1..N : IsGroup(strategy, computed, groupsOf[k])
    BY <1>1, <1>3, <1>6
  <1>8. groupsOf = [k \in 1..N |-> groupsOf[k]]
    BY <1>1, <1>3
  <1> HIDE DEF groupsOf
  <1>9. \A k \in 1..N : groupsOf[k] \in ToSet(groupsOf)
    BY <1>7 DEF ToSet
  <1>10. groupsOf \in Seq(ToSet(groupsOf))
    BY <1>3, <1>8, <1>9
  <1>11. QED BY <1>7, <1>10 DEF groupsOf

LEMMA TailFacts ==
    ASSUME NEW s, s \in Seq(ToSet(s)), s # << >>
    PROVE  /\ Head(s) = s[1] /\ 1 \in DOMAIN s
           /\ Tail(s) \in Seq(ToSet(Tail(s)))
           /\ \A k \in DOMAIN Tail(s) : k + 1 \in DOMAIN s /\ Tail(s)[k] = s[k + 1]
  <1> DEFINE S == ToSet(s)
             t == Tail(s)
  <1>1. s \in Seq(S)
    OBVIOUS
  <1>2. /\ t \in Seq(S) /\ Len(s) \in Nat /\ Len(s) > 0 /\ Head(s) = s[1]
        /\ DOMAIN s = 1..Len(s) /\ DOMAIN t = 1..(Len(s) - 1) /\ Len(t) = Len(s) - 1
        /\ \A k \in 1..(Len(s) - 1) : t[k] = s[k + 1]
    <2> HIDE DEF S
    <2>1. QED BY <1>1
  <1> HIDE DEF t
  <1>3. \A k \in 1..Len(t) : t[k] \in ToSet(t)
    BY <1>2 DEF ToSet
  <1>4. t \in Seq(ToSet(t))
    BY <1>2, <1>3
  <1>5. QED BY <1>2, <1>4 DEF t

\* The metrics are those of a list of logged requests; while it is scored they are
\* requests of the window, and the groups are groups of the running strategy.
WindowInv ==
    /\ metrics = compute(metrics.requests) /\ metrics.requests \in Seq(log)
    /\ pc \in {"score", "mark"} =>
          /\ \A r \in ToSet(metrics.requests) : InWindow(r, epoch)
          /\ groups \in Seq(ToSet(groups))
          /\ \A k \in DOMAIN groups : IsGroup(Strategy, metrics, groups[k])
    /\ pc = "mark" => groups # << >>

LEMMA WindowInit == Init => WindowInv
  <1> SUFFICES ASSUME Init PROVE WindowInv
    OBVIOUS
  <1>1. metrics = compute(<< >>) /\ pc = "idle"
    BY DEF Init
  <1>2. metrics.requests = << >>
    BY <1>1 DEF compute
  <1>3. metrics = compute(metrics.requests)
    BY <1>1, <1>2
  <1>4. metrics.requests \in Seq(log)
    BY <1>2
  <1>5. QED BY <1>1, <1>3, <1>4 DEF WindowInv

LEMMA WindowStep ==
    ASSUME ScanInv, WindowInv, [Next]_vars
    PROVE  WindowInv'
  <1> USE DEF WindowInv
  <1>1. CASE LoadRequests
    <2> DEFINE loaded == {r \in log : InWindow(r, epoch)}
    <2>1. PICK order \in Orders(loaded) :
              \/ order = << >> /\ EmptyWindow
              \/ /\ order # << >>
                 /\ metrics' = compute(order) /\ Begins(1, metrics') /\ UNCHANGED epoch
      BY <1>1 DEF LoadRequests
    <2>2. UNCHANGED <<log, scanFrom, step>> /\ pc = "load"
      BY <1>1 DEF LoadRequests
    <2>3. CASE EmptyWindow
      BY <2>2, <2>3 DEF EmptyWindow
    <2>4. CASE metrics' = compute(order) /\ Begins(1, metrics') /\ UNCHANGED epoch
      <3>1. order \in Seq(loaded)
        <4>1. IsFiniteSet(log) /\ \A r \in log : r.created_at \in Nat
          BY LogAssumption DEF LogAssumption, IsATable, ScanInv
        <4>2. loaded \in SUBSET log
          OBVIOUS
        <4>3. IsFiniteSet(loaded) /\ \A r \in loaded : r.created_at \in Nat
          BY <4>1, <4>2, FS_Subset
        <4> HIDE DEF loaded
        <4>4. QED BY <4>3, OrdersList
      <3>2. metrics'.requests = order
        BY <2>4 DEF compute
      <3>3. order \in Seq(log)
        BY <3>1
      <3>4. \A r \in ToSet(order) : InWindow(r, epoch)
        BY <3>1 DEF ToSet
      <3>5. \A r : InWindow(r, epoch)' <=> InWindow(r, epoch)
        BY <2>2, <2>4 DEF InWindow, EpochStart, EpochEnd
      <3>6. pc' = "score" /\ turn' = 1 /\ groups' = GroupsOf(OrderedStrategies[1], metrics')
        BY <2>4 DEF Begins
      <3>7. Strategy' = OrderedStrategies[1]
        BY <3>6 DEF Strategy
      <3> HIDE DEF loaded
      <3>8. \A G : G = GroupsOf(OrderedStrategies[1], metrics') =>
                /\ G \in Seq(ToSet(G))
                /\ \A k \in DOMAIN G : IsGroup(OrderedStrategies[1], metrics', G[k])
        BY <3>2, <3>3, GroupsListed
      <3>9. /\ groups' \in Seq(ToSet(groups'))
            /\ \A k \in DOMAIN groups' : IsGroup(OrderedStrategies[1], metrics', groups'[k])
        BY <3>6, <3>8
      <3>10. \A k \in DOMAIN groups' : IsGroup(Strategy, metrics, groups[k])'
        BY <3>7, <3>9
      <3>11. metrics' = compute(metrics'.requests) /\ metrics'.requests \in Seq(log')
        BY <2>2, <2>4, <3>2, <3>3
      <3>12. \A r \in ToSet(metrics'.requests) : InWindow(r, epoch)'
        BY <3>2, <3>4, <3>5
      <3>13. QED BY <3>6, <3>9, <3>10, <3>11, <3>12
    <2>5. QED BY <2>1, <2>3, <2>4
  <1>2. CASE SkipGroup \/ RecordMarkers
    <2>1. /\ UNCHANGED <<log, scanFrom, step, epoch, metrics, turn>>
          /\ pc \in {"score", "mark"} /\ pc' = "score"
          /\ groups # << >> /\ groups' = Tail(groups)
      BY <1>2 DEF SkipGroup, RecordMarkers
    <2>2. /\ groups' \in Seq(ToSet(groups'))
          /\ \A k \in DOMAIN groups' : k + 1 \in DOMAIN groups /\ groups'[k] = groups[k + 1]
      BY <2>1, TailFacts
    <2>3. Strategy' = Strategy
      BY <2>1 DEF Strategy
    <2>4. \A k \in DOMAIN groups' : IsGroup(Strategy, metrics, groups[k])'
      BY <2>1, <2>2, <2>3
    <2>5. \A r : InWindow(r, epoch)' <=> InWindow(r, epoch)
      BY <2>1 DEF InWindow, EpochStart, EpochEnd
    <2>6. QED BY <2>1, <2>2, <2>4, <2>5
  <1>3. CASE NextStrategy
    <2>1. UNCHANGED <<log, scanFrom, step, metrics>> /\ pc = "score"
      BY <1>3 DEF NextStrategy
    <2>2. CASE Begins(turn + 1, metrics) /\ UNCHANGED epoch
      <3>1. /\ pc' = "score" /\ turn' = turn + 1
            /\ groups' = GroupsOf(OrderedStrategies[turn + 1], metrics)
        BY <2>2 DEF Begins
      <3>2. Strategy' = OrderedStrategies[turn + 1]
        BY <3>1 DEF Strategy
      <3>3. /\ groups' \in Seq(ToSet(groups'))
            /\ \A k \in DOMAIN groups' : IsGroup(OrderedStrategies[turn + 1], metrics, groups'[k])
        BY <3>1, GroupsListed
      <3>4. \A k \in DOMAIN groups' : IsGroup(Strategy, metrics, groups[k])'
        BY <2>1, <3>2, <3>3
      <3>5. \A r : InWindow(r, epoch)' <=> InWindow(r, epoch)
        BY <2>1, <2>2 DEF InWindow, EpochStart, EpochEnd
      <3>6. QED BY <2>1, <3>1, <3>3, <3>4, <3>5
    <2>3. CASE pc' = "load"
      BY <2>1, <2>3
    <2>4. QED BY <1>3, <2>2, <2>3 DEF NextStrategy
  <1>4. CASE UpsertCandidate
    <2>1. /\ UNCHANGED <<log, scanFrom, step, epoch, metrics, turn, groups>>
          /\ groups # << >> /\ pc = "score"
      BY <1>4 DEF UpsertCandidate
    <2>2. Strategy' = Strategy /\ \A r : InWindow(r, epoch)' <=> InWindow(r, epoch)
      BY <2>1 DEF Strategy, InWindow, EpochStart, EpochEnd
    <2>3. QED BY <2>1, <2>2
  <1>5. CASE UNCHANGED <<log, metrics>> /\ pc' \in {"idle", "load", "done"}
    BY <1>5
  <1>6. CASE UNCHANGED <<log, pc, scanFrom, step, epoch, metrics, turn, groups>>
    <2>1. Strategy' = Strategy /\ \A r : InWindow(r, epoch)' <=> InWindow(r, epoch)
      BY <1>6 DEF Strategy, InWindow, EpochStart, EpochEnd
    <2>2. QED BY <1>6, <2>1
  <1>7. StartRun \/ Finish \/ Crash => UNCHANGED <<log, metrics>> /\ pc' \in {"idle", "load", "done"}
    BY DEF StartRun, Finish, Crash, runVars
  <1>8. SetCampaignStatus \/ UNCHANGED vars =>
            UNCHANGED <<log, pc, scanFrom, step, epoch, metrics, turn, groups>>
    BY DEF SetCampaignStatus, vars, runVars
  <1>9. QED BY <1>1, <1>2, <1>3, <1>4, <1>5, <1>6, <1>7, <1>8, NextCases

---------------------------------------------------------------------------
(* The range that campaigns cover *)

LEMMA EarliestAndLatest ==
    ASSUME NEW T, T \subseteq Nat, T # {}, NEW n \in Nat, \A t \in T : t <= n
    PROVE  /\ Min(T) \in T /\ Max(T) \in T /\ Min(T) <= Max(T)
  <1>1. Max(T) \in T /\ \A t \in T : t <= Max(T)
    BY MaxOf
  <1>2. \E x \in T : \A y \in T : x <= y
    BY LeastOf
  <1>3. Min(T) \in T
    BY <1>2 DEF Min
  <1>4. QED BY <1>1, <1>3

\* What is found in a window lies within the scan.
LEMMA CandidateSpan ==
    ASSUME ScanInv, WindowInv, pc = "score", groups # << >>
    PROVE  /\ buildCandidate.first \in Nat /\ buildCandidate.last \in Nat
           /\ scanFrom <= buildCandidate.first /\ buildCandidate.first <= buildCandidate.last
           /\ buildCandidate.last < ScanTo
  <1> DEFINE times == {r.created_at : r \in ToSet(Group)}
  <1>1. Group = groups[1] /\ IsGroup(Strategy, metrics, Group)
    BY TailFacts DEF WindowInv, Group
  <1>2. ToSet(Group) # {} /\ ToSet(Group) \subseteq ToSet(metrics.requests)
    <2>1. Group[1] \in ToSet(Group)
      BY <1>1 DEF IsGroup, ToSet
    <2>2. QED BY <1>1, <2>1 DEF IsGroup
  <1>3. \A r \in ToSet(metrics.requests) : r.created_at \in Nat /\ InWindow(r, epoch)
    <2>1. \A r \in ToSet(metrics.requests) : r \in log
      BY DEF WindowInv, ToSet
    <2>2. QED BY <2>1, LogAssumption DEF LogAssumption, IsATable, ScanInv, WindowInv
  <1>4. /\ EpochStart(epoch) \in Nat /\ EpochEnd(epoch) \in Nat /\ scanFrom \in Nat
        /\ EpochStart(epoch) >= scanFrom /\ EpochEnd(epoch) <= ScanTo /\ ScanTo \in Nat
    <2>1. epoch \in Nat \ {0} /\ epoch <= epoch
      BY DEF ScanInv
    <2>2. QED BY <2>1, Epochs, ScanAssumption DEF ScanAssumption, ScanInv
  <1>5. \A t \in times : t \in Nat /\ scanFrom <= t /\ t < ScanTo
    BY <1>2, <1>3, <1>4 DEF InWindow
  <1>6. times # {} /\ times \subseteq Nat
    BY <1>2, <1>5
  <1>7. buildCandidate.first = Min(times) /\ buildCandidate.last = Max(times)
    BY DEF buildCandidate
  <1> HIDE DEF times
  <1>8. \A t \in times : t <= ScanTo
    BY <1>4, <1>5
  <1>9. Min(times) \in times /\ Max(times) \in times /\ Min(times) <= Max(times)
    BY <1>4, <1>6, <1>8, EarliestAndLatest
  <1>10. QED BY <1>5, <1>7, <1>9

FirstOf(j) == reports[j].candidate.first
LastSeenOf(j) == reports[j].candidate.last

\* The open row of what was reported covers the report, unless an episode of its
\* identifier was closed.
SpanInv ==
    /\ \A i \in DOMAIN rows :
          /\ rows[i].first_seen \in Nat /\ rows[i].last_seen \in Nat
          /\ rows[i].first_seen <= rows[i].last_seen /\ rows[i].last_seen < ScanTo
    /\ \A j \in DOMAIN reports :
          /\ FirstOf(j) \in Nat /\ LastSeenOf(j) \in Nat
          /\ scanFrom <= FirstOf(j) /\ FirstOf(j) <= LastSeenOf(j) /\ LastSeenOf(j) < ScanTo
          /\ ~Closed(IdentifierOf(j)) =>
                \A i : OpenRow(i, IdentifierOf(j)) =>
                    rows[i].first_seen <= FirstOf(j) /\ LastSeenOf(j) <= rows[i].last_seen

\* An upsert writes one row: a new one that spans the candidate, or the open one of
\* its identifier, which it widens to span the candidate too.
Spans(c, k) ==
    /\ DOMAIN rows' = DOMAIN rows \cup {k}
    /\ \A i \in DOMAIN rows : i # k => rows'[i] = rows[i]
    /\ rows'[k].identifier = c.identifier
    /\ \/ /\ \A i : ~OpenRow(i, c.identifier)
          /\ k \notin DOMAIN rows
          /\ rows'[k].first_seen = c.first /\ rows'[k].last_seen = c.last
       \/ /\ OpenRow(k, c.identifier)
          /\ rows'[k].first_seen = Earlier(rows[k].first_seen, c.first)
          /\ rows'[k].last_seen = Later(rows[k].last_seen, c.last)

LEMMA UpsertSpans ==
    ASSUME RowsInv, NEW c, Store!upsertCandidate(c, "backtest")
    PROVE  \E k : Spans(c, k)
  <1>1. ASSUME NEW row, Opens(c, row) PROVE \E k : Spans(c, k)
    <2>1. /\ rows' = Append(rows, row) /\ row.identifier = c.identifier
          /\ row.first_seen = c.first /\ row.last_seen = c.last
          /\ \A i : ~OpenRow(i, c.identifier)
      BY <1>1 DEF Opens
    <2> DEFINE k == Len(rows) + 1
    <2>2. /\ DOMAIN rows' = 1..k /\ rows'[k] = row /\ DOMAIN rows = 1..Len(rows)
          /\ \A i \in DOMAIN rows : rows'[i] = rows[i]
          /\ Len(rows) \in Nat
      BY <2>1, AppendFacts DEF RowsInv
    <2>3. DOMAIN rows' = DOMAIN rows \cup {k} /\ k \notin DOMAIN rows
      BY <2>2
    <2> HIDE DEF k
    <2>4. Spans(c, k)
      BY <2>1, <2>2, <2>3 DEF Spans
    <2>5. QED BY <2>4
  <1>2. ASSUME NEW k, NEW row, Refires(c, k, row) PROVE Spans(c, k)
    <2>1. /\ OpenRow(k, c.identifier) /\ rows' = [rows EXCEPT ![k] = row]
          /\ row.identifier = c.identifier
          /\ row.first_seen = Earlier(rows[k].first_seen, c.first)
          /\ row.last_seen = Later(rows[k].last_seen, c.last)
      BY <1>2 DEF Refires
    <2>2. k \in DOMAIN rows
      BY <2>1 DEF OpenRow
    <2>3. /\ DOMAIN rows' = DOMAIN rows /\ rows'[k] = row
          /\ \A i \in DOMAIN rows : i # k => rows'[i] = rows[i]
      BY <2>1, <2>2, ExceptFacts DEF RowsInv
    <2>4. QED BY <2>1, <2>2, <2>3 DEF Spans
  <1>3. QED BY <1>1, <1>2, Upserted

LEMMA SpanUpserted ==
    ASSUME ScanInv, WindowInv, RowsInv, RowsInv', ReportInv, CountInv, SpanInv,
           UpsertCandidate
    PROVE  SpanInv'
  <1> DEFINE n == Len(reports) + 1
             c == buildCandidate
             X == c.identifier
  <1>1. /\ DOMAIN reports' = 1..n /\ n \in Nat /\ DOMAIN reports = 1..(n - 1)
        /\ \A j \in 1..(n - 1) : reports'[j] = reports[j]
        /\ reports'[n].candidate = c
        /\ Store!upsertCandidate(c, "backtest")
    BY ReportedCount DEF ReportInv
  <1>2. /\ c.first \in Nat /\ c.last \in Nat /\ scanFrom <= c.first /\ c.first <= c.last
        /\ c.last < ScanTo /\ scanFrom' = scanFrom /\ ScanTo \in Nat
    BY CandidateSpan, ScanAssumption DEF UpsertCandidate, ScanAssumption
  <1> HIDE DEF c
  <1>3. PICK k : Spans(c, k)
    BY <1>1, UpsertSpans
  <1> HIDE DEF n
  <1>4. /\ \A j \in 1..(n - 1) : /\ IdentifierOf(j)' = IdentifierOf(j)
                                 /\ FirstOf(j)' = FirstOf(j) /\ LastSeenOf(j)' = LastSeenOf(j)
        /\ \A j : j = n => /\ IdentifierOf(j)' = X
                           /\ FirstOf(j)' = c.first /\ LastSeenOf(j)' = c.last
    BY <1>1 DEF IdentifierOf, FirstOf, LastSeenOf
  <1> HIDE DEF X
  <1>5. /\ rows'[k].first_seen \in Nat /\ rows'[k].last_seen \in Nat
        /\ rows'[k].first_seen <= rows'[k].last_seen /\ rows'[k].last_seen < ScanTo
        /\ rows'[k].first_seen <= c.first /\ c.last <= rows'[k].last_seen
        /\ OpenRow(k, X) => /\ rows'[k].first_seen <= rows[k].first_seen
                            /\ rows[k].last_seen <= rows'[k].last_seen
    <2>1. CASE OpenRow(k, X)
      <3>1. /\ rows[k].first_seen \in Nat /\ rows[k].last_seen \in Nat
            /\ rows[k].first_seen <= rows[k].last_seen /\ rows[k].last_seen < ScanTo
        BY <2>1 DEF SpanInv, OpenRow
      <3>2. /\ rows'[k].first_seen = Earlier(rows[k].first_seen, c.first)
            /\ rows'[k].last_seen = Later(rows[k].last_seen, c.last)
        BY <1>3, <2>1 DEF Spans, X
      <3>3. QED BY <1>2, <3>1, <3>2 DEF Earlier, Later
    <2>2. CASE ~OpenRow(k, X)
      BY <1>2, <1>3, <2>2 DEF Spans, X
    <2>3. QED BY <2>1, <2>2
  <1>6. /\ k \in DOMAIN rows' /\ rows'[k].identifier = X
        /\ DOMAIN rows' = DOMAIN rows \cup {k}
        /\ \A i \in DOMAIN rows : i # k => rows'[i] = rows[i]
        /\ k \in DOMAIN rows => OpenRow(k, X)
        /\ (\E i : OpenRow(i, X)) => OpenRow(k, X)
    BY <1>3 DEF Spans, X
  <1>7. \A i \in DOMAIN rows' :
            /\ rows'[i].first_seen \in Nat /\ rows'[i].last_seen \in Nat
            /\ rows'[i].first_seen <= rows'[i].last_seen /\ rows'[i].last_seen < ScanTo
    BY <1>5, <1>6 DEF SpanInv
  <1>8. \A identifier : Closed(identifier) => Closed(identifier)'
    <2> SUFFICES ASSUME NEW identifier, NEW i \in DOMAIN rows, ~IsOpen(rows[i]),
                        rows[i].identifier = identifier
                 PROVE  \E row \in ToSet(rows') : ~IsOpen(row) /\ row.identifier = identifier
      BY DEF Closed, ToSet
    <2>1. i # k
      BY <1>6 DEF OpenRow
    <2>2. i \in DOMAIN rows' /\ rows'[i] = rows[i]
      BY <1>6, <2>1
    <2>3. QED BY <2>2 DEF ToSet
  <1>9. ASSUME NEW j \in DOMAIN reports', ~Closed(IdentifierOf(j))',
               NEW i, OpenRow(i, IdentifierOf(j))'
        PROVE  rows'[i].first_seen <= FirstOf(j)' /\ LastSeenOf(j)' <= rows'[i].last_seen
    <2>1. i \in DOMAIN rows' /\ IsOpen(rows'[i]) /\ rows'[i].identifier = IdentifierOf(j)'
      BY <1>9 DEF OpenRow
    <2>2. CASE j = n
      <3>1. i = k
        <4>1. i # k => i \in DOMAIN rows /\ rows'[i] = rows[i]
          BY <1>6, <2>1
        <4>2. IdentifierOf(j)' = X
          BY <1>4, <2>2
        <4>3. i # k => OpenRow(i, X)
          BY <2>1, <4>1, <4>2 DEF OpenRow
        <4>4. i # k => OpenRow(k, X)
          BY <1>6, <4>3
        <4>5. QED BY <4>3, <4>4 DEF OpenRow, RowsInv
      <3>2. FirstOf(j)' = c.first /\ LastSeenOf(j)' = c.last
        BY <1>4, <2>2
      <3>3. QED BY <1>5, <3>1, <3>2
    <2>3. CASE j # n
      <3>1. j \in 1..(n - 1) /\ j \in DOMAIN reports
        BY <1>1, <2>3
      <3>2. /\ IdentifierOf(j)' = IdentifierOf(j)
            /\ FirstOf(j)' = FirstOf(j) /\ LastSeenOf(j)' = LastSeenOf(j)
        BY <1>4, <3>1
      <3>3. ~Closed(IdentifierOf(j))
        BY <1>8, <1>9, <3>2 DEF Closed
      <3>4. \A m : OpenRow(m, IdentifierOf(j)) =>
                rows[m].first_seen <= FirstOf(j) /\ LastSeenOf(j) <= rows[m].last_seen
        BY <3>1, <3>3 DEF SpanInv
      <3>5. CASE i # k
        <4>1. i \in DOMAIN rows /\ rows'[i] = rows[i]
          BY <1>6, <2>1, <3>5
        <4>2. OpenRow(i, IdentifierOf(j))
          BY <2>1, <3>2, <4>1 DEF OpenRow
        <4>3. QED BY <3>2, <3>4, <4>1, <4>2
      <3>6. CASE i = k
        <4>1. IdentifierOf(j) = X
          BY <1>6, <2>1, <3>2, <3>6
        <4>2. PICK m \in DOMAIN rows : rows[m].identifier = X
          BY <3>1, <4>1 DEF CountInv, Counted
        <4>3. OpenRow(m, X)
          BY <3>3, <4>1, <4>2 DEF Closed, ToSet, OpenRow
        <4>4. OpenRow(k, X)
          BY <1>6, <4>3
        <4>5. rows[k].first_seen <= FirstOf(j) /\ LastSeenOf(j) <= rows[k].last_seen
          BY <3>4, <4>1, <4>4
        <4>6. /\ rows[k].first_seen \in Nat /\ rows[k].last_seen \in Nat
              /\ FirstOf(j) \in Nat /\ LastSeenOf(j) \in Nat
          BY <3>1, <4>4 DEF SpanInv, OpenRow
        <4>7. /\ rows'[k].first_seen <= rows[k].first_seen
              /\ rows[k].last_seen <= rows'[k].last_seen
              /\ rows'[k].first_seen \in Nat /\ rows'[k].last_seen \in Nat
          BY <1>5, <4>4
        <4>8. QED BY <3>2, <3>6, <4>5, <4>6, <4>7
      <3>7. QED BY <3>5, <3>6
    <2>4. QED BY <2>2, <2>3
  <1>10. ASSUME NEW j \in DOMAIN reports'
         PROVE  /\ FirstOf(j)' \in Nat /\ LastSeenOf(j)' \in Nat
                /\ scanFrom' <= FirstOf(j)' /\ FirstOf(j)' <= LastSeenOf(j)'
                /\ LastSeenOf(j)' < ScanTo
    <2>1. CASE j = n
      BY <1>2, <1>4, <2>1
    <2>2. CASE j # n
      <3>1. j \in 1..(n - 1) /\ j \in DOMAIN reports
        BY <1>1, <2>2
      <3>2. QED BY <1>2, <1>4, <3>1 DEF SpanInv
    <2>3. QED BY <2>1, <2>2
  <1>11. QED BY <1>7, <1>9, <1>10 DEF SpanInv

LEMMA SpanStep ==
    ASSUME ScanInv, WindowInv, RowsInv, ReportInv, CountInv, SpanInv, [Next]_vars
    PROVE  SpanInv'
  <1>1. CASE StartRun
    <2>1. reports' = << >> /\ rows' = rows
      BY <1>1 DEF StartRun, storeVars
    <2>2. QED BY <2>1 DEF SpanInv
  <1>2. CASE UpsertCandidate
    BY <1>2, RowsStep, SpanUpserted
  <1>3. CASE SetCampaignStatus
    <2>1. PICK i \in DOMAIN rows :
              /\ IsOpen(rows[i])
              /\ rows'[i].identifier = rows[i].identifier
              /\ rows'[i].first_seen = rows[i].first_seen
              /\ rows'[i].last_seen = rows[i].last_seen
              /\ DOMAIN rows' = DOMAIN rows
              /\ \A j \in DOMAIN rows : j # i => rows'[j] = rows[j]
              /\ \A identifier : Closed(identifier) => Closed(identifier)'
              /\ reports' = reports
      BY <1>3, StatusStep
    <2>2. \A k \in DOMAIN rows' :
              /\ rows'[k].first_seen \in Nat /\ rows'[k].last_seen \in Nat
              /\ rows'[k].first_seen <= rows'[k].last_seen /\ rows'[k].last_seen < ScanTo
      BY <2>1 DEF SpanInv
    <2>3. scanFrom' = scanFrom
      BY <1>3 DEF SetCampaignStatus, runVars
    <2>4. \A j : /\ IdentifierOf(j)' = IdentifierOf(j) /\ FirstOf(j)' = FirstOf(j)
                 /\ LastSeenOf(j)' = LastSeenOf(j)
      BY <2>1 DEF IdentifierOf, FirstOf, LastSeenOf
    <2>5. ASSUME NEW j \in DOMAIN reports, ~Closed(IdentifierOf(j))',
                 NEW k, OpenRow(k, IdentifierOf(j))'
          PROVE  rows'[k].first_seen <= FirstOf(j) /\ LastSeenOf(j) <= rows'[k].last_seen
      <3>1. ~Closed(IdentifierOf(j))
        BY <2>1, <2>4, <2>5 DEF Closed
      <3>2. /\ OpenRow(k, IdentifierOf(j))
            /\ rows'[k].first_seen = rows[k].first_seen
            /\ rows'[k].last_seen = rows[k].last_seen
        BY <2>1, <2>4, <2>5 DEF OpenRow
      <3>3. QED BY <3>1, <3>2 DEF SpanInv
    <2>6. QED BY <2>1, <2>2, <2>3, <2>4, <2>5 DEF SpanInv
  <1>4. CASE UNCHANGED <<reports, rows, scanFrom>>
    BY <1>4 DEF SpanInv, Closed, OpenRow, IdentifierOf, FirstOf, LastSeenOf
  <1>5. QED
    BY <1>1, <1>2, <1>3, <1>4, NextCases
    DEF LoadRequests, SkipGroup, RecordMarkers, NextStrategy, Finish, Crash, vars, runVars,
        storeVars

\* Whatever the log holds, however often the scan dies and is started over: no report
\* and no campaign reaches past the scan, and the open campaign of what a run has
\* reported covers the report, unless an operator closed an episode of it.
THEOREM StayInRange == Spec => []CampaignsStayInScanRange
  <1>1. Init => RowsInv /\ ReportInv /\ CountInv /\ SpanInv
    <2>1. Init => reports = << >> /\ rows = << >> /\ pc = "idle"
      BY DEF Init, Store!Init
    <2>2. << >> \in Seq(ToSet(<< >>))
      OBVIOUS
    <2>3. QED BY <2>1, <2>2 DEF RowsInv, ReportInv, CountInv, SpanInv
  <1>2. RowsInv /\ [Next]_vars => RowsInv'
    BY RowsStep
  <1>3. ScanInv /\ ReportInv /\ [Next]_vars => ReportInv'
    BY ReportStep
  <1>4. RowsInv /\ ReportInv /\ CountInv /\ [Next]_vars => CountInv'
    BY CountStep
  <1>5. ScanInv /\ WindowInv /\ [Next]_vars => WindowInv'
    BY WindowStep
  <1>6. /\ ScanInv /\ WindowInv /\ RowsInv /\ ReportInv /\ CountInv /\ SpanInv
        /\ [Next]_vars
        => SpanInv'
    BY SpanStep
  <1>7. RowsInv /\ SpanInv => CampaignsStayInScanRange
    <2> SUFFICES ASSUME RowsInv, SpanInv PROVE CampaignsStayInScanRange
      OBVIOUS
    <2>1. \A k \in DOMAIN reports :
              LET c == reports[k].candidate IN
              scanFrom <= c.first /\ c.first <= c.last /\ c.last < ScanTo
      BY DEF SpanInv, FirstOf, LastSeenOf
    <2>2. \A row \in ToSet(rows) : row.first_seen <= row.last_seen /\ row.last_seen < ScanTo
      BY DEF SpanInv, ToSet
    <2>3. ASSUME NEW k \in DOMAIN reports, NEW row \in ToSet(rows),
                 row.identifier = reports[k].candidate.identifier, IsOpen(row),
                 ~ \E other \in ToSet(rows) :
                      ~IsOpen(other) /\ other.identifier = reports[k].candidate.identifier
          PROVE  /\ row.first_seen <= reports[k].candidate.first
                 /\ reports[k].candidate.last <= row.last_seen
      <3>1. PICK i \in DOMAIN rows : rows[i] = row
        BY DEF ToSet
      <3>2. OpenRow(i, IdentifierOf(k)) /\ ~Closed(IdentifierOf(k))
        BY <2>3, <3>1 DEF OpenRow, IdentifierOf, Closed
      <3>3. QED BY <3>1, <3>2 DEF SpanInv, FirstOf, LastSeenOf
    <2>4. QED BY <2>1, <2>2, <2>3 DEF CampaignsStayInScanRange
  <1>8. QED
    BY <1>1, <1>2, <1>3, <1>4, <1>5, <1>6, <1>7, ScanInit, ScanStep, WindowInit, PTL DEF Spec

---------------------------------------------------------------------------
(* Clusters *)

\* The IPs of a window's threats are finitely many.
LEMMA ThreatIps ==
    ASSUME NEW X, NEW window \in Seq(X)
    PROVE  IsFiniteSet(IpsOf(ThreatsIn(window)))
  <1> DEFINE threats == ThreatsIn(window)
             at == [i \in DOMAIN window |-> window[i]]
             ip == [r \in threats |-> r.ip]
  <1>1. IsFiniteSet(DOMAIN window)
    <2>1. DOMAIN window = 1..Len(window) /\ Len(window) \in Nat
      OBVIOUS
    <2>2. QED BY <2>1, FS_Interval
  <1>2. at \in Surjection(DOMAIN window, ToSet(window))
    BY DEF Surjection, ToSet
  <1>3. IsFiniteSet(ToSet(window))
    BY <1>1, <1>2, FS_Surjection
  <1>4. IsFiniteSet(threats)
    <2>1. threats \in SUBSET ToSet(window)
      BY DEF ThreatsIn
    <2>2. QED BY <1>3, <2>1, FS_Subset
  <1> HIDE DEF threats
  <1>5. ip \in Surjection(threats, IpsOf(threats))
    BY DEF Surjection, IpsOf
  <1>6. IsFiniteSet(IpsOf(threats))
    BY <1>4, <1>5, FS_Surjection
  <1>7. QED BY <1>6 DEF threats

\* The fingerprints of an ASN are those of its threat IPs' route sets, all of them.
LEMMA FingerprintsListed ==
    ASSUME NEW X, NEW window \in Seq(X), NEW asn
    PROVE  LET prints == FingerprintsOf(window, asn) IN
           /\ Len(prints) \in Nat /\ DOMAIN prints = 1..Len(prints)
           /\ \A ip : RouteSetOf(window, asn, ip) # {} =>
                 \E k \in 1..Len(prints) : prints[k] = RouteSetOf(window, asn, ip)
  <1> DEFINE inAsn == {i \in DOMAIN window : window[i].threat /\ window[i].asn = asn}
             print == [i \in inAsn |-> routeSetFingerprint(RouteSetOf(window, asn, window[i].ip))]
             firsts == FirstAt(inAsn, print)
             prints == FingerprintsOf(window, asn)
  <1>1. prints = EntriesAt(print, firsts)
    BY DEF FingerprintsOf
  <1>2. IsFiniteSet(firsts) /\ firsts \subseteq Nat /\ inAsn \subseteq Nat
    <2>1. DOMAIN window = 1..Len(window) /\ Len(window) \in Nat
      OBVIOUS
    <2>2. IsFiniteSet(1..Len(window))
      BY <2>1, FS_Interval
    <2>3. firsts \in SUBSET (1..Len(window)) /\ inAsn \subseteq 1..Len(window)
      BY <2>1 DEF FirstAt
    <2>4. QED BY <2>2, <2>3, FS_Subset
  <1>3. \A i \in inAsn : print[i] = RouteSetOf(window, asn, window[i].ip)
    BY DEF routeSetFingerprint
  <1>4. \A i \in DOMAIN window : window[i].threat /\ window[i].asn = asn => i \in inAsn
    OBVIOUS
  <1> HIDE DEF inAsn, print, prints
  <1>5. /\ prints \in Seq({print[i] : i \in firsts})
        /\ Range(prints) = {print[i] : i \in firsts}
    BY <1>1, <1>2, EntriesAtLists
  <1>6. Len(prints) \in Nat /\ DOMAIN prints = 1..Len(prints)
    BY <1>5
  <1>7. ASSUME NEW ip, RouteSetOf(window, asn, ip) # {}
        PROVE  \E k \in 1..Len(prints) : prints[k] = RouteSetOf(window, asn, ip)
    <2>1. PICK r \in ThreatsIn(window) : r.asn = asn /\ r.ip = ip
      BY <1>7 DEF RouteSetOf, RoutesOf
    <2>2. PICK i \in DOMAIN window : window[i] = r /\ window[i].threat
      BY DEF ThreatsIn, ToSet
    <2>3. i \in inAsn
      BY <1>4, <2>1, <2>2
    <2>4. print[i] = RouteSetOf(window, asn, ip)
      BY <1>3, <2>1, <2>2, <2>3
    <2>5. PICK f \in firsts : print[f] = print[i]
      BY <1>2, <2>3, FirstAtHas
    <2>6. QED BY <1>5, <1>6, <2>4, <2>5 DEF Range
  <1>8. QED BY <1>6, <1>7 DEF prints

\* One pass over the clusters leaves the largest: what is left is none of them or
\* one of two paths or more, and none of two paths or more has more IPs.
LEMMA BestOfAll ==
    ASSUME NEW n \in Nat, NEW prints, NEW window, NEW asn, NEW best,
           IsFiniteSet(IpsOf(ThreatsIn(window))),
           best[0] = NoCluster,
           \A k \in 1..n : best[k] = IF Dominates(Cluster(window, asn, prints[k]), best[k - 1])
                                    THEN Cluster(window, asn, prints[k]) ELSE best[k - 1]
    PROVE  /\ \/ best[n] = NoCluster
              \/ \E k \in 1..n : /\ best[n] = Cluster(window, asn, prints[k])
                                 /\ best[n].pathUnionSize >= 2
           /\ \A k \in 1..n : LET cluster == Cluster(window, asn, prints[k]) IN
                 cluster.pathUnionSize >= 2 => ipCount(cluster) <= ipCount(best[n])
  <1> DEFINE C(k) == Cluster(window, asn, prints[k])
             Is(k) == best[k] = NoCluster
                      \/ \E j \in 1..k : best[k] = C(j) /\ best[k].pathUnionSize >= 2
             Most(k) == \A j \in 1..k : C(j).pathUnionSize >= 2 => ipCount(C(j)) <= ipCount(best[k])
             wrong == {k \in 0..n : ~(Is(k) /\ Most(k))}
  <1>1. \A k : ipCount(C(k)) \in Nat
    <2> TAKE k
    <2>1. C(k).ips \in SUBSET IpsOf(ThreatsIn(window))
      BY DEF Cluster
    <2>2. IsFiniteSet(C(k).ips)
      BY <2>1, FS_Subset
    <2>3. QED BY <2>2, FS_CardinalityType DEF ipCount
  <1>2. ipCount(NoCluster) = 0
    BY FS_EmptySet DEF ipCount, NoCluster
  <1>3. \A k \in 1..n : best[k] = IF Dominates(C(k), best[k - 1]) THEN C(k) ELSE best[k - 1]
    OBVIOUS
  <1> HIDE DEF C
  <1>4. wrong = {}
    <2> SUFFICES ASSUME wrong # {} PROVE FALSE
      OBVIOUS
    <2>1. PICK k \in wrong : \A x \in wrong : k <= x
      <3>1. wrong \subseteq Nat
        OBVIOUS
      <3> HIDE DEF wrong
      <3>2. QED BY <3>1, LeastOf
    <2>2. k \in 0..n /\ ~(Is(k) /\ Most(k))
      OBVIOUS
    <2>3. k # 0
      BY <2>2
    <2>4. k \in 1..n /\ k - 1 \in 0..n /\ k - 1 \notin wrong
      <3>1. k \in 1..n /\ k - 1 \in 0..n /\ k - 1 < k
        BY <2>2, <2>3
      <3> HIDE DEF wrong
      <3>2. QED BY <2>1, <3>1
    <2>5. Is(k - 1) /\ Most(k - 1)
      <3> HIDE DEF Is, Most
      <3>1. QED BY <2>4
    <2>6. ipCount(best[k - 1]) \in Nat
      BY <1>1, <1>2, <2>5
    <2>7. \A j \in 1..k : j \in 1..(k - 1) \/ j = k
      BY <2>4
    <2>8. CASE Dominates(C(k), best[k - 1])
      <3>1. /\ best[k] = C(k) /\ C(k).pathUnionSize >= 2
            /\ ipCount(C(k)) > ipCount(best[k - 1])
        BY <1>3, <2>4, <2>8 DEF Dominates
      <3>2. Is(k)
        BY <2>4, <3>1
      <3>3. Most(k)
        BY <1>1, <2>5, <2>6, <2>7, <3>1
      <3>4. QED BY <2>2, <3>2, <3>3
    <2>9. CASE ~Dominates(C(k), best[k - 1])
      <3>1. /\ best[k] = best[k - 1]
            /\ ~(C(k).pathUnionSize >= 2 /\ ipCount(C(k)) > ipCount(best[k - 1]))
        BY <1>3, <2>4, <2>9 DEF Dominates
      <3>2. Is(k)
        BY <2>4, <2>5, <3>1
      <3>3. Most(k)
        <4>1. C(k).pathUnionSize >= 2 => ipCount(C(k)) <= ipCount(best[k])
          BY <1>1, <2>6, <3>1
        <4>2. QED BY <2>5, <2>7, <3>1, <4>1
      <3>4. QED BY <2>2, <3>2, <3>3
    <2>10. QED BY <2>8, <2>9
  <1>5. Is(n) /\ Most(n)
    <2>1. n \in 0..n
      OBVIOUS
    <2> HIDE DEF Is, Most
    <2>2. QED BY <1>4, <2>1
  <1>6. QED BY <1>5 DEF C

\* What DominantCluster leaves of an ASN's clusters.
LEMMA DominantIs ==
    ASSUME NEW X, NEW window \in Seq(X), NEW asn
    PROVE  LET prints == FingerprintsOf(window, asn)
               dominant == DominantCluster(window, asn) IN
           /\ \/ dominant = NoCluster
              \/ \E k \in 1..Len(prints) : /\ dominant = Cluster(window, asn, prints[k])
                                           /\ dominant.pathUnionSize >= 2
           /\ \A k \in 1..Len(prints) : LET cluster == Cluster(window, asn, prints[k]) IN
                 cluster.pathUnionSize >= 2 => ipCount(cluster) <= ipCount(dominant)
  <1> DEFINE prints == FingerprintsOf(window, asn)
             n == Len(prints)
             Wins(k, sofar) == LET cluster == Cluster(window, asn, prints[k]) IN
                               IF Dominates(cluster, sofar) THEN cluster ELSE sofar
             Solves(f) == f = [k \in 0..n |-> IF k = 0 THEN NoCluster ELSE Wins(k, f[k - 1])]
             best == CHOOSE f : Solves(f)
             V == {NoCluster} \cup {Cluster(window, asn, prints[k]) : k \in 1..n}
             win == [k \in 1..n |-> [sofar \in V |-> Wins(k, sofar)]]
  <1>1. DominantCluster(window, asn) = best[n]
    BY DEF DominantCluster
  <1>2. n \in Nat
    BY FingerprintsListed
  <1> HIDE DEF n, prints
  <1>3. \A k \in 1..n, sofar \in V : Wins(k, sofar) \in V
    OBVIOUS
  <1>4. NoCluster \in V
    OBVIOUS
  <1> HIDE DEF V, Wins
  <1>5. win \in [1..n -> [V -> V]]
    BY <1>3
  <1> HIDE DEF win
  <1>6. Solvable(n, V, NoCluster, win)
    BY <1>2, <1>4, <1>5, RecursionExists
  <1>7. PICK F \in [0..n -> V] : F[0] = NoCluster /\ \A k \in 1..n : F[k] = win[k][F[k - 1]]
    BY <1>6 DEF Solvable, Unfolds
  <1>8. Solves(F)
    <2>1. ASSUME NEW k \in 1..n PROVE F[k] = Wins(k, F[k - 1])
      <3>1. k - 1 \in 0..n
        BY <1>2
      <3>2. F[k - 1] \in V
        BY <3>1
      <3>3. QED BY <1>7, <3>2 DEF win
    <2>2. \A k \in 0..n : k = 0 \/ k \in 1..n
      BY <1>2
    <2>3. \A k \in 0..n : F[k] = IF k = 0 THEN NoCluster ELSE Wins(k, F[k - 1])
      BY <1>7, <2>1, <2>2
    <2>4. QED BY <2>3
  <1>9. Solves(best)
    <2> HIDE DEF Solves
    <2>1. QED BY <1>8
  <1> HIDE DEF best
  <1>10. best[0] = NoCluster /\ \A k \in 1..n : best[k] = Wins(k, best[k - 1])
    <2>1. \A k \in 0..n : best[k] = IF k = 0 THEN NoCluster ELSE Wins(k, best[k - 1])
      BY <1>9
    <2>2. 0 \in 0..n /\ \A k \in 1..n : k \in 0..n /\ k # 0
      BY <1>2
    <2>3. QED BY <2>1, <2>2
  <1>11. \A k \in 1..n : best[k] = IF Dominates(Cluster(window, asn, prints[k]), best[k - 1])
                                   THEN Cluster(window, asn, prints[k]) ELSE best[k - 1]
    BY <1>10 DEF Wins
  <1>12. IsFiniteSet(IpsOf(ThreatsIn(window)))
    BY ThreatIps
  <1>13. /\ \/ best[n] = NoCluster
            \/ \E k \in 1..n : /\ best[n] = Cluster(window, asn, prints[k])
                               /\ best[n].pathUnionSize >= 2
         /\ \A k \in 1..n : LET cluster == Cluster(window, asn, prints[k]) IN
               cluster.pathUnionSize >= 2 => ipCount(cluster) <= ipCount(best[n])
    BY <1>2, <1>10, <1>11, <1>12, BestOfAll
  <1>14. QED BY <1>1, <1>13 DEF n, prints

\* The threat IPs of an ASN that probed the same paths as one of them.
Alike(window, asn, ip) ==
    {x \in IpsOf(ThreatsIn(window)) : RouteSetOf(window, asn, x) = RouteSetOf(window, asn, ip)}

\* What an ASN's dominant cluster is, whatever the order of the window: it has the paths
\* of each of its IPs, and no cluster of two paths or more has more IPs.
LEMMA Unbeaten ==
    ASSUME NEW X, NEW window \in Seq(X), NEW asn
    PROVE  LET best == DominantCluster(window, asn)
               ips == IpsOf(ThreatsIn(window)) IN
           /\ best # NoCluster =>
                 /\ Cardinality(best.fingerprint) >= 2
                 /\ best.pathUnionSize = Cardinality(best.fingerprint)
                 /\ best.ips = {ip \in ips : RouteSetOf(window, asn, ip) = best.fingerprint}
           /\ \A ip \in ips : Cardinality(RouteSetOf(window, asn, ip)) >= 2 =>
                 /\ best # NoCluster
                 /\ ipCount(best) >= Cardinality(Alike(window, asn, ip))
           /\ IsFiniteSet(ips) /\ ipCount(best) \in Nat
  <1> DEFINE best == DominantCluster(window, asn)
             prints == FingerprintsOf(window, asn)
             ips == IpsOf(ThreatsIn(window))
             Routes(ip) == RouteSetOf(window, asn, ip)
  <1>1. IsFiniteSet(ips)
    BY ThreatIps
  <1>2. /\ \/ best = NoCluster
           \/ \E k \in 1..Len(prints) : /\ best = Cluster(window, asn, prints[k])
                                        /\ best.pathUnionSize >= 2
        /\ \A k \in 1..Len(prints) : LET cluster == Cluster(window, asn, prints[k]) IN
              cluster.pathUnionSize >= 2 => ipCount(cluster) <= ipCount(best)
    BY DominantIs
  <1> HIDE DEF best
  <1>3. ASSUME best # NoCluster
        PROVE  /\ Cardinality(best.fingerprint) >= 2
               /\ best.pathUnionSize = Cardinality(best.fingerprint)
               /\ best.ips = {ip \in ips : Routes(ip) = best.fingerprint}
    <2>1. PICK k \in 1..Len(prints) : best = Cluster(window, asn, prints[k]) /\ best.pathUnionSize >= 2
      BY <1>2, <1>3
    <2>2. QED BY <2>1 DEF Cluster, routeSetFingerprint
  <1>4. ipCount(best) \in Nat
    <2>1. best.ips \in SUBSET ips
      BY <1>3 DEF NoCluster
    <2>2. IsFiniteSet(best.ips)
      BY <1>1, <2>1, FS_Subset
    <2>3. QED BY <2>2, FS_CardinalityType DEF ipCount
  <1>5. ASSUME NEW ip \in ips, Cardinality(Routes(ip)) >= 2
        PROVE  /\ best # NoCluster
               /\ ipCount(best) >= Cardinality(Alike(window, asn, ip))
    <2>1. Routes(ip) # {}
      BY <1>5, FS_EmptySet
    <2>2. PICK k \in 1..Len(prints) : prints[k] = Routes(ip)
      BY <2>1, FingerprintsListed
    <2> DEFINE cluster == Cluster(window, asn, prints[k])
               same == Alike(window, asn, ip)
    <2>3. cluster.ips = same /\ cluster.pathUnionSize = Cardinality(Routes(ip))
      BY <2>2 DEF Cluster, Alike, routeSetFingerprint
    <2>4. ipCount(cluster) = Cardinality(same) /\ ipCount(cluster) <= ipCount(best)
      BY <1>2, <1>5, <2>3 DEF ipCount
    <2>5. Cardinality(same) \in Nat \ {0}
      <3>1. same \in SUBSET ips /\ same # {}
        BY DEF Alike
      <3>2. IsFiniteSet(same)
        BY <1>1, <3>1, FS_Subset
      <3>3. QED BY <3>1, <3>2, FS_CardinalityType, FS_EmptySet
    <2> HIDE DEF same, cluster
    <2>6. ipCount(NoCluster) = 0
      BY FS_EmptySet DEF ipCount, NoCluster
    <2>7. best # NoCluster /\ ipCount(best) >= Cardinality(same)
      BY <1>4, <2>4, <2>5, <2>6
    <2>8. QED BY <2>7 DEF same
  <1>6. QED BY <1>1, <1>3, <1>4, <1>5 DEF best

\* Of every ASN of every window: the cluster it is scored by has the paths of each of
\* its IPs, at least two of them, and no cluster of two paths has more IPs.
THEOREM ClusterUnbeaten == Spec => []DominantClusterUnbeaten
  <1>1. ScanInv /\ WindowInv /\ [Next]_vars => WindowInv'
    BY WindowStep
  <1>2. WindowInv => DominantClusterUnbeaten
    <2> SUFFICES ASSUME WindowInv, NEW asn \in DOMAIN metrics.clusters \ {NoAsn}
                 PROVE  LET best == metrics.clusters[asn]
                            routes == [ip \in IpsOf(ThreatsIn(metrics.requests)) |->
                                          RouteSetOf(metrics.requests, asn, ip)] IN
                        /\ \A ip \in best.ips : routes[ip] = best.fingerprint
                        /\ best # NoCluster => Cardinality(best.fingerprint) >= 2
                        /\ \A ip \in DOMAIN routes : Cardinality(routes[ip]) >= 2 =>
                              /\ best # NoCluster
                              /\ ipCount(best) >= Cardinality({x \in DOMAIN routes : routes[x] = routes[ip]})
      BY DEF DominantClusterUnbeaten
    <2> DEFINE window == metrics.requests
               best == metrics.clusters[asn]
               ips == IpsOf(ThreatsIn(window))
               routes == [ip \in ips |-> RouteSetOf(window, asn, ip)]
    <2>1. window \in Seq(log) /\ metrics = compute(window)
      BY DEF WindowInv
    <2> HIDE DEF window
    <2>2. best = DominantCluster(window, asn)
      BY <2>1 DEF compute
    <2> HIDE DEF best
    <2>3. /\ best # NoCluster =>
                /\ Cardinality(best.fingerprint) >= 2
                /\ best.ips = {ip \in ips : RouteSetOf(window, asn, ip) = best.fingerprint}
          /\ \A ip \in ips : Cardinality(RouteSetOf(window, asn, ip)) >= 2 =>
                /\ best # NoCluster
                /\ ipCount(best) >= Cardinality(Alike(window, asn, ip))
      BY <2>1, <2>2, Unbeaten
    <2>4. \A ip \in ips : {x \in ips : routes[x] = routes[ip]}
                            = Alike(window, asn, ip)
      BY DEF Alike
    <2>5. best = NoCluster => best.ips = {}
      BY DEF NoCluster
    <2>6. QED BY <2>3, <2>4, <2>5 DEF best, window
  <1>3. QED BY <1>1, <1>2, ScanInit, ScanStep, WindowInit, PTL DEF Spec

\* The group that a fingerprint cluster is stored from holds the cluster's IPs and no other.
LEMMA ClusterGroup ==
    ASSUME WindowInv, Strategy = "asn-path-fingerprint-cluster", NEW group,
           IsGroup(Strategy, metrics, group), ClusterFigures(metrics, group) # NoScore
    PROVE  LET cluster == metrics.clusters[group[1].asn] IN
           /\ IpsOf(ToSet(group)) = cluster.ips
           /\ Cardinality(cluster.fingerprint) = cluster.pathUnionSize
           /\ ClusterFigures(metrics, group)[1] = ipCount(cluster)
           /\ ClusterFigures(metrics, group)[2] = cluster.pathUnionSize
  <1> DEFINE asn == group[1].asn
             cluster == metrics.clusters[asn]
             window == metrics.requests
             prints == FingerprintsOf(window, asn)
  <1>1. window \in Seq(log) /\ metrics = compute(window)
    BY DEF WindowInv
  <1>2. /\ group[1] \in ToSet(window) /\ group[1].ip \in cluster.ips
        /\ ToSet(group) = {r \in ToSet(window) : /\ r.threat /\ r.asn = asn
                                                /\ r.ip \in metrics.clusters[r.asn].ips}
    <2>1. group[1] \in ToSet(group)
      BY DEF IsGroup, ToSet
    <2>2. \A r : /\ Observes(Strategy, metrics, r) <=> InDominantCluster(metrics, r)
                 /\ KeyOf(Strategy, r) = r.asn
      BY DEF Observes, KeyOf
    <2>3. ToSet(group) = {r \in ToSet(window) : InDominantCluster(metrics, r) /\ r.asn = asn}
      BY <2>2 DEF IsGroup
    <2>4. QED BY <2>1, <2>3 DEF InDominantCluster
  <1>3. \E x : ClusterFigures(metrics, group) = <<ipCount(cluster), cluster.pathUnionSize, x>>
    BY DEF ClusterFigures
  <1> HIDE DEF window
  <1>4. cluster = IF asn = NoAsn THEN NoCluster ELSE DominantCluster(window, asn)
    BY <1>1, <1>2 DEF compute
  <1>5. cluster # NoCluster
    BY <1>2 DEF NoCluster
  <1>6. cluster = DominantCluster(window, asn)
    BY <1>4, <1>5
  <1>7. PICK k \in 1..Len(prints) : /\ cluster = Cluster(window, asn, prints[k])
                                    /\ cluster.pathUnionSize >= 2
    BY <1>1, <1>5, <1>6, DominantIs
  <1>8. /\ cluster.fingerprint = prints[k] /\ cluster.pathUnionSize = Cardinality(prints[k])
        /\ cluster.ips = {ip \in IpsOf(ThreatsIn(window)) : RouteSetOf(window, asn, ip) = prints[k]}
    BY <1>7 DEF Cluster, routeSetFingerprint
  <1>9. ToSet(group) = {r \in ToSet(window) : r.threat /\ r.asn = asn /\ r.ip \in cluster.ips}
    BY <1>2
  <1> HIDE DEF cluster, asn, prints
  <1>10. ASSUME NEW ip \in cluster.ips PROVE ip \in IpsOf(ToSet(group))
    <2>1. RouteSetOf(window, asn, ip) = prints[k] /\ Cardinality(prints[k]) >= 2
      BY <1>7, <1>8
    <2>2. RouteSetOf(window, asn, ip) # {}
      <3>1. Cardinality({}) = 0
        BY FS_EmptySet
      <3>2. ~(0 >= 2)
        OBVIOUS
      <3>3. prints[k] # {}
        BY <2>1, <3>1, <3>2
      <3>4. QED BY <2>1, <3>3
    <2>3. PICK r \in ThreatsIn(window) : r.asn = asn /\ r.ip = ip
      BY <2>2 DEF RouteSetOf, RoutesOf
    <2>4. r \in ToSet(group)
      BY <1>9, <2>3 DEF ThreatsIn
    <2>5. QED BY <2>3, <2>4 DEF IpsOf
  <1>11. IpsOf(ToSet(group)) = cluster.ips
    BY <1>9, <1>10 DEF IpsOf
  <1>12. QED BY <1>3, <1>8, <1>11 DEF cluster, asn

EvidenceInv == ReportInv /\ ClusterEvidenceIsItsOwn

LEMMA EvidenceStep ==
    ASSUME ScanInv, WindowInv, EvidenceInv, [Next]_vars
    PROVE  EvidenceInv'
  <1>1. ReportInv'
    BY ReportStep DEF EvidenceInv
  <1>2. CASE StartRun
    <2>1. reports' = << >>
      BY <1>2 DEF StartRun
    <2>2. QED BY <1>1, <2>1 DEF EvidenceInv, ClusterEvidenceIsItsOwn
  <1>3. CASE UpsertCandidate
    <2> DEFINE c == buildCandidate
               n == Len(reports) + 1
               cluster == metrics.clusters[Group[1].asn]
    <2>1. /\ DOMAIN reports' = 1..n /\ DOMAIN reports = 1..(n - 1) /\ n \in Nat
          /\ \A i \in 1..(n - 1) : reports'[i] = reports[i]
          /\ reports'[n].strategy = Strategy
      BY <1>3, Reported DEF EvidenceInv, ReportInv
    <2>2. reports'[n].candidate = c
      <3> DEFINE report == Report(c)
      <3>1. reports' = Append(reports, report) /\ report.candidate = c
        BY <1>3 DEF UpsertCandidate, Report
      <3> HIDE DEF report
      <3>2. QED BY <3>1, AppendFacts DEF EvidenceInv, ReportInv
    <2>3. ASSUME Strategy = "asn-path-fingerprint-cluster"
          PROVE  /\ Cardinality(c.contributing_ips) = c.evidence.figures[1]
                 /\ Cardinality(c.identifier[3]) = c.evidence.figures[2]
      <3>1. pc = "score" /\ groups # << >> /\ Figs # NoScore
        BY <1>3 DEF UpsertCandidate, Fires
      <3>2. IsGroup(Strategy, metrics, Group)
        BY <3>1, TailFacts DEF WindowInv, Group
      <3>3. Figs = ClusterFigures(metrics, Group)
        BY <2>3 DEF Figs, FiguresOf
      <3>4. /\ IpsOf(ToSet(Group)) = cluster.ips
            /\ Cardinality(cluster.fingerprint) = cluster.pathUnionSize
            /\ Figs[1] = ipCount(cluster) /\ Figs[2] = cluster.pathUnionSize
        BY <2>3, <3>1, <3>2, <3>3, ClusterGroup
      <3>5. c.contributing_ips = IpsOf(ToSet(Group)) /\ c.evidence.figures = Figs
        BY DEF buildCandidate
      <3>6. c.identifier = identifier_from(Strategy, metrics, Group)
        BY DEF buildCandidate
      <3>7. c.identifier[3] = cluster.fingerprint
        BY <2>3, <3>6 DEF identifier_from
      <3> HIDE DEF c, cluster
      <3>8. QED BY <3>4, <3>5, <3>7 DEF ipCount
    <2> HIDE DEF c, n
    <2>4. \A i \in DOMAIN reports' : i = n \/ (i \in DOMAIN reports /\ i \in 1..(n - 1))
      BY <2>1
    <2>5. ClusterEvidenceIsItsOwn'
      BY <2>1, <2>2, <2>3, <2>4 DEF EvidenceInv, ClusterEvidenceIsItsOwn
    <2>6. QED BY <1>1, <2>5 DEF EvidenceInv
  <1>4. CASE UNCHANGED reports
    BY <1>1, <1>4 DEF EvidenceInv, ClusterEvidenceIsItsOwn
  <1>5. QED
    BY <1>2, <1>3, <1>4, NextCases
    DEF LoadRequests, SkipGroup, RecordMarkers, NextStrategy, Finish, Crash, SetCampaignStatus,
        vars, runVars

\* Whatever is logged: a fingerprint cluster is stored with the IPs and the paths that
\* its evidence counted, and with no request of another cluster or ASN.
THEOREM EvidenceIsItsOwn == Spec => []ClusterEvidenceIsItsOwn
  <1>1. Init => EvidenceInv
    <2>1. Init => reports = << >> /\ pc = "idle"
      BY DEF Init
    <2>2. << >> \in Seq(ToSet(<< >>))
      OBVIOUS
    <2>3. QED BY <2>1, <2>2 DEF EvidenceInv, ReportInv, ClusterEvidenceIsItsOwn
  <1>2. ScanInv /\ WindowInv /\ [Next]_vars => WindowInv'
    BY WindowStep
  <1>3. ScanInv /\ WindowInv /\ EvidenceInv /\ [Next]_vars => EvidenceInv'
    BY EvidenceStep
  <1>4. EvidenceInv => ClusterEvidenceIsItsOwn
    BY DEF EvidenceInv
  <1>5. QED BY <1>1, <1>2, <1>3, <1>4, ScanInit, ScanStep, WindowInit, PTL DEF Spec

---------------------------------------------------------------------------
(* The tools that read the same table: the replay check and the tuning harness *)

\* Two orders of the same rows: the dominant cluster of the one is no larger than that
\* of the other, and has two paths or more.
LEMMA SameRowsSameSize ==
    ASSUME NEW X, NEW v \in Seq(X), NEW w \in Seq(X), ToSet(v) = ToSet(w), NEW asn,
           DominantCluster(v, asn).ips # {}
    PROVE  /\ DominantCluster(w, asn).ips # {}
           /\ ipCount(DominantCluster(v, asn)) <= ipCount(DominantCluster(w, asn))
  <1> DEFINE one == DominantCluster(v, asn)
             two == DominantCluster(w, asn)
             ips == IpsOf(ThreatsIn(v))
  <1>1. IpsOf(ThreatsIn(w)) = ips /\ \A ip : RouteSetOf(w, asn, ip) = RouteSetOf(v, asn, ip)
    BY DEF ThreatsIn, RouteSetOf
  <1>2. /\ one # NoCluster =>
              /\ Cardinality(one.fingerprint) >= 2
              /\ one.ips = {ip \in ips : RouteSetOf(v, asn, ip) = one.fingerprint}
        /\ IsFiniteSet(ips) /\ ipCount(one) \in Nat
    BY Unbeaten
  <1>3. /\ \A ip \in ips : Cardinality(RouteSetOf(w, asn, ip)) >= 2 =>
              /\ two # NoCluster
              /\ ipCount(two) >= Cardinality(Alike(w, asn, ip))
        /\ ipCount(two) \in Nat
    BY <1>1, Unbeaten
  <1>4. one # NoCluster
    BY DEF NoCluster
  <1> HIDE DEF one, two
  <1>5. PICK ip \in one.ips : TRUE
    BY DEF one
  <1>6. ip \in ips /\ RouteSetOf(v, asn, ip) = one.fingerprint
    BY <1>2, <1>4, <1>5
  <1>7. Alike(w, asn, ip) = one.ips
    BY <1>1, <1>2, <1>4, <1>6 DEF Alike
  <1>8. ipCount(two) >= ipCount(one)
    BY <1>1, <1>2, <1>3, <1>4, <1>6, <1>7 DEF ipCount
  <1>9. ipCount(one) > 0
    <2>1. IsFiniteSet(one.ips)
      <3>1. one.ips \in SUBSET ips
        BY <1>2, <1>4
      <3>2. QED BY <1>2, <3>1, FS_Subset
    <2>2. Cardinality(one.ips) # 0
      BY <1>5, <2>1, FS_EmptySet
    <2>3. QED BY <1>2, <2>2 DEF ipCount
  <1>10. two.ips # {}
    <2>1. ipCount(two) # 0
      BY <1>2, <1>3, <1>8, <1>9
    <2>2. QED BY <2>1, FS_EmptySet DEF ipCount
  <1>11. QED BY <1>8, <1>10 DEF one, two

\* The cluster the check looks at.
Mined(window) == IF MinedAsn = NoAsn THEN NoCluster ELSE DominantCluster(window, MinedAsn)

MinedIsThere(window) ==
    /\ Mined(window).ips # {}
    /\ ~(ipCount(Mined(window)) < MinClusterIps) /\ ~(ipCount(Mined(window)) < MinExpectedIps)

LEMMA RoutesFinite ==
    ASSUME NEW X, NEW window \in Seq(X), NEW asn, NEW ip
    PROVE  Cardinality(RouteSetOf(window, asn, ip)) \in Nat
  <1> DEFINE at == {i \in DOMAIN window : window[i].threat /\ window[i].asn = asn
                                                          /\ window[i].ip = ip}
             route == [i \in at |-> window[i].route]
  <1>1. IsFiniteSet(at)
    <2>1. DOMAIN window = 1..Len(window) /\ Len(window) \in Nat
      OBVIOUS
    <2>2. IsFiniteSet(1..Len(window))
      BY <2>1, FS_Interval
    <2>3. at \in SUBSET (1..Len(window))
      BY <2>1
    <2>4. QED BY <2>2, <2>3, FS_Subset
  <1>2. route \in Surjection(at, RouteSetOf(window, asn, ip))
    BY DEF Surjection, RouteSetOf, RoutesOf, ThreatsIn, ToSet
  <1> HIDE DEF at, route
  <1>3. QED BY <1>1, <1>2, FS_Surjection, FS_CardinalityType

\* The check finds the cluster if the ASN's dominant cluster has IPs enough, and then
\* answers how many.
LEMMA VerdictIs ==
    ASSUME NEW X, NEW window \in Seq(X)
    PROVE  LET verdict == Verdict(window) IN
           /\ verdict.ok = MinedIsThere(window)
           /\ verdict.ipCount = IF MinedIsThere(window) THEN ipCount(Mined(window)) ELSE 0
  <1> DEFINE computed == compute(window)
             cluster == Mined(window)
             positions == {i \in DOMAIN window :
                 /\ Observes(ClusterStrategy, computed, window[i])
                 /\ window[i].asn = MinedAsn}
             mined == EntriesAt(window, positions)
             figures == ClusterFigures(computed, mined)
             found == [ ok |-> TRUE, ipCount |-> figures[1],
                        fingerprint |-> identifier_from(ClusterStrategy,
                                                              computed, mined)[3] ]
  <1>1. Verdict(window) =
            IF window = << >> \/ mined = << >> THEN Failed
            ELSE IF figures = NoScore \/ figures[1] < MinExpectedIps THEN Failed
            ELSE found
    BY DEF Verdict
  <1>2. \A i \in DOMAIN window : window[i].asn = MinedAsn => computed.clusters[MinedAsn] = cluster
    <2>1. \A i \in DOMAIN window : window[i] \in ToSet(window)
      BY DEF ToSet
    <2>2. QED BY <2>1 DEF compute, Mined
  <1>17. found.ok = TRUE /\ found.ipCount = figures[1]
    OBVIOUS
  <1> HIDE DEF computed, mined, figures, found
  <1>3. \A i : i \in positions <=> /\ i \in DOMAIN window /\ window[i].threat
                                   /\ window[i].asn = MinedAsn /\ window[i].ip \in cluster.ips
    BY <1>2 DEF Observes, ClusterStrategy, InDominantCluster
  <1> HIDE DEF positions
  <1>4. cluster.ips # {} => ~(cluster.pathUnionSize < 2) /\ positions # {}
    <2> SUFFICES ASSUME cluster.ips # {} PROVE ~(cluster.pathUnionSize < 2) /\ positions # {}
      OBVIOUS
    <2>1. cluster # NoCluster
      BY DEF NoCluster
    <2>2. cluster = DominantCluster(window, MinedAsn)
      BY <2>1 DEF Mined
    <2>3. /\ Cardinality(cluster.fingerprint) >= 2
          /\ cluster.pathUnionSize = Cardinality(cluster.fingerprint)
          /\ \A ip \in cluster.ips : RouteSetOf(window, MinedAsn, ip) = cluster.fingerprint
      BY <2>1, <2>2, Unbeaten
    <2> HIDE DEF cluster
    <2>4. PICK ip \in cluster.ips : TRUE
      OBVIOUS
    <2>5. RouteSetOf(window, MinedAsn, ip) # {}
      <3> DEFINE print == cluster.fingerprint
      <3>1. Cardinality(print) >= 2
        BY <2>3
      <3> HIDE DEF print
      <3>2. print # {}
        BY <3>1, FS_EmptySet
      <3>3. QED BY <2>3, <2>4, <3>2 DEF print
    <2>6. PICK r \in ThreatsIn(window) : r.asn = MinedAsn /\ r.ip = ip
      BY <2>5 DEF RouteSetOf, RoutesOf
    <2>7. PICK i \in DOMAIN window : window[i] = r /\ window[i].threat
      BY DEF ThreatsIn, ToSet
    <2>8. i \in positions
      BY <1>3, <2>4, <2>6, <2>7
    <2>9. Cardinality(cluster.fingerprint) \in Nat
      <3>1. Cardinality(RouteSetOf(window, MinedAsn, ip)) \in Nat
        BY RoutesFinite
      <3>2. QED BY <2>3, <2>4, <3>1
    <2>10. QED BY <2>3, <2>8, <2>9
  <1>5. IsFiniteSet(positions) /\ positions \subseteq Nat
    <2>1. DOMAIN window = 1..Len(window) /\ Len(window) \in Nat
      OBVIOUS
    <2>2. IsFiniteSet(1..Len(window))
      BY <2>1, FS_Interval
    <2>3. positions \in SUBSET (1..Len(window))
      BY <1>3, <2>1
    <2>4. IsFiniteSet(positions)
      BY <2>2, <2>3, FS_Subset
    <2>5. QED BY <2>3, <2>4
  <1>6. mined = << >> <=> positions = {}
    <2>2. /\ mined \in Seq({window[i] : i \in positions})
          /\ Len(mined) = Cardinality(positions)
      BY <1>5, EntriesAtLists DEF mined
    <2>3. mined = << >> <=> Cardinality(positions) = 0
      BY <2>2
    <2>4. QED BY <1>5, <2>3, FS_EmptySet
  <1>7. positions # {} => mined[1].asn = MinedAsn
    <2> SUFFICES ASSUME positions # {} PROVE mined[1].asn = MinedAsn
      OBVIOUS
    <2>2. mined \in Seq({window[i] : i \in positions}) /\ mined # << >>
      BY <1>5, <1>6, EntriesAtLists DEF mined
    <2>3. mined[1] \in {window[i] : i \in positions}
      BY <2>2
    <2>4. QED BY <1>3, <2>3
  <1>8. positions # {} => computed.clusters[mined[1].asn] = cluster
    BY <1>2, <1>3, <1>7
  <1> HIDE DEF cluster
  <1>9. positions # {} =>
            IF ipCount(cluster) < MinClusterIps \/ cluster.pathUnionSize < 2
            THEN figures = << >>
            ELSE \E x : figures = <<ipCount(cluster), cluster.pathUnionSize, x>>
    BY <1>8
    DEF figures, ClusterFigures, NoScore, ipCount, Cardinality
  <1>10. positions # {} <=> cluster.ips # {}
    BY <1>3, <1>4
  <1>12. Failed.ok = FALSE /\ Failed.ipCount = 0
    BY DEF Failed
  <1>13. positions # {} => window # << >>
    BY <1>3
  <1>14. MinedIsThere(window) <=>
            /\ cluster.ips # {} /\ ~(ipCount(cluster) < MinClusterIps)
            /\ ~(ipCount(cluster) < MinExpectedIps)
    BY DEF MinedIsThere, cluster
  <1>15. CASE positions # {} /\ ~(ipCount(cluster) < MinClusterIps)
    <2>1. PICK x : figures = <<ipCount(cluster), cluster.pathUnionSize, x>>
      <3>1. ~(cluster.pathUnionSize < 2)
        BY <1>4, <1>10, <1>15
      <3>2. QED BY <1>9, <1>15, <3>1
    <2>3. figures # << >> /\ figures[1] = ipCount(cluster)
      BY <2>1
    <2>2. QED BY <1>1, <1>6, <1>10, <1>17, <1>12, <1>13, <1>14, <1>15, <2>3
            DEF NoScore, MinedIsThere, cluster
  <1>16. CASE positions = {} \/ ipCount(cluster) < MinClusterIps
    <2>1. positions # {} => figures = << >>
      BY <1>9, <1>16
    <2>2. Verdict(window) = Failed
      BY <1>1, <1>6, <2>1 DEF NoScore
    <2>3. QED BY <1>10, <1>12, <1>14, <1>16, <2>2 DEF MinedIsThere, cluster
  <1>18. QED BY <1>15, <1>16

\* Both runs saw the same rows: they agree.
LEMMA SameRowsSameVerdict ==
    ASSUME NEW X, NEW v \in Seq(X), NEW w \in Seq(X), ToSet(v) = ToSet(w)
    PROVE  /\ Verdict(v).ok = Verdict(w).ok
           /\ Verdict(v).ipCount = Verdict(w).ipCount
  <1>1. /\ ipCount(Mined(v)) = ipCount(Mined(w))
        /\ Mined(v).ips # {} <=> Mined(w).ips # {}
    <2>1. CASE MinedAsn = NoAsn
      BY <2>1 DEF Mined
    <2>2. CASE MinedAsn # NoAsn
      <3> DEFINE one == DominantCluster(v, MinedAsn)
                 two == DominantCluster(w, MinedAsn)
      <3>1. one.ips # {} => two.ips # {} /\ ipCount(one) <= ipCount(two)
        BY SameRowsSameSize
      <3>2. two.ips # {} => one.ips # {} /\ ipCount(two) <= ipCount(one)
        BY SameRowsSameSize
      <3>3. ipCount(one) \in Nat /\ ipCount(two) \in Nat
        BY Unbeaten
      <3>4. Mined(v) = one /\ Mined(w) = two
        BY <2>2 DEF Mined
      <3> HIDE DEF one, two
      <3>5. one.ips = {} /\ two.ips = {} => ipCount(one) = ipCount(two)
        BY DEF ipCount
      <3>6. QED BY <3>1, <3>2, <3>3, <3>4, <3>5
    <2>3. QED BY <2>1, <2>2
  <1>2. MinedIsThere(v) = MinedIsThere(w)
    BY <1>1 DEF MinedIsThere
  <1>3. QED BY <1>1, <1>2, VerdictIs

\* The rows that the check has ever classified.
Classified == {Reclassified(r) : r \in Pool}

\* Every answer was computed from some list of rows of the table.
ReplayInv ==
    /\ log \subseteq Pool
    /\ DOMAIN replays = 1..Len(replays) /\ Len(replays) \in Nat
    /\ replays \in Seq(ToSet(replays))
    /\ \A i \in DOMAIN replays : \E window \in Seq(Classified) :
          /\ replays[i].loaded = {r.id : r \in ToSet(window)}
          /\ replays[i].verdict = Verdict(window)

LEMMA ReplayStep ==
    ASSUME ReplayInv, [ToolsNext]_toolVars
    PROVE  ReplayInv'
  <1> USE DEF ReplayInv
  <1>1. CASE Replay
    <2> DEFINE loaded == {r \in log : InCorpus(r)}
               asked == {Reclassified(r) : r \in loaded}
    <2>1. PICK window \in Orders(asked) :
              replays' = Append(replays, [loaded |-> {r.id : r \in ToSet(window)},
                                          verdict |-> Verdict(window)])
      BY <1>1 DEF Replay, Loads
    <2>2. log' = log
      BY <1>1 DEF Replay
    <2>3. window \in Seq(Classified)
      <3>1. IsFiniteSet(asked) /\ \A r \in asked : r.created_at \in Nat
        <4>1. IsFiniteSet(loaded)
          <5>1. loaded \in SUBSET Pool
            OBVIOUS
          <5>2. IsFiniteSet(Pool)
            BY PoolAssumption DEF PoolAssumption, IsATable
          <5>3. QED BY <5>1, <5>2, FS_Subset
        <4>2. [r \in loaded |-> Reclassified(r)] \in Surjection(loaded, asked)
          BY DEF Surjection
        <4>3. \A r \in loaded : Reclassified(r).created_at = r.created_at
          BY PoolAssumption DEF Reclassified, PoolAssumption, IsATable
        <4>4. IsFiniteSet(asked)
          BY <4>1, <4>2, FS_Surjection
        <4>5. QED BY <4>3, <4>4, PoolAssumption DEF PoolAssumption, IsATable
      <3>2. window \in Orders(asked)
        BY <2>1
      <3>3. asked \subseteq Classified
        BY DEF Classified
      <3> HIDE DEF asked
      <3>4. window \in Seq(asked)
        BY <3>1, <3>2, OrdersList
      <3>5. QED BY <3>3, <3>4
    <2> DEFINE answer == [loaded |-> {r.id : r \in ToSet(window)},
                          verdict |-> Verdict(window)]
    <2>4. /\ answer.loaded = {r.id : r \in ToSet(window)}
          /\ answer.verdict = Verdict(window)
      BY DEF ToSet
    <2>5. replays' = Append(replays, answer)
      BY <2>1
    <2> HIDE DEF answer
    <2>6. /\ DOMAIN replays' = 1..Len(replays') /\ Len(replays') \in Nat
          /\ replays' \in Seq(ToSet(replays')) /\ Len(replays') = Len(replays) + 1
          /\ replays'[Len(replays')] = answer
          /\ \A i \in DOMAIN replays : replays'[i] = replays[i]
      BY <2>5, AppendFacts
    <2>7. \A i \in DOMAIN replays' : i \in DOMAIN replays \/ i = Len(replays')
      BY <2>6
    <2>8. \A i \in DOMAIN replays' : \E w \in Seq(Classified) :
              /\ replays'[i].loaded = {r.id : r \in ToSet(w)}
              /\ replays'[i].verdict = Verdict(w)
      BY <2>3, <2>4, <2>6, <2>7
    <2>9. QED BY <2>2, <2>6, <2>8
  <1>2. CASE \E r \in Pool : Backfill(r)
    BY <1>2 DEF Backfill
  <1>3. CASE UNCHANGED <<log, replays>>
    BY <1>3
  <1>4. QED
    BY <1>1, <1>2, <1>3
    DEF ToolsNext, Tune, ReplayNext, toolVars, replayVars

\* Whatever rows the pinned range holds or is backfilled with, and in whatever order the
\* query returns those of one instant: two replays that loaded the same rows agree on
\* whether the mined cluster is there and on how many IPs it has.
THEOREM ReplaysAgree ==
    ToolsSpec => []ReplaysAgreeOnCluster
  <1>1. ToolsInit => ReplayInv
    <2>1. ToolsInit => replays = << >> /\ log \subseteq Pool
      BY DEF ToolsInit, ReplayInit
    <2>2. << >> \in Seq(ToSet(<< >>))
      OBVIOUS
    <2>3. QED BY <2>1, <2>2 DEF ReplayInv
  <1>2. ReplayInv /\ [ToolsNext]_toolVars => ReplayInv'
    BY ReplayStep
  <1>3. ReplayInv => ReplaysAgreeOnCluster
    <2> SUFFICES ASSUME ReplayInv, NEW i \in DOMAIN replays, NEW j \in DOMAIN replays,
                        replays[i].loaded = replays[j].loaded
                 PROVE  /\ replays[i].verdict.ok = replays[j].verdict.ok
                        /\ replays[i].verdict.ipCount = replays[j].verdict.ipCount
      BY DEF ReplaysAgreeOnCluster
    <2>1. PICK v \in Seq(Classified) : /\ replays[i].loaded = {r.id : r \in ToSet(v)}
                                       /\ replays[i].verdict = Verdict(v)
      BY DEF ReplayInv
    <2>2. PICK w \in Seq(Classified) : /\ replays[j].loaded = {r.id : r \in ToSet(w)}
                                       /\ replays[j].verdict = Verdict(w)
      BY DEF ReplayInv
    <2>3. ASSUME NEW r \in Classified, NEW s \in Classified, r.id = s.id PROVE r = s
      <3>1. PICK p \in Pool : r = Reclassified(p)
        BY DEF Classified
      <3>2. PICK q \in Pool : s = Reclassified(q)
        BY DEF Classified
      <3>3. p.id = r.id /\ q.id = s.id
        BY <3>1, <3>2 DEF Reclassified
      <3>4. QED BY <2>3, <3>1, <3>2, <3>3, PoolAssumption
               DEF PoolAssumption, IsATable
    <2>4. ToSet(v) \subseteq Classified /\ ToSet(w) \subseteq Classified
      BY DEF ToSet
    <2>5. {r.id : r \in ToSet(v)} = {r.id : r \in ToSet(w)}
      BY <2>1, <2>2
    <2>6. ASSUME NEW r \in ToSet(v) PROVE r \in ToSet(w)
      <3>1. PICK s \in ToSet(w) : s.id = r.id
        BY <2>5
      <3>2. QED BY <2>3, <2>4, <3>1
    <2>7. ASSUME NEW r \in ToSet(w) PROVE r \in ToSet(v)
      <3>1. PICK s \in ToSet(v) : s.id = r.id
        BY <2>5
      <3>2. QED BY <2>3, <2>4, <3>1
    <2>8. ToSet(v) = ToSet(w)
      BY <2>6, <2>7
    <2>9. QED BY <2>1, <2>2, <2>8, SameRowsSameVerdict
  <1>4. QED BY <1>1, <1>2, <1>3, PTL DEF ToolsSpec

---------------------------------------------------------------------------
(* The tuning harness *)

\* The scores of the tuning harness can be compared.
ScoresAreNumbers == \A ips, cohesion, attackPaths : maxOR(ips, cohesion, attackPaths) \in Int

\* A path has a severity as soon as one pattern matches it.
LEMMA SeverestIs ==
    ASSUME NEW severities, severities \subseteq {"low", "medium", "high"}
    PROVE  Severest(severities) # "none" <=> severities # {}
  <1> DEFINE rank(s) == SEV_RANK[s]
             Tops(s) == s \in severities \cup {"none"} /\ \A t \in severities : rank(s) >= rank(t)
  <1>1. rank("none") = 0 /\ rank("low") = 1 /\ rank("medium") = 2 /\ rank("high") = 3
    BY DEF SEV_RANK
  <1>2. Severest(severities) = CHOOSE s \in severities \cup {"none"} :
                                         \A t \in severities : rank(s) >= rank(t)
    BY DEF Severest
  <1> HIDE DEF rank
  <1>3. \E s : Tops(s)
    <2>1. CASE "high" \in severities
      <3>1. Tops("high")
        BY <1>1, <2>1
      <3>2. QED BY <3>1
    <2>2. CASE "high" \notin severities /\ "medium" \in severities
      <3>1. Tops("medium")
        BY <1>1, <2>2
      <3>2. QED BY <3>1
    <2>3. CASE severities \subseteq {"low"} /\ severities # {}
      <3>1. \A t \in severities : t = "low"
        BY <2>3
      <3>2. "low" \in severities
        BY <2>3, <3>1
      <3>3. rank("low") >= rank("low")
        BY <1>1
      <3>4. Tops("low")
        BY <3>1, <3>2, <3>3
      <3>5. QED BY <3>4
    <2>4. CASE severities = {}
      <3>1. Tops("none")
        BY <2>4
      <3>2. QED BY <3>1
    <2>5. QED BY <2>1, <2>2, <2>3, <2>4
  <1>4. Tops(Severest(severities))
    BY <1>2, <1>3
  <1>5. ASSUME NEW t \in severities PROVE Severest(severities) # "none"
    <2>1. rank(t) >= 1 /\ rank(t) \in Nat
      BY <1>1
    <2>2. rank(Severest(severities)) >= rank(t)
      BY <1>4
    <2>3. QED BY <1>1, <2>1, <2>2
  <1>6. QED BY <1>4, <1>5

\* What the harness and the strategy call an attack path is the same.
LEMMA AttackPathIs ==
    ASSUME NEW route
    PROVE  pathSeverity(route) # "none" <=> isAttackPath(route)
  <1> DEFINE matching == {t \in PATH_THREATS : route \in t.matches}
             severities == {threat.severity : threat \in matching}
  <1>1. pathSeverity(route) = Severest(severities)
    BY DEF pathSeverity
  <1>2. severities \subseteq {"low", "medium", "high"}
    BY TuningAssumption DEF TuningAssumption
  <1>3. severities # {} <=> matching # {}
    OBVIOUS
  <1>4. matching # {} <=> isAttackPath(route)
    <2>1. isAttackPath(route) <=> route \in UNION {threat.matches : threat \in PATH_THREATS}
      BY TuningAssumption DEF TuningAssumption, isAttackPath
    <2>2. QED BY <2>1
  <1> HIDE DEF severities, matching
  <1>5. QED BY <1>1, <1>2, <1>3, <1>4, SeverestIs

\* The windows that the harness cuts are finitely many.
LEMMA StartsFinite ==
    ASSUME NEW threats, IsFiniteSet(threats), threats # {}, \A r \in threats : r.created_at \in Nat
    PROVE  IsFiniteSet(WindowStarts(threats)) /\ WindowStarts(threats) \subseteq Nat
  <1> DEFINE times == {r.created_at : r \in threats}
             at == [r \in threats |-> r.created_at]
             first == Start(threats)
             last == End(threats)
  <1>1. at \in Surjection(threats, times)
    BY DEF Surjection
  <1>2. IsFiniteSet(times) /\ times \subseteq Nat /\ times # {}
    BY <1>1, FS_Surjection
  <1>3. first = Min(times) /\ last = Max(times)
    BY DEF Start, End, Min, Max
  <1> HIDE DEF times, first, last
  <1>4. first \in Nat
    <2>1. Min(times) \in times
      <3>1. \E x \in times : \A y \in times : x <= y
        BY <1>2, LeastOf
      <3>2. QED BY <3>1 DEF Min
    <2>2. QED BY <1>2, <1>3, <2>1
  <1>5. last \in Nat
    BY <1>2, <1>3, GreatestMember
  <1>6. WindowStarts(threats) \in SUBSET (first..(last - 1))
    BY DEF WindowStarts, first, last
  <1>7. IsFiniteSet(first..(last - 1))
    BY <1>4, <1>5, FS_Interval
  <1>8. IsFiniteSet(WindowStarts(threats))
    BY <1>6, <1>7, FS_Subset
  <1>9. QED BY <1>4, <1>5, <1>6, <1>8

\* The window a /24 is judged by: one in which it qualifies, if there is any, and none
\* of the others scores more.
LEMMA BestWindowIs ==
    ASSUME ScoresAreNumbers, NEW threats, NEW subnet,
           IsFiniteSet(WindowStarts(threats)), WindowStarts(threats) \subseteq Nat
    PROVE  LET best == BestWindow(threats, subnet)
               qualifying == {t \in WindowStarts(threats) :
                                 Qualifies(Within(threats, subnet, t))} IN
           /\ best = << >> <=> qualifying = {}
           /\ best # << >> => \E t \in qualifying :
                 best[1] = ClusterOf(Within(threats, subnet, t), t)
           /\ \A t \in qualifying : Score(best[1])
                 >= Score(ClusterOf(Within(threats, subnet, t), t))
  <1> DEFINE S == WindowStarts(threats)
             n == Cardinality(S)
             begins == Ascending(S)
             Fits(t) == Qualifies(Within(threats, subnet, t))
             C(t) == ClusterOf(Within(threats, subnet, t), t)
             Wins(k, sofar) == IF Fits(begins[k]) /\ Better(C(begins[k]), sofar)
                               THEN <<C(begins[k])>> ELSE sofar
             Solves(f) == f = [k \in 0..n |-> IF k = 0 THEN << >> ELSE Wins(k, f[k - 1])]
             best == CHOOSE f : Solves(f)
             V == {<< >>} \cup {<<C(begins[k])>> : k \in 1..n}
             win == [k \in 1..n |-> [sofar \in V |-> Wins(k, sofar)]]
  <1>1. BestWindow(threats, subnet) = best[n]
    BY DEF BestWindow
  <1>2. n \in Nat /\ (\A k \in 1..n : begins[k] \in S) /\ \A t \in S : \E k \in 1..n : begins[k] = t
    <2>1. n = Cardinality(S) /\ begins = Ascending(S)
      OBVIOUS
    <2> HIDE DEF n, begins, S
    <2>2. QED BY <2>1, AscendingLists DEF S
  <1> HIDE DEF n, begins, C, Fits
  <1>3. \A k \in 1..n, sofar \in V : Wins(k, sofar) \in V
    OBVIOUS
  <1>4. << >> \in V
    OBVIOUS
  <1> HIDE DEF V, Wins
  <1>5. win \in [1..n -> [V -> V]]
    BY <1>3
  <1> HIDE DEF win
  <1>6. Solvable(n, V, << >>, win)
    BY <1>2, <1>4, <1>5, RecursionExists
  <1>7. PICK F \in [0..n -> V] : F[0] = << >> /\ \A k \in 1..n : F[k] = win[k][F[k - 1]]
    BY <1>6 DEF Solvable, Unfolds
  <1>8. Solves(F)
    <2>1. ASSUME NEW k \in 1..n PROVE F[k] = Wins(k, F[k - 1])
      <3>1. k - 1 \in 0..n
        BY <1>2
      <3>2. F[k - 1] \in V
        BY <3>1
      <3>3. QED BY <1>7, <3>2 DEF win
    <2>2. \A k \in 0..n : k = 0 \/ k \in 1..n
      BY <1>2
    <2>3. \A k \in 0..n : F[k] = IF k = 0 THEN << >> ELSE Wins(k, F[k - 1])
      BY <1>7, <2>1, <2>2
    <2>4. QED BY <2>3
  <1>9. Solves(best)
    <2> HIDE DEF Solves
    <2>1. QED BY <1>8
  <1> HIDE DEF best
  <1>10. best[0] = << >> /\ \A k \in 1..n : best[k] = Wins(k, best[k - 1])
    <2>1. \A k \in 0..n : best[k] = IF k = 0 THEN << >> ELSE Wins(k, best[k - 1])
      BY <1>9
    <2>2. 0 \in 0..n /\ \A k \in 1..n : k \in 0..n /\ k # 0
      BY <1>2
    <2>3. QED BY <2>1, <2>2
  <1> DEFINE Judged(k) ==
                 /\ \A j \in 1..k : Fits(begins[j]) => best[k] # << >>
                 /\ best[k] # << >> => \E j \in 1..k : Fits(begins[j]) /\ best[k] = <<C(begins[j])>>
                 /\ \A j \in 1..k : Fits(begins[j]) =>
                       Score(best[k][1]) >= Score(C(begins[j]))
             judged == {k \in 0..n : Judged(k)}
  <1>11. \A c : Score(c) \in Int
    BY DEF ScoresAreNumbers, Score
  <1>12. Judged(0)
    BY <1>10
  <1>13. ASSUME NEW k \in 1..n, Judged(k - 1) PROVE Judged(k)
    <2> DEFINE c == C(begins[k])
    <2>1. k \in Nat /\ k \in 1..k /\ \A j \in 1..k : j = k \/ j \in 1..(k - 1)
      BY <1>2
    <2>2. \A j \in 1..(k - 1) : j \in 1..k
      BY <1>2
    <2>3. CASE Fits(begins[k]) /\ Better(c, best[k - 1])
      <3>1. best[k] = <<c>>
        BY <1>10, <2>3 DEF Wins
      <3>2. best[k] # << >> /\ best[k][1] = c
        BY <3>1
      <3>3. ASSUME NEW j \in 1..(k - 1), Fits(begins[j])
            PROVE  Score(c) >= Score(C(begins[j]))
        <4>1. /\ best[k - 1] # << >>
              /\ Score(best[k - 1][1]) >= Score(C(begins[j]))
          BY <1>13, <3>3
        <4>2. Score(c) > Score(best[k - 1][1])
          BY <2>3, <4>1 DEF Better
        <4>3. QED BY <1>11, <4>1, <4>2
      <3>4. Score(c) >= Score(c)
        BY <1>11
      <3> HIDE DEF c
      <3>5. \A j \in 1..k : Fits(begins[j]) => Score(best[k][1]) >= Score(C(begins[j]))
        BY <2>1, <3>2, <3>3, <3>4 DEF c
      <3>6. QED BY <2>1, <2>3, <3>1, <3>2, <3>5 DEF c
    <2>4. CASE ~(Fits(begins[k]) /\ Better(c, best[k - 1]))
      <3>1. best[k] = best[k - 1]
        BY <1>10, <2>4 DEF Wins
      <3>2. ASSUME Fits(begins[k])
            PROVE  best[k] # << >> /\ Score(best[k][1]) >= Score(c)
        <4>1. best[k - 1] # << >> /\ ~(Score(c) > Score(best[k - 1][1]))
          BY <2>4, <3>2 DEF Better
        <4>2. QED BY <1>11, <3>1, <4>1
      <3>3. QED BY <1>13, <2>1, <2>2, <3>1, <3>2
    <2>5. QED BY <2>3, <2>4
  <1>14. Judged(n)
    <2> HIDE DEF Judged
    <2>1. 0 \in judged /\ \A k \in 1..n : k - 1 \in judged => k \in judged
      BY <1>2, <1>12, <1>13
    <2>2. n \in 0..n
      BY <1>2
    <2> HIDE DEF judged
    <2>3. n \in judged
      BY <1>2, <2>1, <2>2, StepByStep
    <2>4. QED BY <2>3 DEF judged
  <1> DEFINE qualifying == {t \in S : Fits(t)}
  <1>15. \A t \in qualifying : \E k \in 1..n : begins[k] = t /\ Fits(begins[k])
    BY <1>2
  <1>16. \A k \in 1..n : Fits(begins[k]) => begins[k] \in qualifying
    BY <1>2
  <1> HIDE DEF qualifying
  <1>17. /\ best[n] = << >> <=> qualifying = {}
         /\ best[n] # << >> => \E t \in qualifying : best[n][1] = C(t)
         /\ \A t \in qualifying : Score(best[n][1]) >= Score(C(t))
    <2>1. best[n] # << >> => \E t \in qualifying : best[n] = <<C(t)>>
      BY <1>14, <1>16
    <2>2. \A t \in qualifying : best[n] # << >> /\ Score(best[n][1]) >= Score(C(t))
      BY <1>14, <1>15
    <2>3. QED BY <2>1, <2>2
  <1>18. QED BY <1>1, <1>17 DEF qualifying, C, Fits

\* The requests of a /24 in a window.
Sprayers(window, subnet) ==
    {i \in DOMAIN window : SpraysFrom(window[i]) /\ SubnetOf[window[i].ip] = subnet}

\* What the strategy is given of a window, in whatever order it was loaded, is what the
\* harness has counted.
LEMMA GroupIsWithin ==
    ASSUME NEW read, NEW subnet, NEW t, NEW X, NEW window \in Seq(X),
           ToSet(window) = WindowFrom(read, t)
    PROVE  LET group == EntriesAt(window, Sprayers(window, subnet))
               seen == Within(Threats(read), subnet, t) IN
           ToSet(group) = seen /\ (seen # {} => group[1] \in seen)
  <1> DEFINE positions == Sprayers(window, subnet)
             group == EntriesAt(window, positions)
             seen == Within(Threats(read), subnet, t)
  <1>1. IsFiniteSet(positions) /\ positions \subseteq Nat
    <2>1. DOMAIN window = 1..Len(window) /\ Len(window) \in Nat
      OBVIOUS
    <2>2. IsFiniteSet(1..Len(window))
      BY <2>1, FS_Interval
    <2>3. positions \in SUBSET (1..Len(window))
      BY <2>1 DEF Sprayers
    <2>4. IsFiniteSet(positions)
      BY <2>2, <2>3, FS_Subset
    <2>5. QED BY <2>3, <2>4
  <1>2. group = EntriesAt(window, positions)
    OBVIOUS
  <1>3. {window[i] : i \in positions} = seen
    <2>1. ASSUME NEW i \in positions PROVE window[i] \in seen
      <3>1. window[i] \in ToSet(window) /\ SpraysFrom(window[i])
            /\ SubnetOf[window[i].ip] = subnet
        BY DEF Sprayers, ToSet
      <3>2. QED
        BY <3>1 DEF WindowFrom, Within, Threats, SpraysFrom
    <2>2. ASSUME NEW r \in seen PROVE \E i \in positions : window[i] = r
      <3>1. /\ r \in ToSet(window) /\ SpraysFrom(r) /\ SubnetOf[r.ip] = subnet
        BY DEF WindowFrom, Within, Threats, SpraysFrom
      <3>2. PICK i \in DOMAIN window : window[i] = r
        BY <3>1 DEF ToSet
      <3>3. QED BY <3>1, <3>2 DEF Sprayers
    <2> HIDE DEF positions, seen
    <2>3. QED BY <2>1, <2>2
  <1> HIDE DEF positions, seen, group
  <1>4. group \in Seq(seen) /\ Range(group) = seen
    BY <1>1, <1>2, <1>3, EntriesAtLists
  <1>5. ToSet(group) = seen
    BY <1>4 DEF Range, ToSet
  <1>6. seen # {} => group[1] \in seen
    <2>1. seen # {} => group # << >>
      BY <1>4 DEF Range
    <2>2. QED BY <1>4, <2>1
  <1>7. QED BY <1>5, <1>6 DEF group, seen, positions

\* Then it computes what the harness has listed.
LEMMA FiguresAreTheSame ==
    ASSUME NEW read, IsFiniteSet(read), NEW subnet, NEW t,
           Qualifies(Within(Threats(read), subnet, t)),
           NEW X, NEW window \in Seq(X), ToSet(window) = WindowFrom(read, t)
    PROVE  LET group == EntriesAt(window, Sprayers(window, subnet))
               cluster == ClusterOf(Within(Threats(read), subnet, t), t)
               figures == SprayFigures(compute(window), group) IN
           {r.asn : r \in ToSet(group)} = {group[1].asn} /\ group[1].asn # NoAsn =>
               IF cluster.unionSize < 2 THEN figures = NoScore
               ELSE figures = << cluster.cohesionAttack, cluster.distinctIps,
                                 cluster.attackPathCount, cluster.unionSize >>
  <1> DEFINE group == EntriesAt(window, Sprayers(window, subnet))
             seen == Within(Threats(read), subnet, t)
             ips == {r.ip : r \in seen}
             routes == RoutesIn(seen)
             attacks == AttackRoutes(seen)
             cluster == ClusterOf(seen, t)
             figures == SprayFigures(compute(window), group)
             asn == group[1].asn
  <1>1. ToSet(group) = seen /\ (seen # {} => group[1] \in seen)
    BY GroupIsWithin
  <1>2. SUFFICES ASSUME {r.asn : r \in ToSet(group)} = {asn}, asn # NoAsn
                 PROVE  IF cluster.unionSize < 2 THEN figures = NoScore
                        ELSE figures = << cluster.cohesionAttack, cluster.distinctIps,
                                          cluster.attackPathCount, cluster.unionSize >>
    OBVIOUS
  <1>3. attacks # {} /\ Cardinality(ips) >= MIN_IPS
    BY DEF Qualifies
  <1>4. seen # {}
    BY <1>3 DEF AttackRoutes, RoutesIn
  <1>5. /\ cluster.distinctIps = Cardinality(ips)
        /\ cluster.attackPathCount = Cardinality(attacks)
        /\ cluster.unionSize = Cardinality(routes)
        /\ cluster.cohesionAttack = averageOverlap(AttackSets(seen))
    BY DEF ClusterOf, averageJaccard
  <1>6. /\ seen \subseteq Threats(read) /\ seen \subseteq read
        /\ \A r \in seen : SubnetOf[r.ip] = subnet
    BY DEF Within, Threats
  <1>7. SubnetOf[group[1].ip] = subnet
    BY <1>1, <1>4, <1>6
  <1>8. \A r : r \in seen <=> /\ r \in ThreatsIn(window) /\ ~r.is_tor /\ r.asn = asn
                             /\ SubnetOf[r.ip] = subnet
    <2>1. \A r : r \in seen <=> r \in ThreatsIn(window) /\ ~r.is_tor /\ SubnetOf[r.ip] = subnet
      BY DEF ThreatsIn, WindowFrom, Within, Threats
    <2>2. \A r \in seen : r.asn = asn
      BY <1>1, <1>2
    <2> HIDE DEF seen, asn
    <2>3. QED BY <2>1, <2>2
  <1> HIDE DEF seen
  <1>9. TabsInFolder(window, asn, subnet) = AttackSets(seen)
    <2> DEFINE filed == {r \in ThreatsIn(window) :
                           ~r.is_tor /\ r.asn = asn /\ SubnetOf[r.ip] = subnet}
    <2>1. filed = seen
      BY <1>8
    <2>2. TabsInFolder(window, asn, subnet)
            = [ip \in IpsOf(filed) |->
                  {route \in RoutesOf(RequestsFrom(filed, ip)) : isAttackPath(route)}]
      BY DEF TabsInFolder
    <2> HIDE DEF filed, asn
    <2>3. IpsOf(seen) = ips
      BY DEF IpsOf
    <2>4. ASSUME NEW ip
          PROVE  {route \in RoutesOf(RequestsFrom(seen, ip)) : isAttackPath(route)}
                     = AttackRoutes({r \in seen : r.ip = ip})
      BY AttackPathIs
      DEF RoutesOf, RequestsFrom, AttackRoutes, RoutesIn
    <2>5. AttackSets(seen) = [ip \in ips |-> AttackRoutes({r \in seen : r.ip = ip})]
      BY DEF AttackSets
    <2> HIDE DEF ips
    <2>6. QED BY <2>1, <2>2, <2>3, <2>4, <2>5
  <1>10. /\ IpsOf(seen) = ips /\ RoutesOf(seen) = routes
         /\ {p \in RoutesOf(seen) : isAttackPath(p)} = attacks
    BY AttackPathIs DEF IpsOf, RoutesOf, RoutesIn, AttackRoutes
  <1>11. /\ ~(Cardinality(ips) < MinClusterIps) /\ ~(Cardinality(attacks) < 1)
    <2>1. IsFiniteSet(seen)
      BY <1>6, FS_Subset
    <2> DEFINE ip == [r \in seen |-> r.ip]
               route == [r \in seen |-> r.route]
    <2>2. ip \in Surjection(seen, ips) /\ route \in Surjection(seen, routes)
      BY DEF Surjection, RoutesIn
    <2>3. attacks \in SUBSET routes
      BY DEF AttackRoutes
    <2> HIDE DEF ips, routes, attacks, ip, route
    <2>5. IsFiniteSet(ips)
      BY <2>1, <2>2, FS_Surjection
    <2>6. IsFiniteSet(routes)
      BY <2>1, <2>2, FS_Surjection
    <2>7. IsFiniteSet(attacks)
      BY <2>3, <2>6, FS_Subset
    <2>8. Cardinality(ips) \in Nat /\ Cardinality(attacks) \in Nat
      BY <2>5, <2>7, FS_CardinalityType
    <2>9. Cardinality(attacks) # 0
      BY <1>3, <2>7, FS_EmptySet
    <2>10. QED BY <1>3, <2>8, <2>9, TuningAssumption DEF TuningAssumption
  <1> DEFINE members == ToSet(group)
  <1>12. members = seen
    BY <1>1
  <1>13. figures = IF \/ asn = NoAsn \/ Cardinality(IpsOf(members)) < MinClusterIps
                      \/ Cardinality({p \in RoutesOf(members) : isAttackPath(p)}) < 1
                      \/ Cardinality(RoutesOf(members)) < 2
                   THEN NoScore
                   ELSE << averageOverlap(TabsInFolder(window, asn, SubnetOf[group[1].ip])),
                           Cardinality(IpsOf(members)),
                           Cardinality({p \in RoutesOf(members) : isAttackPath(p)}),
                           Cardinality(RoutesOf(members)) >>
    <2>1. compute(window).requests = window
      BY DEF compute
    <2>2. QED BY <2>1 DEF SprayFigures, per_asn_subnet_cohesion
  <1> HIDE DEF ips, routes, attacks, members, cluster, figures, asn
  <1>14. figures = IF Cardinality(routes) < 2 THEN NoScore
                   ELSE << averageOverlap(AttackSets(seen)), Cardinality(ips),
                           Cardinality(attacks), Cardinality(routes) >>
    BY <1>2, <1>7, <1>9, <1>10, <1>11, <1>12, <1>13
  <1>15. QED BY <1>5, <1>14

\* What a run of the harness over a table lists.
ListedFor(read) ==
    IF Threats(read) = {} THEN << >> ELSE bestPerSubnet(Threats(read))

\* What was listed was computed from the table that was read.
TuneInv ==
    /\ log \subseteq Pool
    /\ tuning = NotTuned
       \/ (tuning.read \subseteq Pool /\ tuning.listed = ListedFor(tuning.read))

LEMMA TuneStep ==
    ASSUME TuneInv, [ToolsNext]_toolVars
    PROVE  TuneInv'
  <1>1. CASE Tune
    BY <1>1 DEF Tune, replayVars, TuneInv, ListedFor
  <1>2. CASE \E r \in Pool : Backfill(r) /\ UNCHANGED tuning
    BY <1>2 DEF Backfill, TuneInv
  <1>3. CASE UNCHANGED <<log, tuning>>
    BY <1>3 DEF TuneInv
  <1>4. QED
    BY <1>1, <1>2, <1>3
    DEF ToolsNext, ReplayNext, Replay, toolVars, replayVars

\* Of a table, the harness lists every /24 by the best window in which it qualifies.
LEMMA ListedIs ==
    ASSUME ScoresAreNumbers, NEW read, IsFiniteSet(read), \A r \in read : r.created_at \in Nat
    PROVE  LET listed == ListedFor(read)
               threats == Threats(read) IN
           /\ threats = {} => DOMAIN listed = {}
           /\ \A subnet \in DOMAIN listed : subnet \in {SubnetOf[r.ip] : r \in threats}
           /\ \A subnet \in {SubnetOf[r.ip] : r \in threats} :
                 LET qualifying == {t \in WindowStarts(threats) :
                                       Qualifies(Within(threats, subnet, t))} IN
                 /\ subnet \in DOMAIN listed <=> qualifying # {}
                 /\ subnet \in DOMAIN listed => \E t \in qualifying :
                       listed[subnet] = ClusterOf(Within(threats, subnet, t), t)
                 /\ \A t \in qualifying : Score(listed[subnet])
                       >= Score(ClusterOf(Within(threats, subnet, t), t))
  <1> DEFINE listed == ListedFor(read)
             threats == Threats(read)
             subnets == {SubnetOf[r.ip] : r \in threats}
  <1>1. CASE threats = {}
    BY <1>1 DEF ListedFor
  <1>2. CASE threats # {}
    <2>1. IsFiniteSet(threats) /\ \A r \in threats : r.created_at \in Nat
      <3>1. threats \in SUBSET read
        BY DEF Threats
      <3>2. IsFiniteSet(threats)
        BY <3>1, FS_Subset
      <3>3. QED BY <3>1, <3>2
    <2>2. IsFiniteSet(WindowStarts(threats)) /\ WindowStarts(threats) \subseteq Nat
      <3> HIDE DEF threats
      <3>1. QED BY <1>2, <2>1, StartsFinite
    <2>3. listed = [subnet \in {s \in subnets : BestWindow(threats, s) # << >>} |->
                       BestWindow(threats, subnet)[1]]
      BY <1>2 DEF ListedFor, bestPerSubnet
    <2> HIDE DEF threats, listed
    <2>4. ASSUME NEW subnet \in subnets
          PROVE  LET qualifying == {t \in WindowStarts(threats) :
                                       Qualifies(Within(threats, subnet, t))} IN
                 /\ subnet \in DOMAIN listed <=> qualifying # {}
                 /\ subnet \in DOMAIN listed => \E t \in qualifying :
                       listed[subnet] = ClusterOf(Within(threats, subnet, t), t)
                 /\ \A t \in qualifying : Score(listed[subnet])
                       >= Score(ClusterOf(Within(threats, subnet, t), t))
      <3> DEFINE best == BestWindow(threats, subnet)
                 qualifying == {t \in WindowStarts(threats) :
                                   Qualifies(Within(threats, subnet, t))}
      <3>1. /\ subnet \in DOMAIN listed <=> best # << >>
            /\ subnet \in DOMAIN listed => listed[subnet] = best[1]
        BY <2>3
      <3>2. /\ best = << >> <=> qualifying = {}
            /\ best # << >> => \E t \in qualifying :
                  best[1] = ClusterOf(Within(threats, subnet, t), t)
            /\ \A t \in qualifying : Score(best[1])
                  >= Score(ClusterOf(Within(threats, subnet, t), t))
        BY <2>2, BestWindowIs
      <3> HIDE DEF best, qualifying
      <3>3. /\ subnet \in DOMAIN listed <=> qualifying # {}
            /\ subnet \in DOMAIN listed => \E t \in qualifying :
                  listed[subnet] = ClusterOf(Within(threats, subnet, t), t)
            /\ \A t \in qualifying : Score(listed[subnet])
                  >= Score(ClusterOf(Within(threats, subnet, t), t))
        BY <3>1, <3>2
      <3>4. QED BY <3>3 DEF qualifying
    <2>5. DOMAIN listed \subseteq subnets
      BY <2>3
    <2>6. QED BY <1>2, <2>4, <2>5 DEF listed, threats
  <1>3. QED BY <1>1, <1>2

\* Whatever the table holds when the harness reads it: it lists a /24 exactly if that
\* qualifies in some window, judges it by the best one, and the strategy, given that
\* window in any order, computes the figures that are listed.
THEOREM TuningRight ==
    ASSUME ScoresAreNumbers
    PROVE  ToolsSpec => []TuningScoresWhatTheStrategySees
  <1>1. ToolsInit => TuneInv
    BY DEF ToolsInit, ReplayInit, TuneInv
  <1>2. TuneInv /\ [ToolsNext]_toolVars => TuneInv'
    BY TuneStep
  <1>3. TuneInv => TuningScoresWhatTheStrategySees
    <2> SUFFICES ASSUME TuneInv PROVE TuningScoresWhatTheStrategySees
      OBVIOUS
    <2> DEFINE read == tuning.read
               listed == tuning.listed
               threats == Threats(read)
    <2>1. read \subseteq Pool /\ listed = ListedFor(read)
      BY DEF TuneInv, ListedFor, NotTuned, Threats
    <2>2. IsFiniteSet(read) /\ \A r \in read : r.created_at \in Nat
      <3>1. IsFiniteSet(Pool) /\ \A r \in Pool : r.created_at \in Nat
        BY PoolAssumption DEF PoolAssumption, IsATable
      <3>2. read \in SUBSET Pool
        BY <2>1
      <3> HIDE DEF read
      <3>3. IsFiniteSet(read)
        BY <3>1, <3>2, FS_Subset
      <3>4. QED BY <3>1, <3>2, <3>3
    <2> HIDE DEF read, listed, threats
    <2>3. /\ threats = {} => DOMAIN listed = {}
          /\ \A subnet \in DOMAIN listed : subnet \in {SubnetOf[r.ip] : r \in threats}
          /\ \A subnet \in {SubnetOf[r.ip] : r \in threats} :
                LET qualifying == {t \in WindowStarts(threats) :
                                      Qualifies(Within(threats, subnet, t))} IN
                /\ subnet \in DOMAIN listed <=> qualifying # {}
                /\ subnet \in DOMAIN listed => \E t \in qualifying :
                      listed[subnet] = ClusterOf(Within(threats, subnet, t), t)
                /\ \A t \in qualifying : Score(listed[subnet])
                      >= Score(ClusterOf(Within(threats, subnet, t), t))
      BY <2>1, <2>2, ListedIs DEF threats
    <2>4. JudgedByTheirBestWindow
      BY <2>3 DEF JudgedByTheirBestWindow, Listed, threats, read, listed
    <2>5. ASSUME NEW subnet \in DOMAIN listed,
                 NEW window \in Orders(WindowFrom(read, listed[subnet].windowStart))
          PROVE  LET cluster == listed[subnet]
                     group == EntriesAt(window, Sprayers(window, subnet))
                     figures == SprayFigures(compute(window), group) IN
                 {r.asn : r \in ToSet(group)} = {group[1].asn} /\ group[1].asn # NoAsn =>
                    IF cluster.unionSize < 2 THEN figures = NoScore
                    ELSE figures = << cluster.cohesionAttack, cluster.distinctIps,
                                      cluster.attackPathCount, cluster.unionSize >>
      <3>1. PICK t \in WindowStarts(threats) :
                /\ Qualifies(Within(threats, subnet, t))
                /\ listed[subnet] = ClusterOf(Within(threats, subnet, t), t)
        BY <2>3, <2>5
      <3>2. listed[subnet].windowStart = t
        BY <3>1 DEF ClusterOf
      <3> DEFINE loaded == WindowFrom(read, t)
      <3>3. window \in Orders(loaded)
        BY <2>5, <3>2
      <3>4. IsFiniteSet(loaded) /\ \A r \in loaded : r.created_at \in Nat
        <4>1. loaded \in SUBSET read
          BY DEF WindowFrom
        <4> HIDE DEF loaded
        <4>2. IsFiniteSet(loaded)
          BY <2>2, <4>1, FS_Subset
        <4>3. QED BY <2>2, <4>1, <4>2
      <3> HIDE DEF loaded
      <3>5. window \in Seq(loaded) /\ ToSet(window) = loaded
        BY <3>3, <3>4, OrdersList
      <3>6. QED BY <2>2, <3>1, <3>5, FiguresAreTheSame DEF loaded, threats
    <2>6. QED
      BY <2>4, <2>5
      DEF TuningScoresWhatTheStrategySees, Listed, Sprayers, listed, read
  <1>4. QED BY <1>1, <1>2, <1>3, PTL DEF ToolsSpec
=============================================================================
