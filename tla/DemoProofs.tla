----------------------------- MODULE DemoProofs -----------------------------
(***************************************************************************)
(* Proofs about the demo's controller: a runner that lives is held, what   *)
(* is recorded of the end of a run is true, the latest run is closed, and  *)
(* the records of runs do not mix; and about what it launches: a run is    *)
(* protected as the demo shows, for any settings, environments and changes *)
(* of keys and files.                                                      *)
(***************************************************************************)
EXTENDS DemoController, Launch, TLAPS

Reader(n) == at[<<n, "reader">>]

-----------------------------------------------------------------------------
(* The parts of the inductive invariant *)

(* Runs not begun yet have neither runner nor reader; the record is of one  *)
(* that has begun.                                                         *)
NotBegun ==
  /\ \A n \in Run : n > launched => runner[n] = "none" /\ Reader(n) = "off"
  /\ runId <= launched

(* A reader follows a runner, and sweeps after its end.                     *)
ReadersFollow ==
  \A n \in Run :
     /\ Reader(n) \in {"off", "read"} => sweeps[n] = 0
     /\ Reader(n) \notin {"off", "read"} => runner[n] \in {"ok", "error"}

(* The run that is recorded, if it was started at all, is the one held; and *)
(* "stopping" is said of a run that was signalled.                         *)
HeldIsRecorded ==
  process # None =>
     /\ runId # None /\ runner[runId] # "none" => runId = process
     /\ status = "stopping" => process \in signalled

(* The latest run is held until its reader is done, and is the one recorded *)
(* unless the history was cleared.                                         *)
LatestIsHeld ==
  \A n \in Run :
     launched = n /\ Reader(n) # "off" =>
        /\ Reader(n) # "done" => process = n
        /\ runId = n \/ disk[n].status = "none"

Parts == /\ NotBegun /\ ReadersFollow /\ HeldIsRecorded /\ LatestIsHeld
         /\ RunnerIsHeld /\ EndsAreTrue /\ RunsAreClosed

DemoInv == TypeOK /\ Parts

-----------------------------------------------------------------------------
(* Runs, threads and calls as sets.                                        *)
LEMMA Sets ==
  /\ None \in RunOr0 /\ Run \subseteq RunOr0 /\ None \notin Run
  /\ \A n \in RunOr0 : n # None => n \in Run
  /\ RunOr0 \subseteq Int /\ MaxRun \in Int
  /\ \A n \in RunOr0 : n < MaxRun => n + 1 \in Run
  /\ \A n \in Run : <<n, "reader">> \in Thread /\ <<n, "monitor">> \in Thread
BY DemoAssumption DEF Run, RunOr0, None, Thread

(* What is recorded of a run stays a record, and mirroring a call does not  *)
(* touch its status.                                                       *)
LEMMA Records ==
  /\ NoCalls \in [Call -> RunOr0] /\ Absent \in RunRecord
  /\ \A r \in RunRecord, s \in {"none", "running"} \cup Closed :
        [r EXCEPT !.status = s] \in RunRecord /\ [r EXCEPT !.status = s].status = s
  /\ \A r \in RunRecord, m \in RunOr0 : \A id :
        /\ [r EXCEPT !.calls[id] = m] \in RunRecord
        /\ [r EXCEPT !.calls[id] = m].status = r.status
BY Sets DEF NoCalls, Absent, RunRecord

(* A status that closes a run is one of the three.                         *)
LEMMA ClosingClosed ==
  ASSUME NEW n \in Run, runner[n] \in {"ok", "error"}
  PROVE  Closing(n) \in Closed
BY DEF Closing, Closed

(* The values of the variables stay what they should be, and a reader       *)
(* sweeps no more often than it should.                                    *)
LEMMA TypeStep ==
  ASSUME TypeOK, NotBegun, ReadersFollow, [Next]_vars
  PROVE  TypeOK'
<1> USE Sets
<1>1. ASSUME Start(launched + 1) PROVE TypeOK'
  <2>1. launched + 1 \in Run
    BY <1>1 DEF Start, BeginRun, TypeOK
  <2>2. disk' \in [Run -> RunRecord]
    BY <1>1, <2>1, Records DEF Start, BeginRun, TypeOK
  <2>3. runner' \in [Run -> {"none", "alive", "serving", "ok", "error"}]
    BY <1>1, <2>1 DEF Start, Spawn, TypeOK
  <2>4. at' \in [Thread -> {"off", "read", "index", "known", "mirror", "store", "save", "done"}]
    BY <1>1, <2>1 DEF Start, Spawn, TypeOK
  <2>5. lingering' \in [Run -> SUBSET Run]
    BY <1>1, <2>1 DEF Start, BeginRun, TypeOK
  <2>6. QED
    BY <1>1, <2>1, <2>2, <2>3, <2>4, <2>5, Records
    DEF Start, BeginRun, Spawn, TypeOK, Status
<1>2. ASSUME StartFails(launched + 1) PROVE TypeOK'
  <2>1. launched + 1 \in Run
    BY <1>2 DEF StartFails, BeginRun, TypeOK
  <2>2. disk' \in [Run -> RunRecord]
    BY <1>2, <2>1, Records DEF StartFails, BeginRun, TypeOK
  <2>3. lingering' \in [Run -> SUBSET Run]
    BY <1>2, <2>1 DEF StartFails, BeginRun, TypeOK
  <2>4. QED
    BY <1>2, <2>1, <2>2, <2>3, Records
    DEF StartFails, BeginRun, TypeOK, Status, Closed, external, threads
<1>3. ASSUME Stop PROVE TypeOK'
  BY <1>3, DemoAssumption
  DEF Stop, TypeOK, external, memory, threads, Alive, Passed, Exists, ReadersFollow, Reader,
      NotBegun, Status, Closed
<1>4. ASSUME ClearHistory PROVE TypeOK'
  BY <1>4, Records DEF ClearHistory, TypeOK, external, threads
<1>5. ASSUME NEW n \in Run, NEW exit \in {"ok", "error"}, RunnerExits(n, exit) PROVE TypeOK'
  BY <1>5, DemoAssumption
  DEF RunnerExits, TypeOK, external, memory, threads, Alive, Passed, Exists, ReadersFollow,
      Reader, NotBegun, Status, Closed
<1>6. ASSUME NEW n \in Run, ProxyStarts(n) PROVE TypeOK'
  BY <1>6, DemoAssumption
  DEF ProxyStarts, TypeOK, external, memory, threads, Alive, Passed, Exists, ReadersFollow,
      Reader, NotBegun, Status, Closed
<1>7. ASSUME ProxyRecords PROVE TypeOK'
  BY <1>7, DemoAssumption
  DEF ProxyRecords, TypeOK, external, memory, threads, Alive, Passed, Exists, ReadersFollow,
      Reader, NotBegun, Status, Closed
<1>8. ASSUME ProxyEnds PROVE TypeOK'
  BY <1>8, DemoAssumption
  DEF ProxyEnds, TypeOK, external, memory, threads, Alive, Passed, Exists, ReadersFollow,
      Reader, NotBegun, Status, Closed
<1>9. ASSUME NEW n \in Run, ReadLine(n) PROVE TypeOK'
  BY <1>9, DemoAssumption
  DEF ReadLine, TypeOK, external, memory, threads, Alive, Passed, Exists, ReadersFollow,
      Reader, NotBegun, Status, Closed
<1>10. ASSUME NEW n \in Run, Sweep(n) PROVE TypeOK'
  <2>1. sweeps' \in [Run -> 0..Sweeps]
    <3>1. sweeps[n] \in 0..Sweeps /\ sweeps[n] + 1 \in 0..Sweeps
      BY <1>10, DemoAssumption DEF Sweep, Passed, TypeOK, ReadersFollow, Reader
    <3>2. QED
      BY <1>10, <3>1 DEF Sweep, TypeOK
  <2>2. QED
    BY <1>10, <2>1 DEF Sweep, Go, TypeOK, external, memory
<1>11. ASSUME NEW n \in Run, Close(n) PROVE TypeOK'
  <2>1. CASE process # n
    BY <1>11, <2>1 DEF Close, Go, TypeOK, external
  <2>2. CASE process = n
    <3>1. CloseCurrent(n) /\ status' \in Closed
      BY <1>11, <2>2, ClosingClosed DEF Close, CloseCurrent, Passed, ReadersFollow, Reader
    <3>2. disk' \in [Run -> RunRecord]
      BY <3>1, Records DEF CloseCurrent, Exists, TypeOK
    <3>3. QED
      BY <1>11, <3>1, <3>2 DEF Close, CloseCurrent, Go, TypeOK, Status, external
  <2>3. QED
    BY <2>1, <2>2
<1>12. ASSUME NEW n \in Run, MonitorPolls(n) PROVE TypeOK'
  BY <1>12, DemoAssumption
  DEF MonitorPolls, Go, TypeOK, external, memory, threads, Alive, Passed, Exists,
      ReadersFollow, Reader, NotBegun, Status, Closed
<1>13. ASSUME NEW t \in Thread, Mirror(t) PROVE TypeOK'
  <2>1. CASE MirrorIndex(t)
    <3>1. 1..made \subseteq Call
      BY DemoAssumption DEF TypeOK, Call
    <3>2. todo' \in [Thread -> SUBSET Call]
      BY <2>1, <3>1 DEF MirrorIndex, TypeOK
    <3>3. QED
      BY <2>1, <3>2 DEF MirrorIndex, Go, TypeOK, external, memory
  <2>2. CASE MirrorKnown(t)
    BY <2>2 DEF MirrorKnown, Go, TypeOK, external, memory
  <2>3. CASE MirrorFetch(t)
    BY <2>3 DEF MirrorFetch, Go, TypeOK, external, memory
  <2>4. CASE MirrorSkip(t)
    BY <2>4 DEF MirrorSkip, TypeOK, external, memory
  <2>5. CASE MirrorStore(t)
    BY <2>5 DEF MirrorStore, Go, TypeOK, external
  <2>6. CASE MirrorSave(t)
    <3>1. disk' \in [Run -> RunRecord]
      BY <2>6, Records DEF MirrorSave, Exists, TypeOK
    <3>2. QED
      BY <2>6, <3>1 DEF MirrorSave, Go, TypeOK, external, memory
  <2>7. QED
    BY <1>13, <2>1, <2>2, <2>3, <2>4, <2>5, <2>6 DEF Mirror
<1>14. ASSUME UNCHANGED vars PROVE TypeOK'
  BY <1>14, DemoAssumption
  DEF vars, TypeOK, external, memory, threads, Alive, Passed, Exists, ReadersFollow, Reader,
      NotBegun, Status, Closed
<1>20. QED
  BY <1>1, <1>2, <1>3, <1>4, <1>5, <1>6, <1>7, <1>8, <1>9, <1>10, <1>11, <1>12, <1>13, <1>14
  DEF Next, ReaderOf, MonitorOf

-----------------------------------------------------------------------------
(* A pass of mirroring goes from one place of a pass to another, keeps the  *)
(* status of every record, and touches nothing else the parts speak of.     *)
LEMMA MirrorMoves ==
  ASSUME TypeOK, NEW t \in Thread, Mirror(t)
  PROVE  /\ at[t] \notin {"off", "read", "done"}
         /\ \E label \in {"known", "mirror", "store", "save"} : at' = [at EXCEPT ![t] = label]
         /\ \A n \in Run : disk'[n].status = disk[n].status
         /\ UNCHANGED <<external, launched, process, status, runId, sweeps>>
<1> USE Sets
<1>1. CASE MirrorIndex(t)
  BY <1>1 DEF MirrorIndex, Go, external, memory
<1>2. CASE MirrorKnown(t)
  BY <1>2 DEF MirrorKnown, Go, external, memory
<1>3. CASE MirrorFetch(t)
  BY <1>3 DEF MirrorFetch, Go, external, memory
<1>4. CASE MirrorSkip(t)
  <2>1. at' = [at EXCEPT ![t] = "mirror"]
    BY <1>4 DEF MirrorSkip, TypeOK
  <2>2. QED
    BY <1>4, <2>1 DEF MirrorSkip, external, memory
<1>5. CASE MirrorStore(t)
  BY <1>5 DEF MirrorStore, Go, external
<1>6. CASE MirrorSave(t)
  <2>1. ASSUME NEW n \in Run PROVE disk'[n].status = disk[n].status
    BY <1>6, Records DEF MirrorSave, Exists, TypeOK
  <2>2. QED
    BY <1>6, <2>1 DEF MirrorSave, Go, external, memory
<1>7. QED
  BY <1>1, <1>2, <1>3, <1>4, <1>5, <1>6 DEF Mirror

(* The parts of the invariant keep each other, action by action.            *)
LEMMA PartsStep ==
  ASSUME DemoInv, [Next]_vars
  PROVE  Parts'
<1> USE Sets DEF DemoInv, Parts
<1>1. ASSUME Start(launched + 1) PROVE Parts'
  <2> DEFINE new == launched + 1
  <2>1. /\ new \in Run /\ new > launched /\ \A m \in Run : m > new => m > launched
        /\ runner[new] = "none" /\ Reader(new) = "off"
    BY <1>1 DEF Start, BeginRun, TypeOK, NotBegun
  <2>2. /\ ~Alive(process) /\ launched' = new /\ runId' = new
        /\ \A m \in Run : disk'[m].status = IF m = new THEN "running" ELSE disk[m].status
    BY <1>1, <2>1, Records DEF Start, BeginRun, TypeOK
  <2>3. /\ process' = new /\ status' = "starting" /\ signalled' = signalled /\ sweeps' = sweeps
        /\ \A m \in Run : /\ runner'[m] = IF m = new THEN "alive" ELSE runner[m]
                          /\ Reader(m)' = IF m = new THEN "read" ELSE Reader(m)
    BY <1>1, <2>1 DEF Start, Spawn, Reader, TypeOK
  <2>4. /\ process \in RunOr0
        /\ \A m \in Run : m # new /\ ~(m > launched) => new > m
    BY DEF TypeOK
  <2> HIDE DEF new
  <2>6. NotBegun'
    BY <2>1, <2>2, <2>3, <2>4 DEF NotBegun
  <2>7. ReadersFollow'
    BY <2>1, <2>2, <2>3, <2>4 DEF ReadersFollow
  <2>8. HeldIsRecorded'
    BY <2>1, <2>2, <2>3, <2>4 DEF HeldIsRecorded
  <2>9. LatestIsHeld'
    BY <2>1, <2>2, <2>3, <2>4 DEF LatestIsHeld, NotBegun
  <2>10. RunnerIsHeld'
    BY <2>1, <2>2, <2>3, <2>4 DEF RunnerIsHeld, Alive
  <2>11. EndsAreTrue'
    BY <2>1, <2>2, <2>3, <2>4 DEF EndsAreTrue, Closed, Reader
  <2>12. RunsAreClosed'
    BY <2>1, <2>2, <2>3, <2>4 DEF RunsAreClosed, NotBegun, Reader
  <2>13. QED
    BY <2>6, <2>7, <2>8, <2>9, <2>10, <2>11, <2>12
<1>2. ASSUME StartFails(launched + 1) PROVE Parts'
  <2> DEFINE new == launched + 1
  <2>1. /\ new \in Run /\ new > launched /\ \A m \in Run : m > new => m > launched
        /\ runner[new] = "none" /\ Reader(new) = "off"
    BY <1>2 DEF StartFails, BeginRun, TypeOK, NotBegun
  <2>2. /\ ~Alive(process) /\ launched' = new /\ runId' = new
        /\ \A m \in Run : disk'[m].status = IF m = new THEN "running" ELSE disk[m].status
    BY <1>2, <2>1, Records DEF StartFails, BeginRun, TypeOK
  <2>3. /\ UNCHANGED <<process, signalled, sweeps, runner>> /\ status' = "failed"
        /\ \A m \in Run : Reader(m)' = Reader(m)
    BY <1>2 DEF StartFails, external, threads, Reader
  <2>4. /\ process \in RunOr0
        /\ \A m \in Run : m # new /\ ~(m > launched) => new > m
    BY DEF TypeOK
  <2> HIDE DEF new
  <2>6. NotBegun'
    BY <2>1, <2>2, <2>3, <2>4 DEF NotBegun
  <2>7. ReadersFollow'
    BY <2>1, <2>2, <2>3, <2>4 DEF ReadersFollow
  <2>8. HeldIsRecorded'
    BY <2>1, <2>2, <2>3, <2>4 DEF HeldIsRecorded
  <2>9. LatestIsHeld'
    BY <2>1, <2>2, <2>3, <2>4 DEF LatestIsHeld, NotBegun
  <2>10. RunnerIsHeld'
    BY <2>1, <2>2, <2>3, <2>4 DEF RunnerIsHeld, Alive
  <2>11. EndsAreTrue'
    BY <2>1, <2>2, <2>3, <2>4 DEF EndsAreTrue, Closed, Reader
  <2>12. RunsAreClosed'
    BY <2>1, <2>2, <2>3, <2>4 DEF RunsAreClosed, NotBegun, Reader
  <2>13. QED
    BY <2>6, <2>7, <2>8, <2>9, <2>10, <2>11, <2>12
<1>3. ASSUME Stop PROVE Parts'
  BY <1>3
  DEF Stop, NotBegun, ReadersFollow, HeldIsRecorded, LatestIsHeld, RunnerIsHeld,
      EndsAreTrue, RunsAreClosed, Reader, TypeOK, Alive, external, memory, threads
<1>4. ASSUME ClearHistory PROVE Parts'
  <2>1. /\ UNCHANGED <<runner, signalled, launched, process, status, at, sweeps>>
        /\ runId' = None /\ \A m \in Run : disk'[m].status = "none"
    BY <1>4 DEF ClearHistory, Absent, external, threads
  <2>2. NotBegun'
    BY <2>1 DEF NotBegun, Reader, TypeOK, None, RunOr0
  <2>3. QED
    BY <2>1, <2>2
    DEF ReadersFollow, HeldIsRecorded, LatestIsHeld, RunnerIsHeld, EndsAreTrue,
        RunsAreClosed, Reader, Alive, Closed
<1>5. ASSUME NEW n \in Run, NEW exit \in {"ok", "error"}, RunnerExits(n, exit) PROVE Parts'
  BY <1>5
  DEF RunnerExits, NotBegun, ReadersFollow, HeldIsRecorded, LatestIsHeld, RunnerIsHeld,
      EndsAreTrue, RunsAreClosed, Reader, TypeOK, Alive, external, memory, threads
<1>6. ASSUME NEW n \in Run, ProxyStarts(n) PROVE Parts'
  BY <1>6
  DEF ProxyStarts, NotBegun, ReadersFollow, HeldIsRecorded, LatestIsHeld, RunnerIsHeld,
      EndsAreTrue, RunsAreClosed, Reader, TypeOK, Alive, external, memory, threads
<1>7. ASSUME ProxyRecords \/ ProxyEnds PROVE Parts'
  <2>1. UNCHANGED <<runner, signalled, memory, disk, threads>>
    BY <1>7 DEF ProxyRecords, ProxyEnds
  <2>2. QED
    BY <2>1
    DEF NotBegun, ReadersFollow, HeldIsRecorded, LatestIsHeld, RunnerIsHeld,
        EndsAreTrue, RunsAreClosed, Reader, Alive, memory, threads
<1>9. ASSUME NEW n \in Run, ReadLine(n) PROVE Parts'
  BY <1>9
  DEF ReadLine, NotBegun, ReadersFollow, HeldIsRecorded, LatestIsHeld, RunnerIsHeld,
      EndsAreTrue, RunsAreClosed, Reader, TypeOK, Alive, external, memory, threads
<1>10. ASSUME NEW n \in Run, Sweep(n) PROVE Parts'
  BY <1>10
  DEF Sweep, Passed, Go, NotBegun, ReadersFollow, HeldIsRecorded, LatestIsHeld,
      RunnerIsHeld, EndsAreTrue, RunsAreClosed, Reader, TypeOK, Alive, external, memory,
      threads
<1>11. ASSUME NEW n \in Run, Close(n) PROVE Parts'
  <2>1. /\ UNCHANGED <<runner, signalled, launched, runId, sweeps>>
        /\ Reader(n) = "mirror" /\ runner[n] \in {"ok", "error"}
        /\ \A m \in Run : Reader(m)' = IF m = n THEN "done" ELSE Reader(m)
    BY <1>11 DEF Close, Passed, Go, Reader, external, TypeOK, ReadersFollow
  <2>2. CASE process # n
    <3>1. UNCHANGED <<process, status, disk>>
      BY <1>11, <2>2 DEF Close
    <3>2. launched > n
      BY <2>1, <2>2 DEF LatestIsHeld, NotBegun, TypeOK
    <3>3. NotBegun' /\ ReadersFollow' /\ HeldIsRecorded' /\ LatestIsHeld' /\ RunnerIsHeld'
      BY <2>1, <3>1, <3>2
      DEF NotBegun, ReadersFollow, HeldIsRecorded, LatestIsHeld, RunnerIsHeld, Alive
    <3>4. EndsAreTrue' /\ RunsAreClosed'
      BY <2>1, <3>1, <3>2 DEF EndsAreTrue, RunsAreClosed, Reader
    <3>5. QED
      BY <3>3, <3>4
  <2>3. CASE process = n
    <3>1. CloseCurrent(n) /\ Closing(n) \in Closed
      BY <1>11, <2>1, <2>3, ClosingClosed DEF Close
    <3>2. /\ process' = None
          /\ \A m \in Run : disk'[m].status = IF m = runId /\ disk[m].status # "none"
                                               THEN Closing(n) ELSE disk[m].status
      BY <3>1, Records DEF CloseCurrent, Exists, TypeOK
    <3>3. /\ Closing(n) = "completed" => runner[n] = "ok"
          /\ Closing(n) = "failed" => runner[n] = "error"
          /\ Closing(n) = "stopped" => n \in signalled
      BY <2>1, <2>3 DEF Closing, HeldIsRecorded
    <3>4. NotBegun' /\ ReadersFollow' /\ HeldIsRecorded' /\ RunnerIsHeld'
      BY <2>1, <2>3, <3>2
      DEF NotBegun, ReadersFollow, HeldIsRecorded, RunnerIsHeld, Reader, Alive
    <3>5. LatestIsHeld' /\ RunsAreClosed'
      <4>1. launched = n \/ launched > n
        BY <2>1, <2>3 DEF NotBegun, TypeOK
      <4>2. launched = n => runId = n \/ disk[n].status = "none"
        BY <2>1 DEF LatestIsHeld
      <4>3. disk'[n].status = "none" \/ disk'[n].status \in Closed \/ launched > n
        BY <3>1, <3>2, <4>1, <4>2
      <4>4. LatestIsHeld'
        BY <2>1, <2>3, <3>2, <4>2 DEF LatestIsHeld
      <4>5. \A m \in Run : disk'[m].status = "running" => disk[m].status = "running"
        BY <3>1, <3>2 DEF Closed
      <4>6. RunsAreClosed'
        BY <2>1, <4>3, <4>5 DEF RunsAreClosed, Reader, Closed
      <4>7. QED
        BY <4>4, <4>6
    <3>6. EndsAreTrue'
      BY <2>1, <2>3, <3>1, <3>2, <3>3 DEF EndsAreTrue, HeldIsRecorded, Reader
    <3>7. QED
      BY <3>4, <3>5, <3>6
  <2>4. QED
    BY <2>2, <2>3
<1>12. ASSUME NEW n \in Run, MonitorPolls(n) PROVE Parts'
  BY <1>12
  DEF MonitorPolls, Go, NotBegun, ReadersFollow, HeldIsRecorded, LatestIsHeld, RunnerIsHeld,
      EndsAreTrue, RunsAreClosed, Reader, TypeOK, Alive, external, memory, threads
<1>13. ASSUME NEW t \in Thread, Mirror(t) PROVE Parts'
  <2>1. /\ at[t] \notin {"off", "read", "done"}
        /\ \A n \in Run : disk'[n].status = disk[n].status
        /\ UNCHANGED <<external, launched, process, status, runId, sweeps>>
    BY <1>13, MirrorMoves
  <2>2. \A n \in Run : \/ Reader(n)' = Reader(n)
                       \/ {Reader(n), Reader(n)'} \cap {"off", "read", "done"} = {}
    BY <1>13, MirrorMoves DEF Reader, TypeOK
  <2>3. NotBegun' /\ ReadersFollow' /\ HeldIsRecorded'
    BY <2>1, <2>2 DEF NotBegun, ReadersFollow, HeldIsRecorded, external
  <2>4. LatestIsHeld' /\ RunnerIsHeld'
    BY <2>1, <2>2 DEF LatestIsHeld, RunnerIsHeld, Alive, external
  <2>5. EndsAreTrue' /\ RunsAreClosed'
    BY <2>1, <2>2 DEF EndsAreTrue, RunsAreClosed, Reader, external
  <2>6. QED
    BY <2>3, <2>4, <2>5
<1>14. ASSUME UNCHANGED vars PROVE Parts'
  BY <1>14
  DEF vars, NotBegun, ReadersFollow, HeldIsRecorded, LatestIsHeld, RunnerIsHeld,
      EndsAreTrue, RunsAreClosed, Reader, Alive
<1>15. QED
  BY <1>1, <1>2, <1>3, <1>4, <1>5, <1>6, <1>7, <1>9, <1>10, <1>11, <1>12, <1>13, <1>14
  DEF Next, ReaderOf, MonitorOf

-----------------------------------------------------------------------------
(* The parts are inductive together.                                       *)
LEMMA DemoInvariant == Spec => []DemoInv
<1>1. Init => DemoInv
  <2> SUFFICES ASSUME Init PROVE DemoInv
    OBVIOUS
  <2>1. TypeOK
    <3>1. MaxCall \in Nat /\ 0 \in 0..MaxCall /\ 0 \in 0..Sweeps /\ 0 \in RunOr0
      BY DemoAssumption DEF RunOr0
    <3>2. QED
      BY <3>1, Sets, Records DEF Init, TypeOK, Status
  <2>2. NotBegun /\ ReadersFollow
    <3>1. runId <= launched
      BY DEF Init, None
    <3>2. QED
      BY <3>1, Sets DEF Init, NotBegun, ReadersFollow, Reader
  <2>3. HeldIsRecorded /\ LatestIsHeld /\ RunnerIsHeld
    BY Sets DEF Init, HeldIsRecorded, LatestIsHeld, RunnerIsHeld, Reader, Alive
  <2>4. EndsAreTrue /\ RunsAreClosed
    BY Sets DEF Init, EndsAreTrue, RunsAreClosed, Absent, Closed
  <2>5. QED
    BY <2>1, <2>2, <2>3, <2>4 DEF DemoInv, Parts
<1>2. DemoInv /\ [Next]_vars => DemoInv'
  BY TypeStep, PartsStep DEF DemoInv, Parts
<1>3. QED
  BY <1>1, <1>2, PTL DEF Spec

(* The values of the variables are what they should be: in particular, a    *)
(* reader sweeps the calls at most Sweeps times (_read_process).            *)
THEOREM DemoTypeCorrect == Spec => []TypeOK
BY DemoInvariant, PTL DEF DemoInv

(* However starts, failed starts, stops and the ends of runs fall, a runner *)
(* that lives is the one stop() would signal and start() refuses to join,   *)
(* although _process is let go by the readers of runs.                      *)
THEOREM RunnerStaysHeld == Spec => []RunnerIsHeld
BY DemoInvariant, PTL DEF DemoInv, Parts

(* The recorded end of a run that was started is that run's own: the reader *)
(* of an earlier run, still sweeping, never closes it, and neither the exit *)
(* nor the stop of another run is written into its record.                  *)
THEOREM EndsStayTrue == Spec => []EndsAreTrue
BY DemoInvariant, PTL DEF DemoInv, Parts

(* When its reader is done, the latest run is not left "running" on disk,   *)
(* whatever was cleared meanwhile.                                         *)
THEOREM RunsGetClosed == Spec => []RunsAreClosed
BY DemoInvariant, PTL DEF DemoInv, Parts

-----------------------------------------------------------------------------
(* Records of calls *)

(* A record of run m may be kept with those of run n.                       *)
MayJoin(m, n) == m \in {None, n} \cup lingering[n]

(* Only the latest run has a runner that lives or is recorded; the proxy's  *)
(* records and those the threads hold may join it, and what is about to be  *)
(* saved may join the run it is saved for.                                 *)
RecordsHeld ==
  /\ runId \in {None, launched}
  /\ \A n \in Run : Alive(n) => launched = n
  /\ \A n \in Run : n > launched =>
        disk[n].calls = NoCalls /\ at[<<n, "monitor">>] = "off"
  /\ launched = None => proxy = None /\ \A t \in Thread : held[t] = None
  /\ launched # None =>
        MayJoin(proxy, launched) /\ \A t \in Thread : MayJoin(held[t], launched)
  /\ \A t \in Thread : dir[t] # None =>
        at[t] = "save" /\ dir[t] <= launched /\ MayJoin(held[t], dir[t])

(* A begun run starts without records, and may be joined by whatever the    *)
(* proxy and the threads still hold.                                       *)
LEMMA BeginApart ==
  ASSUME DemoInv, RecordsHeld, RunsApart, BeginRun(launched + 1), mirrored' = NoCalls,
         UNCHANGED <<proxy, held, dir>>,
         \A n \in Run \ {launched + 1} : runner'[n] = runner[n],
         \A t \in Thread : t[1] # launched + 1 => at'[t] = at[t],
         at[<<launched + 1, "reader">>] = "off"
  PROVE  RecordsHeld' /\ RunsApart'
<1> USE Sets DEF DemoInv, Parts
<1> DEFINE new == launched + 1
<1>1. /\ new \in Run /\ new > launched /\ launched' = new /\ new # None /\ runId' = new
      /\ \A n \in Run : n > new => n > launched /\ n # new
      /\ \A n \in RunOr0 : n <= launched => n # new /\ n <= new
  <2>1. launched \in RunOr0 /\ launched < MaxRun /\ launched' = new /\ runId' = new
    BY DEF BeginRun, TypeOK
  <2>2. launched \in Int /\ new \in Run /\ Run \subseteq Int /\ RunOr0 \subseteq Int
    BY <2>1
  <2>3. /\ new > launched
        /\ \A n \in Int : /\ n > new => n > launched /\ n # new
                          /\ n <= launched => n # new /\ n <= new
    BY <2>2
  <2> HIDE DEF new
  <2> QED BY <2>1, <2>2, <2>3
<1>2. /\ \A n \in Run : disk'[n].calls = disk[n].calls
      /\ \A n \in Run \ {new} : disk'[n] = disk[n] /\ lingering'[n] = lingering[n]
      /\ lingering'[new] = {m \in Run : Lingers(m)}
  BY <1>1 DEF BeginRun, TypeOK, RunRecord
<1>3. /\ proxy \in RunOr0 /\ held \in [Thread -> RunOr0] /\ dir \in [Thread -> RunOr0]
      /\ launched \in RunOr0
  BY DEF TypeOK
<1> HIDE DEF new
<1>4. \A n \in Run \ {new} : ~Alive(n)'
  BY <1>1, <1>2 DEF BeginRun, RunnerIsHeld, Alive
<1>5. MayJoin(proxy, launched)' /\ \A t \in Thread : MayJoin(held[t], launched)'
  BY <1>1, <1>2, <1>3 DEF MayJoin, Lingers
<1>6. \A t \in Thread : dir[t] # None => /\ at[t] = "save" /\ dir[t] <= launched
                                         /\ MayJoin(held[t], dir[t])'
  <2> SUFFICES ASSUME NEW t \in Thread, dir[t] # None
               PROVE  /\ at[t] = "save" /\ dir[t] <= launched
                      /\ MayJoin(held[t], dir[t])'
    OBVIOUS
  <2>1. at[t] = "save" /\ dir[t] <= launched /\ MayJoin(held[t], dir[t]) /\ dir[t] \in Run
    BY <1>3 DEF RecordsHeld
  <2>2. lingering'[dir[t]] = lingering[dir[t]]
    BY <1>1, <1>2, <2>1
  <2> QED BY <2>1, <2>2 DEF MayJoin
<1>7. \A t \in Thread : at[t] = "save" => at'[t] = "save"
  <2> SUFFICES ASSUME NEW t \in Thread, at[t] = "save" PROVE at'[t] = "save"
    OBVIOUS
  <2>1. at[<<new, "reader">>] = "off" /\ at[<<new, "monitor">>] = "off"
    BY <1>1 DEF RecordsHeld, new
  <2>2. t[1] = new => t = <<new, "reader">> \/ t = <<new, "monitor">>
    BY DEF Thread
  <2>3. t[1] # new
    BY <2>1, <2>2
  <2> QED BY <2>3 DEF new
<1>8. \A n \in Run : n > new => at'[<<n, "monitor">>] = "off"
  <2> SUFFICES ASSUME NEW n \in Run, n > new PROVE at'[<<n, "monitor">>] = "off"
    OBVIOUS
  <2>1. n > launched /\ n # new
    BY <1>1
  <2>2. at[<<n, "monitor">>] = "off"
    BY <2>1 DEF RecordsHeld
  <2> QED BY <2>1, <2>2 DEF new
<1>9. RecordsHeld'
  <2>1. \A n \in Run : Alive(n)' => launched' = n
    BY <1>1, <1>4
  <2>2. \A n \in Run : n > new => disk'[n].calls = NoCalls /\ at'[<<n, "monitor">>] = "off"
    <3>1. ASSUME NEW n \in Run, n > new PROVE disk[n].calls = NoCalls
      <4>1. n > launched
        BY <1>1, <3>1
      <4> QED BY <4>1 DEF RecordsHeld
    <3> QED BY <1>2, <1>8, <3>1
  <2>3. \A t \in Thread : dir'[t] # None =>
          at'[t] = "save" /\ dir'[t] <= launched' /\ MayJoin(held[t], dir[t])'
    BY <1>1, <1>3, <1>6, <1>7
  <2> QED BY <1>1, <1>5, <2>1, <2>2, <2>3 DEF RecordsHeld
<1>10. RunsApart'
  <2>1. Range(mirrored') \subseteq {None}
    BY DEF NoCalls, Range
  <2>2. Range(disk'[new].calls) \subseteq {None}
    <3>1. disk'[new].calls = NoCalls
      BY <1>1, <1>2 DEF RecordsHeld
    <3> QED BY <3>1 DEF NoCalls, Range
  <2>3. ASSUME NEW n \in Run \ {new}, Exists(n)'
        PROVE  Range(disk'[n].calls) \subseteq {None, n} \cup lingering'[n]
    BY <1>2, <2>3 DEF RunsApart, Exists
  <2> QED BY <2>1, <2>2, <2>3 DEF RunsApart
<1> QED BY <1>9, <1>10

(* A thread that mirrors keeps what it takes apart.                         *)
LEMMA MirrorApart ==
  ASSUME DemoInv, RecordsHeld, RunsApart, NEW t \in Thread, Mirror(t)
  PROVE  RecordsHeld' /\ RunsApart'
<1> USE Sets DEF DemoInv, Parts
<1>1. /\ UNCHANGED <<runner, proxy, launched, process, lingering, runId>>
      /\ at[t] \notin {"off", "done"} /\ at \in [Thread -> {"off", "read", "index", "known",
                                               "mirror", "store", "save", "done"}]
      /\ held \in [Thread -> RunOr0] /\ dir \in [Thread -> RunOr0]
      /\ disk \in [Run -> RunRecord] /\ launched \in RunOr0
  BY DEF Mirror, MirrorIndex, MirrorKnown, MirrorFetch, MirrorSkip, MirrorStore, MirrorSave,
         external, memory, TypeOK
<1>2. /\ \A n \in Run : Alive(n)' <=> Alive(n)
      /\ \A m, n : MayJoin(m, n)' <=> MayJoin(m, n)
  BY <1>1 DEF Alive, MayJoin
<1>3. \A n \in Run : n > launched => at'[<<n, "monitor">>] = "off"
  <2> SUFFICES ASSUME NEW n \in Run, n > launched PROVE at'[<<n, "monitor">>] = "off"
    OBVIOUS
  <2>1. at[<<n, "monitor">>] = "off"
    BY DEF RecordsHeld
  <2>2. at' = at \/ \E label : at' = [at EXCEPT ![t] = label]
    BY DEF Mirror, MirrorIndex, MirrorKnown, MirrorFetch, MirrorSkip, MirrorStore, MirrorSave, Go
  <2> QED BY <1>1, <2>1, <2>2
<1>4. CASE MirrorIndex(t) \/ MirrorKnown(t) \/ MirrorSkip(t)
  <2>1. /\ UNCHANGED <<mirrored, disk, held, dir>> /\ at[t] # "save"
        /\ \A u \in Thread \ {t} : at'[u] = at[u]
    BY <1>1, <1>4 DEF MirrorIndex, MirrorKnown, MirrorSkip, Go, memory
  <2>2. RunsApart'
    BY <1>1, <2>1 DEF RunsApart, Exists
  <2> QED BY <1>1, <1>2, <1>3, <2>1, <2>2 DEF RecordsHeld
<1>5. CASE MirrorFetch(t)
  <2>1. /\ UNCHANGED <<mirrored, disk, dir>> /\ at[t] = "mirror"
        /\ held' = [held EXCEPT ![t] = proxy]
        /\ \A u \in Thread \ {t} : at'[u] = at[u]
    BY <1>1, <1>5 DEF MirrorFetch, Go, memory
  <2>2. RunsApart'
    BY <1>1, <2>1 DEF RunsApart, Exists
  <2>3. dir[t] = None /\ held'[t] = proxy /\ \A u \in Thread \ {t} : held'[u] = held[u]
    BY <1>1, <2>1 DEF RecordsHeld
  <2> QED BY <1>1, <1>2, <1>3, <2>1, <2>2, <2>3 DEF RecordsHeld
<1>6. CASE MirrorStore(t)
  <2>1. /\ UNCHANGED <<disk, held>> /\ dir' = [dir EXCEPT ![t] = runId]
        /\ at' = [at EXCEPT ![t] = "save"]
        /\ mirrored' = [mirrored EXCEPT ![Min(todo[t])] = held[t]]
    BY <1>1, <1>6 DEF MirrorStore, Go
  <2>2. runId <= launched /\ runId \in RunOr0
    BY DEF NotBegun, TypeOK
  <2>3. runId # None => runId = launched /\ launched # None
    BY DEF RecordsHeld
  <2>4. launched # None => Range(mirrored') \subseteq {None, launched} \cup lingering[launched]
    <3>1. Range(mirrored') \subseteq Range(mirrored) \cup {held[t]}
      BY <2>1 DEF Range
    <3> QED BY <3>1 DEF RunsApart, RecordsHeld, MayJoin, None
  <2>5. RunsApart'
    BY <1>1, <2>1, <2>4 DEF RunsApart, Exists, None
  <2>6. dir'[t] = runId /\ at'[t] = "save"
        /\ \A u \in Thread \ {t} : dir'[u] = dir[u] /\ at'[u] = at[u]
    BY <1>1, <2>1
  <2> QED BY <1>1, <1>2, <1>3, <2>1, <2>2, <2>3, <2>5, <2>6 DEF RecordsHeld
<1>7. CASE MirrorSave(t)
  <2>1. /\ UNCHANGED mirrored
        /\ held' = [held EXCEPT ![t] = None] /\ dir' = [dir EXCEPT ![t] = None]
        /\ at' = [at EXCEPT ![t] = "mirror"]
        /\ disk' = IF Exists(dir[t])
                   THEN [disk EXCEPT ![dir[t]].calls[Min(todo[t])] = held[t]] ELSE disk
    BY <1>1, <1>7 DEF MirrorSave, Go, memory
  <2>2. \A n \in Run : /\ disk'[n].status = disk[n].status
                       /\ n # dir[t] => disk'[n] = disk[n]
                       /\ n = dir[t] => \/ disk'[n] = disk[n]
                                        \/ /\ Exists(n)
                                           /\ disk'[n].calls =
                                                [disk[n].calls EXCEPT ![Min(todo[t])] = held[t]]
    BY <1>1, <2>1 DEF RunRecord, Exists
  <2>3. \A n \in Run : n > launched => disk'[n].calls = NoCalls
    <3> SUFFICES ASSUME NEW n \in Run, n > launched PROVE disk'[n].calls = NoCalls
      OBVIOUS
    <3>1. dir[t] # n
      BY <1>1 DEF RecordsHeld
    <3> QED BY <2>2, <3>1 DEF RecordsHeld
  <2>4. RunsApart'
    <3>1. ASSUME NEW n \in Run, Exists(n)'
          PROVE  Range(disk'[n].calls) \subseteq {None, n} \cup lingering[n]
      <4>1. Range(disk[n].calls) \subseteq {None, n} \cup lingering[n]
        BY <2>2, <3>1 DEF Exists, RunsApart
      <4>2. n = dir[t] => MayJoin(held[t], n)
        BY DEF RecordsHeld
      <4>3. n = dir[t] => Range(disk'[n].calls) \subseteq Range(disk[n].calls) \cup {held[t]}
        BY <2>2 DEF Range
      <4> QED BY <2>2, <4>1, <4>2, <4>3 DEF MayJoin
    <3> QED BY <1>1, <2>1, <3>1 DEF RunsApart
  <2> QED BY <1>1, <1>2, <1>3, <2>1, <2>3, <2>4 DEF RecordsHeld, MayJoin
<1> QED BY <1>4, <1>5, <1>6, <1>7 DEF Mirror

(* Every step keeps the records of runs apart.                              *)
LEMMA ApartStep ==
  ASSUME DemoInv, RecordsHeld, RunsApart, [Next]_vars
  PROVE  RecordsHeld' /\ RunsApart'
<1> USE Sets DEF DemoInv, Parts
<1>1. CASE Start(launched + 1) \/ StartFails(launched + 1)
  <2>1. /\ BeginRun(launched + 1) /\ mirrored' = NoCalls
        /\ UNCHANGED <<proxy, held, dir>>
        /\ runner' = runner \/ runner' = [runner EXCEPT ![launched + 1] = "alive"]
        /\ \/ at' = at
           \/ at' = [at EXCEPT ![<<launched + 1, "reader">>] = "read",
                              ![<<launched + 1, "monitor">>] = "mirror"]
    BY <1>1 DEF Start, StartFails, Spawn, external, threads
  <2>2. /\ \A n \in Run \ {launched + 1} : runner'[n] = runner[n]
        /\ \A t \in Thread : t[1] # launched + 1 => at'[t] = at[t]
    BY <2>1 DEF TypeOK, Thread
  <2>3. launched + 1 \in Run /\ launched + 1 > launched
    BY <2>1 DEF BeginRun, TypeOK
  <2>4. at[<<launched + 1, "reader">>] = "off"
    BY <2>3 DEF NotBegun, Reader
  <2> QED BY <2>1, <2>2, <2>4, BeginApart
<1>2. ASSUME NEW t \in Thread, Mirror(t)
      PROVE  RecordsHeld' /\ RunsApart'
  BY <1>2, MirrorApart
<1>3. CASE ClearHistory
  <2>1. /\ UNCHANGED <<runner, proxy, launched, mirrored, at, held, dir, lingering>>
        /\ runId' = None /\ \A n \in Run : disk'[n] = Absent
    BY <1>3 DEF ClearHistory, external, threads
  <2>2. RecordsHeld'
    BY <2>1 DEF RecordsHeld, Alive, MayJoin, Absent
  <2>3. RunsApart'
    <3>1. \A n \in Run : ~Exists(n)'
      BY <2>1 DEF Exists, Absent
    <3> QED BY <2>1, <3>1 DEF RunsApart
  <2> QED BY <2>2, <2>3
\* steps that take nothing and keep nothing
<1>4. ASSUME UNCHANGED <<proxy, launched, runId, mirrored, held, dir, lingering>>,
             \A n \in Run : Alive(n)' => Alive(n),
             \A n \in Run : disk'[n].calls = disk[n].calls /\ (Exists(n)' => Exists(n)),
             \A t \in Thread : /\ at[t] = "save" => at'[t] = "save"
                               /\ at[t] = "off" => at'[t] = "off"
      PROVE  RecordsHeld' /\ RunsApart'
  <2>1. RecordsHeld'
    BY <1>4 DEF RecordsHeld, MayJoin
  <2>2. RunsApart'
    BY <1>4 DEF RunsApart
  <2> QED BY <2>1, <2>2
<1>5. CASE Stop \/ UNCHANGED vars
  BY <1>4, <1>5 DEF Stop, vars, threads, Alive, Exists
<1>6. ASSUME NEW n \in Run, NEW exit \in {"ok", "error"}, RunnerExits(n, exit)
      PROVE  RecordsHeld' /\ RunsApart'
  <2>1. runner' = [runner EXCEPT ![n] = exit]
        /\ UNCHANGED <<proxy, launched, runId, mirrored, held, dir, lingering, disk, at>>
    BY <1>6 DEF RunnerExits, memory, threads
  <2>2. \A m \in Run : Alive(m)' => Alive(m)
    BY <2>1 DEF Alive, TypeOK
  <2> QED BY <1>4, <2>1, <2>2 DEF Exists
<1>7. ASSUME NEW n \in Run, ReadLine(n) \/ Sweep(n) \/ MonitorPolls(n) \/ Close(n)
      PROVE  RecordsHeld' /\ RunsApart'
  <2>1. UNCHANGED <<runner, proxy, launched, runId, mirrored, held, dir, lingering>>
    BY <1>7 DEF ReadLine, Sweep, MonitorPolls, Close, external, memory, threads
  <2>2. \A t \in Thread : /\ at[t] = "save" => at'[t] = "save"
                          /\ at[t] = "off" => at'[t] = "off"
    BY <1>7 DEF ReadLine, Sweep, MonitorPolls, Close, Go, Passed, threads, TypeOK
  <2>3. \A m \in Run : disk'[m].calls = disk[m].calls /\ (Exists(m)' => Exists(m))
    <3>1. disk' = disk \/ (Exists(runId) /\ disk' = [disk EXCEPT ![runId].status = status'])
      BY <1>7 DEF ReadLine, Sweep, MonitorPolls, Close, CloseCurrent, memory, threads
    <3> QED BY <3>1 DEF Exists, TypeOK, RunRecord
  <2> QED BY <1>4, <2>1, <2>2, <2>3 DEF Alive
\* the proxy
<1>8. ASSUME NEW n \in Run, ProxyStarts(n)
      PROVE  RecordsHeld' /\ RunsApart'
  <2>1. /\ UNCHANGED <<launched, runId, mirrored, held, dir, lingering, disk, at>>
        /\ Alive(n) /\ proxy' = n /\ runner' = [runner EXCEPT ![n] = "serving"]
    BY <1>8 DEF ProxyStarts, memory, threads, Alive
  <2>2. \A m \in Run : Alive(m)' => Alive(m)
    BY <2>1 DEF Alive, TypeOK
  <2>3. launched = n
    BY <2>1 DEF RecordsHeld
  <2>4. RecordsHeld'
    BY <2>1, <2>2, <2>3 DEF RecordsHeld, MayJoin
  <2> QED BY <2>1, <2>4 DEF RunsApart, Exists
<1>9. CASE ProxyRecords \/ ProxyEnds
  <2>1. /\ UNCHANGED <<runner, launched, runId, mirrored, held, dir, lingering, disk, at>>
        /\ proxy' \in {proxy, None}
    BY <1>9 DEF ProxyRecords, ProxyEnds, memory, threads
  <2>2. RecordsHeld'
    BY <2>1 DEF RecordsHeld, MayJoin, Alive
  <2> QED BY <2>1, <2>2 DEF RunsApart, Exists
<1> QED BY <1>1, <1>2, <1>3, <1>5, <1>6, <1>7, <1>8, <1>9 DEF Next, ReaderOf, MonitorOf

(* The history holds what each run did and that it ended: no record of a    *)
(* call is kept with those of another run, in memory or on disk, unless the *)
(* proxy or a thread still had it when that run began, for any number of   *)
(* runs and calls, and whichever threads are answered.                     *)
THEOREM RunsStayRecorded == Spec => []RunsRecorded
<1>1. Init => RecordsHeld /\ RunsApart
  <2> SUFFICES ASSUME Init PROVE RecordsHeld /\ RunsApart
    OBVIOUS
  <2>1. RecordsHeld
    <3>1. /\ runId = None /\ launched = None /\ proxy = None
          /\ \A n \in Run : ~Alive(n) /\ disk[n].calls = NoCalls
          /\ \A n \in Run : at[<<n, "monitor">>] = "off"
          /\ \A t \in Thread : held[t] = None /\ dir[t] = None
      BY Sets DEF Init, Alive, Absent, None
    <3> QED BY <3>1 DEF RecordsHeld
  <2>2. RunsApart
    BY DEF Init, RunsApart, Exists, Absent
  <2> QED BY <2>1, <2>2
<1>2. DemoInv /\ RecordsHeld /\ RunsApart /\ [Next]_vars => RecordsHeld' /\ RunsApart'
  BY ApartStep
<1>3. DemoInv /\ RunsApart => RunsRecorded
  BY DEF DemoInv, Parts, RunsRecorded
<1> QED BY <1>1, <1>2, <1>3, DemoInvariant, PTL DEF Spec

-----------------------------------------------------------------------------
(* The launch of a run.  What the demo told the script still holds of the   *)
(* environment of the run, word by word, until the run ends.               *)

Phases == {"none", "script", "proxy", "serving", "agent"}

(* The state has the shape the code gives it, and the words of a run's      *)
(* switches are those of its environment.                                  *)
LaunchTypeOK ==
  /\ settings \in Selectable /\ policy \in Policies \cup {"file"} /\ inherited \in Inherited
  /\ installed \subseteq Files /\ stored \subseteq {"holo_cli", "project"}
  /\ changes \in 0..MaxChanges
  /\ run = [phase |-> run.phase, by |-> run.by, env |-> run.env, args |-> run.args,
            key |-> run.key, refusal |-> run.refusal]
  /\ run.phase \in Phases /\ run.refusal \in Reasons \cup {Nothing}
  /\ run.by \in {Nothing, "demo", "hand"}
  /\ sent \in Bodies \cup {Nothing}
  /\ captured = Nothing \/ captured \in [grammar : {Nothing, "actions"}]

Keys == {Nothing, "environment", "holo_cli", "project"}

(* What a launch by the demo is given, with the key that was there.        *)
DemoEnv(key) ==
  Over(Exported(settings),
       IF key = Nothing THEN inherited ELSE Over([v \in {"key"} |-> key], inherited))

(* The environment of a run under way is the demo's, of the settings that   *)
(* still hold, or that of a launch by hand.                                *)
Origin ==
  run.phase # "none" =>
    \/ /\ run.by = "demo"
       /\ \E key \in Keys :
            /\ run.env = DemoEnv(key)
            /\ settings.source # "auto" => key \in {Nothing, settings.source}
    \/ run.by = "hand" /\ run.env \in ByHand

(* What the script has read, and what the proxy has found in order.        *)
Read ==
  run.phase \in {"proxy", "serving", "agent"} =>
    run.args = Arguments(run.env) /\ ~OddWord(run.env) /\ ~Conflict(run.env)

Paid ==
  Serving =>
    /\ Combined(run.args)
    /\ run.args.source # "auto" => run.key = run.args.source

OnlyWhileServed == sent # Nothing => run.phase = "agent"

LaunchInv ==
  LaunchTypeOK /\ Origin /\ Read /\ Paid /\ OnlyWhileServed /\ NothingRaw /\ AcceptedIsStarted

-----------------------------------------------------------------------------
(* Words *)

LEMMA TellsWhatIsChosen ==
  ASSUME NEW key, NEW v \in Variables, NEW d
  PROVE  Word(DemoEnv(key), v, d) = Told(settings, v)
BY DEF DemoEnv, Over, Word, Exported

LEMMA LeavesTheRest ==
  ASSUME NEW key, NEW v, v \notin Variables, v # "key", NEW d
  PROVE  Word(DemoEnv(key), v, d) = Word(inherited, v, d)
BY DEF DemoEnv, Over, Word, Exported

LEMMA KeyOfDemo ==
  ASSUME NEW key, inherited \in Inherited
  PROVE  Word(DemoEnv(key), "key", Nothing) \in {Nothing, "environment", key}
BY LaunchAssumption DEF DemoEnv, Over, Word, Exported, Variables, Features, Environment

LEMMA WordsOfDemo ==
  ASSUME NEW key, settings \in Selectable, inherited \in Inherited,
         NEW v \in OnOff
  PROVE  \A d : Word(DemoEnv(key), v, d) \in {"on", "off", "odd", d}
<1> SUFFICES ASSUME NEW d PROVE Word(DemoEnv(key), v, d) \in {"on", "off", "odd", d}
  OBVIOUS
<1>1. CASE v \in Variables
  <2>1. Told(settings, v) \in {"on", "off"}
    BY <1>1 DEF Told, Switch, OnOff, Variables, Features, Selectable
  <2> QED
    BY <1>1, <2>1, TellsWhatIsChosen
<1>2. CASE v \notin Variables
  <2>1. v # "key"
    BY DEF OnOff, Features
  <2> QED
    BY <1>2, <2>1, LeavesTheRest, LaunchAssumption DEF Word, Environment
<1> QED
  BY <1>1, <1>2

(* The key a source resolves to is its own, whatever the machine holds.    *)
LEMMA ResolvesToItself ==
  ASSUME NEW source, source # "auto", NEW env,
         source = "environment" => Word(env, "key", Nothing) \in {Nothing, "environment"}
  PROVE  Resolve(source, env) \in {Nothing, source}
<1> DEFINE having == {i \in DOMAIN Layers : /\ source \in {"auto", Layers[i]}
                                            /\ Present(Layers[i], env) # Nothing}
<1>1. CASE having = {}
  BY <1>1 DEF Resolve
<1>2. CASE having # {}
  <2>1. PICK i \in having : TRUE
    BY <1>2
  <2>2. \A j \in having : j = i
    BY <2>1 DEF Layers
  <2>3. having = {i} /\ i \in Nat
    BY <2>1, <2>2 DEF Layers
  <2>4. Min(having) = i
    BY <2>3 DEF Min
  <2>5. Resolve(source, env) = Present(Layers[i], env) /\ Layers[i] = source
    BY <2>1, <2>4, <1>2 DEF Resolve
  <2> QED
    BY <2>5 DEF Present
<1> QED
  BY <1>1, <1>2

LEMMA ResolvesToAKey ==
  ASSUME NEW source, NEW env, Word(env, "key", Nothing) \in {Nothing, "environment"}
  PROVE  Resolve(source, env) \in Keys
<1> DEFINE having == {i \in DOMAIN Layers : /\ source \in {"auto", Layers[i]}
                                            /\ Present(Layers[i], env) # Nothing}
<1>1. CASE having = {}
  BY <1>1 DEF Resolve, Keys
<1>2. CASE having # {}
  <2>1. \A i \in DOMAIN Layers : Present(Layers[i], env) \in Keys
    BY DEF Present, Layers, Keys
  <2>2. Min(having) \in having
    <3>1. \E i \in having : \A j \in having : i <= j
      BY <1>2 DEF Layers
    <3> HIDE DEF having
    <3> QED
      BY <3>1 DEF Min
  <2> QED
    BY <1>2, <2>1, <2>2 DEF Resolve
<1> QED
  BY <1>1, <1>2

(* Every switch that was read is on or off.                                *)
LEMMA SwitchesAreRead ==
  ASSUME LaunchTypeOK, Origin, Read, run.phase \in {"proxy", "serving", "agent"},
         NEW v \in Switches(run.env) \cap OnOff, NEW d \in {"on", "off"}
  PROVE  Word(run.env, v, d) \in {"on", "off"}
<1>1. Word(run.env, v, d) \in {"on", "off", "odd"}
  <2>1. CASE run.by = "hand" /\ run.env \in ByHand
    BY <2>1, LaunchAssumption DEF Word, Environment
  <2>2. CASE \E key \in Keys : run.env = DemoEnv(key)
    <3>1. PICK key \in Keys : run.env = DemoEnv(key)
      BY <2>2
    <3> QED
      BY <3>1, WordsOfDemo DEF LaunchTypeOK
  <2> QED
    BY <2>1, <2>2 DEF Origin
<1>2. Word(run.env, v, "off") # "odd"
  BY DEF Read, OddWord
<1> QED
  BY <1>1, <1>2 DEF Word

-----------------------------------------------------------------------------
(* The invariant holds at first. *)

LEMMA LaunchInitInv == LaunchInit => LaunchInv
<1> SUFFICES ASSUME LaunchInit PROVE LaunchInv
  OBVIOUS
<1> USE DEF LaunchInit
<1>1. LaunchTypeOK
  <2>1. settings \in Selectable
    BY DEF DefaultSettings, Selectable, Features
  <2>2. run = [phase |-> run.phase, by |-> run.by, env |-> run.env, args |-> run.args,
               key |-> run.key, refusal |-> run.refusal]
    BY DEF NoRun
  <2>3. /\ run.phase \in Phases /\ run.refusal \in Reasons \cup {Nothing}
        /\ run.by \in {Nothing, "demo", "hand"}
    BY DEF NoRun, Phases
  <2> QED
    BY <2>1, <2>2, <2>3, LaunchAssumption DEF LaunchTypeOK
<1>2. run.phase = "none" /\ run.refusal = Nothing
  BY DEF NoRun
<1>3. Origin /\ Read /\ Paid /\ OnlyWhileServed /\ NothingRaw /\ AcceptedIsStarted
  BY <1>2 DEF Origin, Read, Paid, Serving, OnlyWhileServed, NothingRaw, AcceptedIsStarted
<1> QED
  BY <1>1, <1>3 DEF LaunchInv

(* The settings are changed only between the demo's runs.                  *)
LEMMA DemoKeepsInv ==
  ASSUME LaunchInv,
         \/ \E s \in Settings : SetSettings(s)
         \/ \E p \in Policies : SetPolicy(p)
         \/ ConnectHoloCli
  PROVE  LaunchInv'
<1>1. /\ Idle
      /\ settings' \in Selectable /\ policy' \in Policies \cup {"file"}
      /\ UNCHANGED <<inherited, installed, stored, changes, run, sent, captured>>
  <2>1. CASE \E s \in Settings : SetSettings(s)
    BY <2>1, LaunchAssumption DEF SetSettings, LaunchInv, LaunchTypeOK
  <2>2. CASE \E p \in Policies : SetPolicy(p)
    BY <2>2 DEF SetPolicy, LaunchInv, LaunchTypeOK
  <2>3. CASE ConnectHoloCli
    <3>1. [settings EXCEPT !.source = "auto"] \in Selectable
      BY DEF LaunchInv, LaunchTypeOK, Selectable
    <3> QED
      BY <2>3, <3>1 DEF ConnectHoloCli, LaunchInv, LaunchTypeOK
  <2> QED
    BY <2>1, <2>2, <2>3
<1>2. LaunchTypeOK'
  BY <1>1 DEF LaunchInv, LaunchTypeOK
<1>3. Origin'
  BY <1>1 DEF LaunchInv, Origin, Idle
<1>4. (Read /\ Paid /\ OnlyWhileServed /\ NothingRaw /\ AcceptedIsStarted)'
  BY <1>1 DEF LaunchInv, Read, Paid, Serving, OnlyWhileServed, NothingRaw, Asks,
              AcceptedIsStarted
<1> QED
  BY <1>2, <1>3, <1>4 DEF LaunchInv

(* Keys and files come and go without touching a run.                      *)
LEMMA MachineKeepsInv ==
  ASSUME LaunchInv,
         \/ \E f \in Files : ChangeFile(f)
         \/ \E layer \in {"holo_cli", "project"} : ChangeKey(layer)
  PROVE  LaunchInv'
<1>1. /\ installed' \subseteq Files /\ stored' \subseteq {"holo_cli", "project"}
      /\ UNCHANGED <<settings, policy, inherited, run, sent, captured>>
  BY DEF ChangeFile, ChangeKey, SymDiff, LaunchInv, LaunchTypeOK
<1>2. changes' \in 0..MaxChanges
  <2>1. changes < MaxChanges /\ changes' = changes + 1
    BY DEF ChangeFile, ChangeKey
  <2>2. changes \in 0..MaxChanges /\ MaxChanges \in Nat
    BY LaunchAssumption DEF LaunchInv, LaunchTypeOK
  <2> QED
    BY <2>1, <2>2
<1>3. LaunchTypeOK'
  BY <1>1, <1>2 DEF LaunchInv, LaunchTypeOK
<1>4. Origin'
  <2>1. \A key : DemoEnv(key)' = DemoEnv(key)
    BY <1>1 DEF DemoEnv, Over, Exported, Told
  <2> QED
    BY <1>1, <2>1 DEF LaunchInv, Origin
<1>5. (Read /\ Paid /\ OnlyWhileServed /\ NothingRaw /\ AcceptedIsStarted)'
  BY <1>1 DEF LaunchInv, Read, Paid, Serving, OnlyWhileServed, NothingRaw, Asks,
              AcceptedIsStarted
<1> QED
  BY <1>3, <1>4, <1>5 DEF LaunchInv

-----------------------------------------------------------------------------
(* What the demo exports is in order. *)

LEMMA LeavesOut ==
  ASSUME DOMAIN inherited \subseteq {"key"}, NEW key, NEW v, v \notin Variables, v # "key"
  PROVE  v \notin DOMAIN DemoEnv(key) /\ \A d : Word(DemoEnv(key), v, d) = d
BY DEF DemoEnv, Over, Word, Exported

LEMMA DemoIsInOrder ==
  ASSUME LaunchTypeOK, DOMAIN inherited \subseteq {"key"}, NEW key
  PROVE  /\ ~OddWord(DemoEnv(key)) /\ ~Conflict(DemoEnv(key))
         /\ Combined(Arguments(DemoEnv(key)))
         /\ Arguments(DemoEnv(key)).hook = "none" /\ ~Arguments(DemoEnv(key)).image
         /\ Arguments(DemoEnv(key)).policy # "odd"
<1> DEFINE env == DemoEnv(key)
<1>1. \A v \in Variables : \A d : Word(env, v, d) = Told(settings, v)
  BY TellsWhatIsChosen
<1>2. \A v : v \notin Variables /\ v # "key" => v \notin DOMAIN env /\ \A d : Word(env, v, d) = d
  BY LeavesOut
<1> HIDE DEF env
<1>3. \A d : /\ Word(env, "audit", d) = d /\ Word(env, "tools_skill", d) = d
            /\ Word(env, "hook", d) = d
  BY <1>2 DEF Variables, Features
<1>4. "image" \notin DOMAIN env
  BY <1>2 DEF Variables, Features
<1>5. \A d : /\ Word(env, "tools", d) \in {"on", "off"}
            /\ Word(env, "redact", d) = Switch(settings.plva)
            /\ Word(env, "privacy", d) = Switch(settings.plva)
            /\ Word(env, "engine", d) = "vision"
            /\ Word(env, "detector", d) # "odd" /\ Word(env, "semantic", d) # "odd"
            /\ Word(env, "policy", d) = policy
  <2>1. {"tools", "redact", "privacy", "engine", "detector", "semantic", "policy"} \subseteq Variables
    BY DEF Variables
  <2>2. /\ Told(settings, "tools") \in {"on", "off"}
        /\ Told(settings, "redact") = Switch(settings.plva)
        /\ Told(settings, "privacy") = Switch(settings.plva)
        /\ Told(settings, "engine") = "vision"
        /\ Told(settings, "policy") = policy
    BY DEF Told, Features, Switch
  <2>3. Told(settings, "detector") # "odd" /\ Told(settings, "semantic") # "odd"
    BY DEF Told, Features, LaunchTypeOK, Selectable
  <2> QED
    BY <1>1, <2>1, <2>2, <2>3
<1>6. \A v \in Switches(env) : Word(env, v, "off") # "odd"
  <2> SUFFICES ASSUME NEW v \in Switches(env) PROVE Word(env, v, "off") # "odd"
    OBVIOUS
  <2>1. CASE v \in {"audit", "tools_skill"}
    BY <2>1, <1>3
  <2>2. CASE v \in {"redact", "skill", "tools", "privacy", "visual"} \cup Features
    <3>1. v \in Variables
      BY <2>2 DEF Variables
    <3>2. Told(settings, v) \in {"on", "off"}
      BY <2>2 DEF Told, Switch, Features
    <3> QED
      BY <1>1, <3>1, <3>2
  <2> QED
    BY <2>1, <2>2 DEF Switches
<1>7. ~OddWord(env)
  BY <1>5, <1>6 DEF OddWord
<1>8. ~Conflict(env)
  BY <1>3, <1>5 DEF Conflict, TeachesTools, Tools
<1>9. Combined(Arguments(env))
  <2>1. /\ Arguments(env).hook = "none" /\ Arguments(env).engine = "vision"
        /\ Arguments(env).redact = Redacts(env) /\ Arguments(env).privacy = Private(env)
    BY <1>3, <1>5 DEF Arguments, Engine
  <2>2. Private(env) => Redacts(env)
    BY DEF Private
  <2> QED
    BY <2>1, <2>2 DEF Combined
<1>10. policy # "odd"
  BY LaunchAssumption DEF LaunchTypeOK
<1>11. /\ Arguments(env).hook = "none" /\ ~Arguments(env).image
       /\ Arguments(env).policy = policy
  BY <1>3, <1>4, <1>5 DEF Arguments
<1> QED
  BY <1>7, <1>8, <1>9, <1>10, <1>11 DEF env

-----------------------------------------------------------------------------
(* A launch *)

LEMMA LaunchedKeepsInv ==
  ASSUME LaunchInv, NEW by \in {"demo", "hand"}, NEW env, Launched(by, env),
         \/ by = "hand" /\ env \in ByHand
         \/ /\ by = "demo"
            /\ \E key \in Keys :
                 /\ env = DemoEnv(key)
                 /\ settings.source # "auto" => key \in {Nothing, settings.source}
  PROVE  LaunchInv'
<1>1. /\ run' = [phase |-> "script", by |-> by, env |-> env, args |-> Nothing, key |-> Nothing,
                 refusal |-> Nothing]
      /\ sent' = Nothing /\ captured' = Nothing
      /\ UNCHANGED <<settings, policy, inherited, installed, stored, changes>>
  BY DEF Launched, NoRun
<1>2. /\ run'.phase = "script" /\ run'.by = by /\ run'.env = env /\ run'.refusal = Nothing
  BY <1>1
<1>3. LaunchTypeOK'
  <2>1. (run = [phase |-> run.phase, by |-> run.by, env |-> run.env, args |-> run.args,
               key |-> run.key, refusal |-> run.refusal])'
    BY <1>1
  <2> QED
    BY <1>1, <1>2, <2>1 DEF LaunchInv, LaunchTypeOK, Phases
<1>4. Origin'
  <2>1. \A key : DemoEnv(key)' = DemoEnv(key)
    BY <1>1 DEF DemoEnv, Over, Exported, Told
  <2> QED
    BY <1>1, <1>2, <2>1 DEF Origin
<1>5. (Read /\ Paid /\ OnlyWhileServed /\ NothingRaw /\ AcceptedIsStarted)'
  BY <1>1, <1>2 DEF Read, Paid, Serving, OnlyWhileServed, NothingRaw, AcceptedIsStarted
<1> QED
  BY <1>3, <1>4, <1>5 DEF LaunchInv

LEMMA StartsKeepInv ==
  ASSUME LaunchInv, StartByDemo \/ \E env \in ByHand : StartByHand(env)
  PROVE  LaunchInv'
<1>1. CASE StartByDemo
  <2> DEFINE key == Resolve(settings.source, inherited)
  <2>1. Word(inherited, "key", Nothing) \in {Nothing, "environment"}
    BY LaunchAssumption DEF LaunchInv, LaunchTypeOK, Word, Environment
  <2>2. key \in Keys /\ (settings.source # "auto" => key \in {Nothing, settings.source})
    BY <2>1, ResolvesToAKey, ResolvesToItself
  <2>3. RunEnvironment = DemoEnv(key)
    BY DEF RunEnvironment, DemoEnv
  <2> HIDE DEF key
  <2> QED
    BY <1>1, <2>2, <2>3, LaunchedKeepsInv DEF StartByDemo
<1>2. CASE \E env \in ByHand : StartByHand(env)
  BY <1>2, LaunchedKeepsInv DEF StartByHand
<1> QED
  BY <1>1, <1>2

(* A run that ends leaves only who launched it, and why it was refused.     *)
LEMMA EndsKeepsInv ==
  ASSUME LaunchInv, NEW reason \in Reasons \cup {Nothing}, Ends(reason), UNCHANGED Rest,
         run.by = "demo" /\ DOMAIN inherited \subseteq {"key"} =>
           reason \in {Nothing, "file", "key", "failed", "provider"}
  PROVE  LaunchInv'
<1>1. /\ run' = [phase |-> "none", by |-> run.by, env |-> << >>, args |-> Nothing,
                 key |-> Nothing, refusal |-> reason]
      /\ sent' = Nothing /\ captured' = Nothing
      /\ UNCHANGED <<settings, policy, inherited, installed, stored, changes>>
  BY DEF Ends, NoRun, Rest
<1>2. run'.phase = "none" /\ run'.by = run.by /\ run'.refusal = reason
  BY <1>1
<1>3. LaunchTypeOK'
  <2>1. (run = [phase |-> run.phase, by |-> run.by, env |-> run.env, args |-> run.args,
               key |-> run.key, refusal |-> run.refusal])'
    BY <1>1
  <2> QED
    BY <1>1, <1>2, <2>1 DEF LaunchInv, LaunchTypeOK, Phases
<1>4. (Origin /\ Read /\ Paid /\ OnlyWhileServed /\ NothingRaw /\ AcceptedIsStarted)'
  BY <1>1, <1>2 DEF Origin, Read, Paid, Serving, OnlyWhileServed, NothingRaw, AcceptedIsStarted
<1> QED
  BY <1>3, <1>4 DEF LaunchInv

-----------------------------------------------------------------------------
(* The script and the proxy read what they were given. *)

LEMMA ReadSwitchesKeepsInv == ASSUME LaunchInv, ReadSwitches PROVE LaunchInv'
<1>1. run.phase = "script" /\ UNCHANGED Rest
  BY DEF ReadSwitches
<1>2. CASE ScriptRefusal(run.env) # Nothing
  <2>1. Ends(ScriptRefusal(run.env))
    BY <1>2 DEF ReadSwitches
  <2>2. ScriptRefusal(run.env) \in {"switches", "file", "key"}
    BY <1>2 DEF ScriptRefusal
  <2>3. ASSUME run.by = "demo", DOMAIN inherited \subseteq {"key"}
        PROVE  ScriptRefusal(run.env) # "switches"
    <3>1. PICK key \in Keys : run.env = DemoEnv(key)
      BY <1>1, <2>3 DEF LaunchInv, Origin
    <3>2. ~OddWord(run.env) /\ ~Conflict(run.env)
      BY <2>3, <3>1, DemoIsInOrder DEF LaunchInv
    <3> QED
      BY <3>2, LaunchAssumption DEF ScriptRefusal, Reasons
  <2>4. ScriptRefusal(run.env) \in Reasons \cup {Nothing}
    BY <2>2 DEF Reasons
  <2> QED
    BY <1>1, <2>1, <2>2, <2>3, <2>4, EndsKeepsInv
<1>3. CASE ScriptRefusal(run.env) = Nothing
  <2>1. run' = [run EXCEPT !.phase = "proxy", !.args = Arguments(run.env)]
    BY <1>3 DEF ReadSwitches
  <2>2. run = [phase |-> run.phase, by |-> run.by, env |-> run.env, args |-> run.args,
               key |-> run.key, refusal |-> run.refusal]
    BY DEF LaunchInv, LaunchTypeOK
  <2>3. run' = [phase |-> "proxy", by |-> run.by, env |-> run.env, args |-> Arguments(run.env),
                key |-> run.key, refusal |-> run.refusal]
    BY <2>1, <2>2
  <2>4. /\ run'.phase = "proxy" /\ run'.by = run.by /\ run'.env = run.env
        /\ run'.args = Arguments(run.env) /\ run'.refusal = run.refusal
        /\ UNCHANGED <<settings, policy, inherited, installed, stored, changes, sent, captured>>
    BY <1>1, <1>3, <2>3 DEF ReadSwitches, Rest
  <2>5. ~OddWord(run.env) /\ ~Conflict(run.env)
    BY <1>3, LaunchAssumption DEF ScriptRefusal, Reasons
  <2>6. LaunchTypeOK'
    <3>1. (run = [phase |-> run.phase, by |-> run.by, env |-> run.env, args |-> run.args,
                 key |-> run.key, refusal |-> run.refusal])'
      BY <2>3
    <3> QED
      BY <2>4, <3>1 DEF LaunchInv, LaunchTypeOK, Phases
  <2>7. Origin'
    <3>1. \A key : DemoEnv(key)' = DemoEnv(key)
      BY <2>4 DEF DemoEnv, Over, Exported, Told
    <3> QED
      BY <1>1, <2>4, <3>1 DEF LaunchInv, Origin
  <2>8. Read'
    BY <2>4, <2>5 DEF Read, Arguments, OddWord, Conflict
  <2>9. sent = Nothing
    BY <1>1 DEF LaunchInv, OnlyWhileServed
  <2>10. (Paid /\ OnlyWhileServed /\ NothingRaw /\ AcceptedIsStarted)'
    BY <2>4, <2>9 DEF LaunchInv, Paid, Serving, OnlyWhileServed, NothingRaw, AcceptedIsStarted
  <2> QED
    BY <2>6, <2>7, <2>8, <2>10 DEF LaunchInv
<1> QED
  BY <1>2, <1>3

(* The key that the environment of a run holds is what Resolve expects.     *)
LEMMA OwnKey ==
  ASSUME LaunchInv, run.phase # "none", run.args = Arguments(run.env),
         run.args.source # "auto"
  PROVE  Resolve(run.args.source, run.env) \in {Nothing, run.args.source}
<1>1. run.args.source = Word(run.env, "source", "auto")
  BY DEF Arguments
<1>2. CASE run.by = "demo"
  <2>1. PICK key \in Keys : /\ run.env = DemoEnv(key)
                            /\ settings.source # "auto" => key \in {Nothing, settings.source}
    BY <1>2 DEF LaunchInv, Origin
  <2>2. run.args.source = settings.source
    <3>1. "source" \in Variables /\ Told(settings, "source") = settings.source
      BY DEF Variables, Told, Features
    <3>2. Word(run.env, "source", "auto") = Told(settings, "source")
      BY <2>1, <3>1, TellsWhatIsChosen
    <3> QED
      BY <1>1, <3>1, <3>2
  <2>3. Word(run.env, "key", Nothing) \in {Nothing, "environment", key}
    <3>1. inherited \in Inherited
      BY DEF LaunchInv, LaunchTypeOK
    <3>2. Word(DemoEnv(key), "key", Nothing) \in {Nothing, "environment", key}
      BY <3>1, KeyOfDemo
    <3> QED
      BY <2>1, <3>2
  <2>4. ASSUME run.args.source = "environment"
        PROVE  Word(run.env, "key", Nothing) \in {Nothing, "environment"}
    <3>1. key \in {Nothing, "environment"}
      BY <2>1, <2>2, <2>4
    <3> QED
      BY <2>3, <3>1
  <2> QED
    BY <2>4, ResolvesToItself
<1>3. CASE run.by = "hand" /\ run.env \in ByHand
  <2>1. Word(run.env, "key", Nothing) \in {Nothing, "environment"}
    BY <1>3, LaunchAssumption DEF Word, Environment
  <2> QED
    BY <2>1, ResolvesToItself
<1> QED
  BY <1>2, <1>3 DEF LaunchInv, Origin

LEMMA BuildProxyKeepsInv == ASSUME LaunchInv, BuildProxy PROVE LaunchInv'
<1> DEFINE refusal == ProxyRefusal(run.env, run.args)
<1>1. run.phase = "proxy" /\ UNCHANGED Rest
  BY DEF BuildProxy
<1>2. run.args = Arguments(run.env)
  BY <1>1 DEF LaunchInv, Read
<1>3. CASE refusal # Nothing
  <2>1. Ends(refusal)
    BY <1>3 DEF BuildProxy
  <2>2. refusal \in {"switches", "file", "key"}
    BY <1>3 DEF ProxyRefusal
  <2>3. ASSUME run.by = "demo", DOMAIN inherited \subseteq {"key"}
        PROVE  refusal # "switches"
    <3>1. PICK key \in Keys : run.env = DemoEnv(key)
      BY <1>1, <2>3 DEF LaunchInv, Origin
    <3>2. Combined(run.args) /\ run.args.policy # "odd"
      BY <1>2, <2>3, <3>1, DemoIsInOrder DEF LaunchInv
    <3> QED
      BY <3>2, LaunchAssumption DEF ProxyRefusal, Reasons
  <2>4. refusal \in Reasons \cup {Nothing}
    BY <2>2 DEF Reasons
  <2> HIDE DEF refusal
  <2> QED
    BY <1>1, <2>1, <2>2, <2>3, <2>4, EndsKeepsInv
<1>4. CASE refusal = Nothing
  <2> DEFINE key == Resolve(run.args.source, run.env)
  <2>1. run' = [run EXCEPT !.phase = "serving", !.key = key]
    BY <1>4 DEF BuildProxy
  <2>2. Combined(run.args) /\ key # Nothing
    BY <1>4, LaunchAssumption DEF ProxyRefusal, Reasons
  <2>3. run.args.source # "auto" => key = run.args.source
    BY <1>1, <1>2, <2>2, OwnKey
  <2>4. UNCHANGED <<settings, policy, inherited, installed, stored, changes, sent, captured>>
    BY <1>4 DEF BuildProxy, Rest
  <2> HIDE DEF key, refusal
  <2>5. run = [phase |-> run.phase, by |-> run.by, env |-> run.env, args |-> run.args,
               key |-> run.key, refusal |-> run.refusal]
    BY DEF LaunchInv, LaunchTypeOK
  <2>6. run' = [phase |-> "serving", by |-> run.by, env |-> run.env, args |-> run.args,
                key |-> key, refusal |-> run.refusal]
    BY <2>1, <2>5
  <2>7. /\ run'.phase = "serving" /\ run'.by = run.by /\ run'.env = run.env
        /\ run'.args = run.args /\ run'.key = key /\ run'.refusal = run.refusal
    BY <2>6
  <2>8. LaunchTypeOK'
    <3>1. (run = [phase |-> run.phase, by |-> run.by, env |-> run.env, args |-> run.args,
                 key |-> run.key, refusal |-> run.refusal])'
      BY <2>6
    <3> QED
      BY <2>4, <2>7, <3>1 DEF LaunchInv, LaunchTypeOK, Phases
  <2>9. Origin'
    <3>1. \A k : DemoEnv(k)' = DemoEnv(k)
      BY <2>4 DEF DemoEnv, Over, Exported, Told
    <3> QED
      BY <1>1, <2>4, <2>7, <3>1 DEF LaunchInv, Origin
  <2>10. Read'
    BY <1>1, <2>7 DEF LaunchInv, Read, Arguments, OddWord, Conflict
  <2>11. Paid'
    BY <2>2, <2>3, <2>7 DEF Paid, Combined
  <2>12. sent = Nothing
    BY <1>1 DEF LaunchInv, OnlyWhileServed
  <2>13. (OnlyWhileServed /\ NothingRaw /\ AcceptedIsStarted)'
    BY <2>4, <2>7, <2>12 DEF LaunchInv, OnlyWhileServed, NothingRaw, AcceptedIsStarted
  <2> QED
    BY <2>8, <2>9, <2>10, <2>11, <2>13 DEF LaunchInv
<1> QED
  BY <1>3, <1>4

-----------------------------------------------------------------------------
(* What the hooks let out *)

(* A run that asks for redaction paints its screenshots, and scrubs its     *)
(* texts and paints with chips as it asks for privacy.                     *)
LEMMA AskedIsDone ==
  ASSUME LaunchTypeOK, Origin, Read, Paid, Serving, Asks("redact")
  PROVE  /\ "redact" \in RequestHooks(run.args)
         /\ Asks("privacy") =>
              /\ Vaults(run.args) /\ "privacy" \in RequestHooks(run.args)
              /\ "history_scrub" \in run.args.features <=>
                   Word(run.env, "history_scrub", "on") # "off"
              /\ "chips" \in run.args.features <=> Word(run.env, "chips", "on") = "on"
<1>1. /\ run.args = Arguments(run.env) /\ Combined(run.args)
      /\ run.phase \in {"proxy", "serving", "agent"}
  BY DEF Serving, Read, Paid
<1>2. \A v \in Switches(run.env) \cap OnOff : \A d \in {"on", "off"} :
        Word(run.env, v, d) \in {"on", "off"}
  BY <1>1, SwitchesAreRead
<1>3. Redacts(run.env) /\ run.args.redact
  <2>1. "redact" \in Switches(run.env) \cap OnOff
    BY DEF Switches, OnOff
  <2>2. Word(run.env, "redact", "off") = "on"
    BY <1>2, <2>1 DEF Asks
  <2> QED
    <3>1. Arguments(run.env).redact = Redacts(run.env)
      BY DEF Arguments
    <3>2. Redacts(run.env)
      BY <2>2 DEF Redacts
    <3> QED
      BY <1>1, <3>1, <3>2
<1>4. "redact" \in RequestHooks(run.args)
  BY <1>3 DEF RequestHooks
<1>5. ASSUME Asks("privacy")
      PROVE  /\ Vaults(run.args) /\ "privacy" \in RequestHooks(run.args)
             /\ "history_scrub" \in run.args.features <=>
                  Word(run.env, "history_scrub", "on") # "off"
             /\ "chips" \in run.args.features <=> Word(run.env, "chips", "on") = "on"
  <2>1. "privacy" \in Switches(run.env) \cap OnOff
    BY <1>3 DEF Switches, OnOff
  <2>2. \A d : Word(run.env, "privacy", d) = "on"
    BY <1>2, <1>5, <2>1 DEF Asks, Word
  <2>3. Private(run.env) /\ run.args.privacy
    <3>1. Arguments(run.env).privacy = Private(run.env)
      BY DEF Arguments
    <3>2. Private(run.env)
      BY <1>3, <2>2 DEF Private
    <3> QED
      BY <1>1, <3>1, <3>2
  <2>4. run.args.engine = "vision"
    BY <1>1, <2>3 DEF Combined
  <2>5. Vaults(run.args)
    BY <1>3, <2>3, <2>4 DEF Vaults
  <2>6. "privacy" \in RequestHooks(run.args)
    BY <2>5 DEF RequestHooks
  <2>7. \A f \in Features : f \in run.args.features <=> Word(run.env, f, "on") = "on"
    BY <1>1, <2>3 DEF Arguments
  <2>8. {"history_scrub", "chips"} \subseteq Features
    BY DEF Features
  <2>9. "history_scrub" \in Switches(run.env) \cap OnOff
    BY <1>3, <2>8 DEF Switches, OnOff
  <2>10. Word(run.env, "history_scrub", "on") \in {"on", "off"}
    BY <1>2, <2>9
  <2> QED
    BY <2>5, <2>6, <2>7, <2>8, <2>10
<1> QED
  BY <1>4, <1>5

LEMMA OutgoingIsBody ==
  ASSUME NEW args, NEW body \in Bodies, NEW failing
  PROVE  Outgoing(args, body, failing) \in Bodies \cup {Nothing}
<1> DEFINE shown == Substituted(args, body)
           painted == Painted(args, shown)
<1>1. shown \in Bodies \cup {Nothing}
  BY DEF Substituted, Bodies
<1> HIDE DEF shown
<1>2. painted \in Bodies \cup {Nothing}
  <2>1. CASE painted = shown
    BY <1>1, <2>1
  <2>2. CASE painted # shown
    <3> DEFINE chips == Vaults(args) /\ "chips" \in args.features
               manifest == chips /\ "manifest" \in args.features
    <3>1. /\ shown # Nothing
          /\ painted = [shown EXCEPT !.frame = IF chips THEN "chips" ELSE "masked",
                                    !.manifest = manifest]
      BY <2>2 DEF Painted
    <3>2. manifest \in BOOLEAN /\ (IF chips THEN "chips" ELSE "masked") \in {"chips", "masked"}
      OBVIOUS
    <3> HIDE DEF chips, manifest, painted
    <3> QED
      BY <1>1, <3>1, <3>2 DEF Bodies
  <2> QED
    BY <2>1, <2>2
<1> HIDE DEF painted
<1>3. Scrubbed(args, painted) \in Bodies \cup {Nothing}
  BY <1>2 DEF Scrubbed, Bodies
<1> QED
  BY <1>3 DEF Outgoing, shown, painted

LEMMA ProbeAndAgentBodies == ProbeRequest \in Bodies /\ AgentRequests \subseteq Bodies
BY DEF ProbeRequest, AgentRequests, Bodies

(* What the hooks let out is what NothingRaw asks of it.                   *)
LEMMA NothingRawGetsOut ==
  ASSUME LaunchTypeOK, Origin, Read, Paid, Serving, Asks("redact"),
         NEW body \in Bodies, body.frame \in {Nothing, "raw"}, NEW failing,
         NEW out, out = Outgoing(run.args, body, failing), out # Nothing
  PROVE  /\ out.frame \in {Nothing, "masked", "chips"}
         /\ Asks("privacy") /\ Word(run.env, "history_scrub", "on") # "off" => out.text # "raw"
         /\ Asks("privacy") /\ out.frame # Nothing =>
              (out.frame = "chips") = (Word(run.env, "chips", "on") = "on")
<1> DEFINE args == run.args
           shown == Substituted(args, body)
           painted == Painted(args, shown)
           chips == Vaults(args) /\ "chips" \in args.features
           manifest == chips /\ "manifest" \in args.features
<1>1. /\ "redact" \in RequestHooks(args)
      /\ Asks("privacy") =>
           /\ Vaults(args) /\ "privacy" \in RequestHooks(args)
           /\ "history_scrub" \in args.features <=> Word(run.env, "history_scrub", "on") # "off"
           /\ "chips" \in args.features <=> Word(run.env, "chips", "on") = "on"
  BY AskedIsDone
<1>2. out = Scrubbed(args, painted)
  BY DEF Outgoing
<1>3. painted # Nothing /\ shown # Nothing
  <2>1. painted # Nothing
    BY <1>2 DEF Scrubbed
  <2> QED
    BY <2>1 DEF Painted
<1>4. shown \in Bodies
  BY <1>3 DEF Substituted, Bodies
<1>5. \/ painted = shown /\ shown.frame = Nothing
      \/ shown.frame # Nothing /\ painted = [shown EXCEPT !.frame = IF chips THEN "chips" ELSE "masked",
                                                         !.manifest = manifest]
  BY <1>1, <1>3 DEF Painted
<1>6. /\ painted \in Bodies
      /\ \/ painted.frame = Nothing
         \/ painted.frame = IF chips THEN "chips" ELSE "masked"
  <2>1. manifest \in BOOLEAN /\ (IF chips THEN "chips" ELSE "masked") \in {"chips", "masked"}
    OBVIOUS
  <2> HIDE DEF chips, manifest, painted, shown
  <2> QED
    BY <1>4, <1>5, <2>1 DEF Bodies
<1> HIDE DEF painted, shown
<1>7. /\ out.frame = painted.frame
      /\ "privacy" \in RequestHooks(args) /\ "history_scrub" \in args.features => out.text # "raw"
  BY <1>2, <1>3, <1>6 DEF Scrubbed, Bodies
<1> QED
  BY <1>1, <1>6, <1>7

(* The state after a request: the run goes on, and its invariant with it.   *)
LEMMA ServedKeepsInv ==
  ASSUME LaunchInv, Serving, UNCHANGED Rest,
         NEW body \in Bodies, body.frame \in {Nothing, "raw"}, NEW failing,
         run' = [run EXCEPT !.phase = "agent"],
         sent' = Latest(Outgoing(run.args, body, failing)), captured' = Captured(body)
  PROVE  LaunchInv'
<1> DEFINE out == Outgoing(run.args, body, failing)
<1>1. run = [phase |-> run.phase, by |-> run.by, env |-> run.env, args |-> run.args,
             key |-> run.key, refusal |-> run.refusal]
  BY DEF LaunchInv, LaunchTypeOK
<1>2. run' = [phase |-> "agent", by |-> run.by, env |-> run.env, args |-> run.args,
              key |-> run.key, refusal |-> run.refusal]
  BY <1>1
<1>3. /\ run'.phase = "agent" /\ run'.by = run.by /\ run'.env = run.env
      /\ run'.args = run.args /\ run'.key = run.key /\ run'.refusal = run.refusal
      /\ UNCHANGED <<settings, policy, inherited, installed, stored, changes>>
  BY <1>2 DEF Rest
<1>4. out \in Bodies \cup {Nothing}
  BY OutgoingIsBody
<1>5. sent' = IF out = Nothing THEN sent ELSE out
  BY DEF Latest
<1> HIDE DEF out
<1>6. LaunchTypeOK'
  <2>1. (run = [phase |-> run.phase, by |-> run.by, env |-> run.env, args |-> run.args,
               key |-> run.key, refusal |-> run.refusal])'
    BY <1>2
  <2>2. sent' \in Bodies \cup {Nothing}
    BY <1>4, <1>5 DEF LaunchInv, LaunchTypeOK
  <2>3. body.grammar \in {Nothing, "actions"}
    BY DEF Bodies
  <2>4. captured' = Nothing \/ captured' \in [grammar : {Nothing, "actions"}]
    BY <2>3 DEF LaunchInv, LaunchTypeOK, Captured
  <2> QED
    BY <1>3, <2>1, <2>2, <2>4 DEF LaunchInv, LaunchTypeOK, Phases
<1>7. Origin'
  <2>1. \A k : DemoEnv(k)' = DemoEnv(k)
    BY <1>3 DEF DemoEnv, Over, Exported, Told
  <2> QED
    BY <1>3, <2>1 DEF LaunchInv, Origin, Serving
<1>8. Read' /\ Paid'
  BY <1>3 DEF LaunchInv, Read, Paid, Serving, Arguments, OddWord, Conflict, Combined
<1>9. OnlyWhileServed' /\ AcceptedIsStarted'
  BY <1>3 DEF LaunchInv, OnlyWhileServed, AcceptedIsStarted
<1>10. NothingRaw'
  <2>1. CASE out = Nothing
    BY <1>3, <1>5, <2>1 DEF LaunchInv, NothingRaw, Asks
  <2>2. CASE out # Nothing
    <3>1. sent' = out /\ \A v : Asks(v)' = Asks(v)
      BY <1>3, <1>5, <2>2 DEF Asks
    <3>2. Asks("redact") =>
            /\ out.frame \in {Nothing, "masked", "chips"}
            /\ Asks("privacy") /\ Word(run.env, "history_scrub", "on") # "off" => out.text # "raw"
            /\ Asks("privacy") /\ out.frame # Nothing =>
                 (out.frame = "chips") = (Word(run.env, "chips", "on") = "on")
      BY <2>2, NothingRawGetsOut DEF LaunchInv, out
    <3> QED
      BY <1>3, <3>1, <3>2 DEF NothingRaw
  <2> QED
    BY <2>1, <2>2
<1> QED
  BY <1>6, <1>7, <1>8, <1>9, <1>10 DEF LaunchInv

LEMMA RequestKeepsInv ==
  ASSUME LaunchInv, NEW body \in AgentRequests, NEW failing, Request(body, failing)
  PROVE  LaunchInv'
<1>1. run = [phase |-> run.phase, by |-> run.by, env |-> run.env, args |-> run.args,
             key |-> run.key, refusal |-> run.refusal]
  BY DEF LaunchInv, LaunchTypeOK
<1>2. run.phase = "agent" /\ run' = run
  BY DEF Request
<1>3. run' = [run EXCEPT !.phase = "agent"]
  BY <1>1, <1>2
<1>4. body \in Bodies /\ body.frame \in {Nothing, "raw"}
  BY ProbeAndAgentBodies DEF AgentRequests
<1>5. /\ UNCHANGED Rest
      /\ sent' = Latest(Outgoing(run.args, body, failing)) /\ captured' = Captured(body)
  BY DEF Request
<1> QED
  BY <1>2, <1>3, <1>4, <1>5, ServedKeepsInv DEF Serving

(* The probe carries no screenshot and asks for one word, so that the hooks *)
(* a demo run has let it and its reply through.                            *)
LEMMA ProbePasses ==
  ASSUME LaunchInv, run.phase = "serving", run.by = "demo", DOMAIN inherited \subseteq {"key"}
  PROVE  Outgoing(run.args, ProbeRequest, {}) # Nothing /\ Returned(run.args)
<1>1. PICK key \in Keys : run.env = DemoEnv(key)
  BY DEF LaunchInv, Origin
<1>2. run.args = Arguments(run.env)
  BY DEF LaunchInv, Read
<1>3. run.args.hook = "none" /\ ~run.args.image
  BY <1>1, <1>2, DemoIsInOrder DEF LaunchInv
<1>4. Returned(run.args)
  BY <1>3 DEF Returned, ReplyHooks
<1>5. "image" \notin RequestHooks(run.args)
  BY <1>3 DEF RequestHooks
<1>6. Painted(run.args, Substituted(run.args, ProbeRequest)) = ProbeRequest
  BY <1>5 DEF Substituted, Painted, ProbeRequest
<1>7. ProbeRequest.text # "raw" /\ ProbeRequest # Nothing
  <2>1. ProbeRequest # Nothing
    BY ProbeAndAgentBodies, LaunchAssumption
  <2> QED
    BY <2>1 DEF ProbeRequest
<1>8. Outgoing(run.args, ProbeRequest, {}) = ProbeRequest
  BY <1>6, <1>7 DEF Outgoing, Scrubbed
<1> QED
  BY <1>4, <1>7, <1>8

LEMMA ProbeKeepsInv == ASSUME LaunchInv, Probe PROVE LaunchInv'
<1>1. run.phase = "serving" /\ UNCHANGED Rest
  BY DEF Probe
<1>2. PICK failing \in SUBSET {"privacy"}, answered \in BOOLEAN :
        LET body == Outgoing(run.args, ProbeRequest, failing)
        IN  IF body # Nothing /\ answered /\ Returned(run.args)
            THEN run' = [run EXCEPT !.phase = "agent"] /\ sent' = body
                 /\ captured' = Captured(ProbeRequest)
            ELSE Ends(IF failing # {} THEN "failed"
                      ELSE IF body = Nothing \/ answered THEN "hooks" ELSE "provider")
  BY DEF Probe
<1> DEFINE out == Outgoing(run.args, ProbeRequest, failing)
           reason == IF failing # {} THEN "failed"
                     ELSE IF out = Nothing \/ answered THEN "hooks" ELSE "provider"
<1>3. CASE out # Nothing /\ answered /\ Returned(run.args)
  <2>1. /\ run' = [run EXCEPT !.phase = "agent"] /\ sent' = out
        /\ captured' = Captured(ProbeRequest)
    BY <1>2, <1>3
  <2>2. sent' = Latest(out)
    BY <1>3, <2>1 DEF Latest
  <2>3. ProbeRequest \in Bodies /\ ProbeRequest.frame \in {Nothing, "raw"}
    BY ProbeAndAgentBodies DEF ProbeRequest
  <2> QED
    BY <1>1, <2>1, <2>2, <2>3, ServedKeepsInv DEF Serving
<1>4. CASE ~(out # Nothing /\ answered /\ Returned(run.args))
  <2>1. Ends(reason)
    BY <1>2, <1>4
  <2>2. reason \in Reasons \cup {Nothing}
    BY DEF Reasons
  <2>3. ASSUME run.by = "demo", DOMAIN inherited \subseteq {"key"}
        PROVE  reason \in {Nothing, "file", "key", "failed", "provider"}
    <3>1. CASE failing # {}
      BY <3>1
    <3>2. CASE failing = {}
      <4>1. out # Nothing /\ Returned(run.args)
        BY <1>1, <2>3, <3>2, ProbePasses
      <4> QED
        BY <1>4, <3>2, <4>1
    <3> QED
      BY <3>1, <3>2
  <2> HIDE DEF reason
  <2> QED
    BY <1>1, <2>1, <2>2, <2>3, EndsKeepsInv
<1> QED
  BY <1>3, <1>4

LEMMA EndKeepsInv == ASSUME LaunchInv, End PROVE LaunchInv'
BY EndsKeepsInv DEF End

LEMMA LaunchNextInv == LaunchInv /\ [LaunchNext]_launchVars => LaunchInv'
<1> SUFFICES ASSUME LaunchInv, [LaunchNext]_launchVars PROVE LaunchInv'
  OBVIOUS
<1>1. CASE \/ \E s \in Settings : SetSettings(s)
           \/ \E p \in Policies : SetPolicy(p)
           \/ ConnectHoloCli
  BY <1>1, DemoKeepsInv
<1>2. CASE StartByDemo \/ \E env \in ByHand : StartByHand(env)
  BY <1>2, StartsKeepInv
<1>3. CASE ReadSwitches
  BY <1>3, ReadSwitchesKeepsInv
<1>4. CASE BuildProxy
  BY <1>4, BuildProxyKeepsInv
<1>5. CASE Probe
  BY <1>5, ProbeKeepsInv
<1>6. CASE \E body \in AgentRequests, failing \in SUBSET {"redact", "privacy"} : Request(body, failing)
  BY <1>6, RequestKeepsInv
<1>7. CASE End
  BY <1>7, EndKeepsInv
<1>8. CASE \/ \E f \in Files : ChangeFile(f)
           \/ \E layer \in {"holo_cli", "project"} : ChangeKey(layer)
  BY <1>8, MachineKeepsInv
<1>9. CASE UNCHANGED launchVars
  <2>1. \A k : DemoEnv(k)' = DemoEnv(k)
    BY <1>9 DEF launchVars, DemoEnv, Over, Exported, Told
  <2>2. LaunchTypeOK'
    BY <1>9 DEF LaunchInv, LaunchTypeOK, launchVars
  <2>3. Origin'
    BY <1>9, <2>1 DEF LaunchInv, Origin, launchVars
  <2>4. (Read /\ Paid /\ OnlyWhileServed /\ NothingRaw /\ AcceptedIsStarted)'
    BY <1>9 DEF launchVars, LaunchInv, Read, Paid, Serving, OnlyWhileServed, NothingRaw, Asks,
                AcceptedIsStarted
  <2> QED
    BY <2>2, <2>3, <2>4 DEF LaunchInv
<1> QED
  BY <1>1, <1>2, <1>3, <1>4, <1>5, <1>6, <1>7, <1>8, <1>9 DEF LaunchNext

LEMMA LaunchInductive == LaunchSpec => []LaunchInv
<1>1. LaunchInit => LaunchInv
  BY LaunchInitInv
<1>2. LaunchInv /\ [LaunchNext]_launchVars => LaunchInv'
  BY LaunchNextInv
<1> QED
  BY <1>1, <1>2, PTL DEF LaunchSpec

-----------------------------------------------------------------------------
(* Theorems *)

(* Type correctness of the launch (demo.py, run_agent.sh, proxy.py).       *)
THEOREM LaunchTypeCorrect == LaunchSpec => []LaunchTypeOK
<1>1. LaunchInv => LaunchTypeOK
  BY DEF LaunchInv
<1> QED
  BY <1>1, LaunchInductive, PTL

(* A run the demo starts is protected by what the demo shows and is paid    *)
(* with the key of the source it names, through the environment, the       *)
(* script's switches and the proxy's arguments.                            *)
THEOREM RunsAreAsChosen == LaunchSpec => []AsChosen
<1>1. ASSUME LaunchInv PROVE AsChosen
  <2>1. KeyIsOfSource
    <3> SUFFICES ASSUME Serving, NEW source,
                        source = IF run.by = "demo" THEN settings.source
                                 ELSE Word(run.env, "source", "auto"),
                        source # "auto"
                 PROVE  run.key = source
      BY DEF KeyIsOfSource
    <3>1. run.args = Arguments(run.env) /\ run.phase # "none"
      BY <1>1 DEF LaunchInv, Read, Serving
    <3>2. run.args.source = Word(run.env, "source", "auto")
      BY <3>1 DEF Arguments
    <3>3. run.by = "demo" => Word(run.env, "source", "auto") = settings.source
      <4> SUFFICES ASSUME run.by = "demo" PROVE Word(run.env, "source", "auto") = settings.source
        OBVIOUS
      <4>1. PICK key \in Keys : run.env = DemoEnv(key)
        BY <1>1, <3>1 DEF LaunchInv, Origin
      <4>2. "source" \in Variables /\ Told(settings, "source") = settings.source
        BY DEF Variables, Told, Features
      <4> QED
        BY <4>1, <4>2, TellsWhatIsChosen
    <3>4. run.args.source = source
      BY <3>2, <3>3
    <3> QED
      BY <1>1, <3>4 DEF LaunchInv, Paid
  <2>2. RunsAsChosen
    <3> SUFFICES ASSUME Serving, run.by = "demo" PROVE RunsAsChosen
      BY DEF RunsAsChosen
    <3>1. run.args = Arguments(run.env) /\ run.phase # "none"
      BY <1>1 DEF LaunchInv, Read, Serving
    <3>2. PICK key \in Keys : run.env = DemoEnv(key)
      BY <1>1, <3>1 DEF LaunchInv, Origin
    <3> DEFINE env == run.env
    <3>3. \A v \in Variables : \A d : Word(env, v, d) = Told(settings, v)
      BY <3>2, TellsWhatIsChosen
    <3>4. \A d : Word(env, "visual_model", d) = Word(inherited, "visual_model", d)
      BY <3>2, LeavesTheRest DEF Variables, Features
    <3>5. settings \in Selectable
      BY <1>1 DEF LaunchInv, LaunchTypeOK
    <3>6. \A d : /\ Word(env, "redact", d) = Switch(settings.plva)
                /\ Word(env, "privacy", d) = Switch(settings.plva)
                /\ Word(env, "engine", d) = "vision"
                /\ Word(env, "detector", d) = settings.detector
                /\ Word(env, "visual", d) = Switch(settings.visual)
                /\ Word(env, "semantic", d) = settings.semantic
                /\ Word(env, "tools", d) = Switch(settings.tools)
                /\ Word(env, "policy", d) = policy
      <4>1. {"redact", "privacy", "engine", "detector", "visual", "semantic", "tools", "policy"}
              \subseteq Variables
        BY DEF Variables
      <4>2. /\ Told(settings, "redact") = Switch(settings.plva)
            /\ Told(settings, "privacy") = Switch(settings.plva)
            /\ Told(settings, "engine") = "vision"
            /\ Told(settings, "detector") = settings.detector
            /\ Told(settings, "visual") = Switch(settings.visual)
            /\ Told(settings, "semantic") = settings.semantic
            /\ Told(settings, "tools") = Switch(settings.tools)
            /\ Told(settings, "policy") = policy
        BY DEF Told, Features
      <4> QED
        BY <3>3, <4>1, <4>2
    <3> HIDE DEF env
    <3>7. \A f \in Features : Word(env, f, "on") = "on" <=> f \in settings.features
      <4> SUFFICES ASSUME NEW f \in Features
                   PROVE  Word(env, f, "on") = "on" <=> f \in settings.features
        OBVIOUS
      <4>1. f \in Variables /\ Told(settings, f) = Switch(f \in settings.features)
        BY DEF Variables, Told, Features
      <4>2. Word(env, f, "on") = Switch(f \in settings.features)
        BY <3>3, <4>1
      <4> QED
        BY <4>2 DEF Switch
    <3>8. /\ Redacts(env) = settings.plva /\ Vision(env) = settings.plva
          /\ Private(env) = settings.plva /\ Tools(env) = settings.tools
          /\ Detects(env) = (settings.plva /\ settings.visual)
      BY <3>5, <3>6 DEF Redacts, Vision, Engine, Private, Detects, Tools, Switch, Selectable
    <3>9. /\ Arguments(env).redact = Redacts(env) /\ Arguments(env).privacy = Private(env)
          /\ Arguments(env).tools = Tools(env) /\ Arguments(env).policy = Word(env, "policy", "file")
          /\ Arguments(env).semantic =
               IF Vision(env) THEN Word(env, "semantic", "rampart") ELSE Nothing
          /\ Arguments(env).visual = IF Detects(env) THEN VisualModel(env) ELSE Nothing
          /\ Arguments(env).features = {f \in Features : Private(env) /\ Word(env, f, "on") = "on"}
      BY DEF Arguments
    <3>10. VisualModel(env) = Word(inherited, "visual_model", settings.detector)
      BY <3>4, <3>6 DEF VisualModel
    <3>11. settings.plva => Arguments(env).features = settings.features
      BY <3>5, <3>7, <3>8, <3>9 DEF Selectable
    <3>12. run.args = Arguments(env)
      BY <3>1 DEF env
    <3>13. /\ run.args.redact = settings.plva /\ run.args.privacy = settings.plva
           /\ run.args.tools = settings.tools
      BY <3>8, <3>9, <3>12
    <3>14. settings.plva =>
             /\ run.args.features = settings.features /\ run.args.policy = policy
             /\ run.args.semantic = settings.semantic
             /\ run.args.visual = IF ~settings.visual THEN Nothing
                                  ELSE Word(inherited, "visual_model", settings.detector)
      BY <3>5, <3>6, <3>8, <3>9, <3>10, <3>11, <3>12 DEF Selectable
    <3> QED
      BY <3>13, <3>14 DEF RunsAsChosen
  <2> QED
    BY <2>1, <2>2 DEF AsChosen
<1> QED
  BY <1>1, LaunchInductive, PTL

(* A launch that asks for redaction sends no screenshot as it was taken,    *)
(* and one that asks for privacy no text as it was written, whatever the   *)
(* words, the other hooks and the changes of the machine meanwhile.        *)
THEOREM NothingRawIsSent == LaunchSpec => []NothingRaw
<1>1. LaunchInv => NothingRaw
  BY DEF LaunchInv
<1> QED
  BY <1>1, LaunchInductive, PTL

(* Settings the demo accepts are refused by neither the script nor the     *)
(* proxy nor the hooks.                                                    *)
THEOREM AcceptedSettingsStart == LaunchSpec => []AcceptedIsStarted
<1>1. LaunchInv => AcceptedIsStarted
  BY DEF LaunchInv
<1> QED
  BY <1>1, LaunchInductive, PTL
=============================================================================
