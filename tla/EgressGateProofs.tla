--------------------------- MODULE EgressGateProofs ---------------------------
(***************************************************************************)
(* Proofs about the run script, the egress monitor and the agent's         *)
(* processes, for any number of launches side by side and any number of    *)
(* signals.                                                                *)
(***************************************************************************)
EXTENDS EgressGate, TLAPS

-----------------------------------------------------------------------------
(* Types.                                                                  *)

ScriptStages == {"idle", "untrapped", "health", "probing", "spawning", "guarding", "gate",
                 "waiting", "refused", "aborted", "judging", "auditing", "cleanup", "sweep",
                 "reap", "ended"}
Process == [state : {"none", "booting", "stopped", "running", "dead"},
            term : BOOLEAN, late : BOOLEAN, opened : BOOLEAN, remote : BOOLEAN]
Script  == [pc : ScriptStages, exit : {None, 0, 1, 130}, signals : Nat, cut : BOOLEAN]
Monitor == [pc : {"none", "proving", "group", "runtimes", "sockets", "ended", "killed"},
            proved : BOOLEAN, listed : SUBSET Procs, saw : SUBSET Procs]
Files   == [ready : BOOLEAN, status : {None, "passed", "failed", "error"}, runs : BOOLEAN]

GateTypes ==
  /\ script \in [Launches -> Script]
  /\ proxy \in [Launches -> {"none", "starting", "up", "dead"}]
  /\ proc \in [Procs -> Process]
  /\ monitor \in [Launches -> Monitor]
  /\ files \in [Launches -> Files]
  /\ skill \in [installed : BOOLEAN, held : SUBSET Launches]

\* Every launch has processes of its own, and none has the stray one.
LEMMA ProcNames ==
  /\ \A l \in Launches : Cli(l) \in Procs /\ Runtime(l) \in Procs /\ Cli(l) # Runtime(l)
  /\ \A k, l \in Launches : /\ Cli(k) # Runtime(l)
                            /\ k # l => Cli(k) # Cli(l) /\ Runtime(k) # Runtime(l)
  /\ \A l \in Launches : Runtime(l) # Stray /\ Cli(l) # Stray
  /\ \A l \in Launches : Cli(l) \notin Runtimes
  /\ \A l \in Launches : Runtime(l) \in Runtimes <=> Alive(Runtime(l))
BY GateAssumption DEF Cli, Runtime, Procs, Stray, Runtimes

-----------------------------------------------------------------------------
(* Invariants of a launch.                                                 *)

Early == {"idle", "untrapped", "health", "probing", "spawning"}

Cleanly(l) == script[l].pc = "ended" /\ ~script[l].cut

CliState(l) == proc[Cli(l)].state
RuntimeState(l) == proc[Runtime(l)].state

\* Nothing of the agent has run unless a monitor has proved itself.
Guarded(l) ==
  /\ files[l].ready => monitor[l].proved
  /\ CliState(l) = "running" => monitor[l].proved
  /\ RuntimeState(l) # "none" => monitor[l].proved
  /\ proc[Cli(l)].opened \/ proc[Runtime(l)].opened => monitor[l].proved

\* What there is before the script has made it.
Begun(l) ==
  /\ script[l].pc \in Early => /\ CliState(l) = "none" /\ monitor[l].pc = "none"
                               /\ ~files[l].runs /\ ~files[l].ready
  /\ script[l].pc = "idle" => proxy[l] = "none" /\ l \notin skill.held
  /\ script[l].pc = "guarding" => monitor[l].pc = "none" /\ CliState(l) # "none"
  /\ monitor[l].pc # "none" => CliState(l) # "none"
  /\ RuntimeState(l) # "none" => CliState(l) # "none"

\* The monitor's verdict: a command line that was not there when the group was
\* listed is dead and starts no further runtime.
Judged(l) ==
  /\ monitor[l].pc = "runtimes" /\ monitor[l].listed = {} => CliState(l) = "dead"
  /\ files[l].status # None => monitor[l].pc = "ended"
  /\ monitor[l].saw # {} => monitor[l].pc = "ended"
  /\ files[l].status = "passed" => /\ CliState(l) = "dead"
                                   /\ RuntimeState(l) \in {"none", "dead"}
                                   /\ monitor[l].saw = {}
  /\ script[l].exit = 0 => script[l].pc = "judging" \/ files[l].status = "passed"

\* What the stages of the cleanup have achieved: a command line that is alive
\* was told to end, and a runtime that is alive came after the sweep.
Cleaned(l) ==
  /\ script[l].pc \in {"sweep", "reap"} \/ Cleanly(l) =>
       (Alive(Cli(l)) => proc[Cli(l)].term)
  /\ script[l].pc = "reap" \/ Cleanly(l) => /\ Alive(Runtime(l)) => proc[Runtime(l)].late
                                            /\ monitor[l].pc \in {"none", "ended", "killed"}
  /\ Cleanly(l) => /\ proxy[l] \in {"none", "dead"}
                   /\ ~files[l].runs /\ ~files[l].ready /\ l \notin skill.held

LaunchOK(l) == Guarded(l) /\ Begun(l) /\ Judged(l) /\ Cleaned(l)

GateInv ==
  /\ GateTypes
  /\ \A l \in Launches : LaunchOK(l)
  /\ skill.held = {} => skill.installed

-----------------------------------------------------------------------------
(* What a step does to a process.                                          *)

\* Every process may end, be told to end or stop before its program begins; a
\* running one may open sockets.  What it was told, and when it started, stays.
Wanes(p) ==
  /\ proc'[p].opened => proc[p].opened \/ proc[p].state = "running"
  /\ proc'[p].late = proc[p].late
  /\ proc[p].term => proc'[p].term
  /\ \/ proc'[p].state = proc[p].state
     \/ proc'[p].state = "dead" /\ proc[p].state # "none"
     \/ proc'[p].state = "stopped" /\ proc[p].state = "booting"

LEMMA TerminatedFacts ==
  ASSUME NEW r \in Process
  PROVE  /\ Terminated(r) \in Process /\ Terminated(r).opened = r.opened
         /\ Terminated(r).late = r.late /\ (r.term => Terminated(r).term)
         /\ Terminated(r).state = IF r.state = "booting" THEN "dead" ELSE r.state
         /\ Terminated(r).state \notin {"none", "dead"} => Terminated(r).term
<1>1. CASE r.state = "booting"
  BY <1>1 DEF Terminated, Process
<1>2. CASE r.state = "running"
  BY <1>2 DEF Terminated, Process
<1>3. CASE r.state = "stopped"
  BY <1>3 DEF Terminated, Process
<1>4. CASE r.state \notin {"booting", "running", "stopped"}
  BY <1>4 DEF Terminated, Process
<1>5. QED
  BY <1>1, <1>2, <1>3, <1>4

LEMMA DeadFacts ==
  ASSUME NEW r \in Process
  PROVE  /\ Dead(r) \in Process /\ Dead(r).opened = r.opened /\ Dead(r).state = "dead"
         /\ Dead(r).late = r.late /\ Dead(r).term = r.term
BY DEF Dead, Process

LEMMA TerminateFacts ==
  ASSUME GateTypes, NEW ps, Terminate(ps)
  PROVE  /\ proc' \in [Procs -> Process]
         /\ \A p \in Procs :
              /\ Wanes(p)
              /\ p \in ps => (proc'[p].state \notin {"none", "dead"} => proc'[p].term)
<1>1. proc \in [Procs -> Process]
  BY DEF GateTypes
<1>2. proc' = [p \in Procs |-> IF p \in ps THEN Terminated(proc[p]) ELSE proc[p]]
  BY DEF Terminate
<1>3. ASSUME NEW p \in Procs
      PROVE  /\ proc'[p] \in Process /\ Wanes(p)
             /\ p \in ps => (proc'[p].state \notin {"none", "dead"} => proc'[p].term)
  <2>1. CASE p \in ps
    <3>1. proc'[p] = Terminated(proc[p]) /\ proc[p] \in Process
      BY <1>1, <1>2, <2>1
    <3>2. QED
      BY <3>1, TerminatedFacts DEF Wanes
  <2>2. CASE p \notin ps
    <3>1. proc'[p] = proc[p] /\ proc[p] \in Process
      BY <1>1, <1>2, <2>2
    <3>2. QED
      BY <2>2, <3>1 DEF Wanes
  <2>3. QED
    BY <2>1, <2>2
<1>4. QED
  BY <1>2, <1>3

LEMMA ProcSame ==
  ASSUME proc' = proc
  PROVE  \A p \in Procs : Wanes(p)
BY DEF Wanes

-----------------------------------------------------------------------------
(* Launches that take no part in a step.                                   *)

\* A step of launch l leaves the records of launch k alone.
Apart(k) ==
  /\ script'[k] = script[k] /\ proxy'[k] = proxy[k] /\ monitor'[k] = monitor[k]
  /\ files'[k] = files[k] /\ (k \in skill'.held => k \in skill.held)

LEMMA BystanderOK ==
  ASSUME NEW k \in Launches, LaunchOK(k), Apart(k), Wanes(Cli(k)), Wanes(Runtime(k))
  PROVE  LaunchOK(k)'
<1>1. Guarded(k)'
  BY DEF LaunchOK, Guarded, Apart, Wanes, CliState, RuntimeState
<1>2. Begun(k)'
  BY DEF LaunchOK, Begun, Apart, Wanes, CliState, RuntimeState
<1>3. Judged(k)'
  BY DEF LaunchOK, Judged, Apart, Wanes, CliState, RuntimeState
<1>4. Cleaned(k)'
  BY DEF LaunchOK, Cleaned, Cleanly, Apart, Wanes, Alive
<1>5. QED
  BY <1>1, <1>2, <1>3, <1>4 DEF LaunchOK

\* Only the start, the resumption and a daemon of its own make a process of a
\* launch do more than wane.
LEMMA OthersOK ==
  ASSUME GateInv, NEW l \in Launches, LaunchOK(l)', GateTypes',
         \A k \in Launches : k # l => Apart(k),
         \A p \in Procs : p = Cli(l) \/ p = Runtime(l) \/ Wanes(p),
         skill'.held = {} => skill'.installed
  PROVE  GateInv'
<1>1. ASSUME NEW k \in Launches, k # l PROVE LaunchOK(k)'
  <2>1. Wanes(Cli(k)) /\ Wanes(Runtime(k))
    BY <1>1, ProcNames
  <2>2. QED
    BY <1>1, <2>1, BystanderOK DEF GateInv
<1>2. QED
  BY <1>1 DEF GateInv

-----------------------------------------------------------------------------
(* The script.                                                             *)

\* The script of l moves on to a stage.
ScriptMoves(l, pc, exit, cut) ==
  /\ script' \in [Launches -> Script]
  /\ script'[l].pc = pc /\ script'[l].exit = exit /\ script'[l].cut = cut
  /\ \A k \in Launches : k # l => script'[k] = script[k]

LEMMA GoesFacts ==
  ASSUME GateTypes, NEW l \in Launches, NEW pc \in ScriptStages, Goes(l, pc)
  PROVE  ScriptMoves(l, pc, script[l].exit, script[l].cut)
<1>1. script \in [Launches -> Script] /\ script[l] \in Script
  BY DEF GateTypes
<1>2. script' = [script EXCEPT ![l] = [script[l] EXCEPT !.pc = pc]]
  BY <1>1 DEF Goes
<1>3. [script[l] EXCEPT !.pc = pc] \in Script
  BY <1>1 DEF Script
<1>4. QED
  BY <1>1, <1>2, <1>3 DEF ScriptMoves, Script

LEMMA ExitsFacts ==
  ASSUME GateTypes, NEW l \in Launches, NEW code \in {None, 0, 1, 130}, Exits(l, code)
  PROVE  ScriptMoves(l, "cleanup", code, script[l].cut)
<1>1. script \in [Launches -> Script] /\ script[l] \in Script
  BY DEF GateTypes
<1> DEFINE first == [script EXCEPT ![l].pc = "cleanup"]
<1>2. /\ first \in [Launches -> Script] /\ first[l] \in Script
      /\ first[l].pc = "cleanup" /\ first[l].cut = script[l].cut
      /\ \A k \in Launches : k # l => first[k] = script[k]
  BY <1>1 DEF Script, ScriptStages
<1>3. script' = [first EXCEPT ![l].exit = code]
  BY <1>1 DEF Exits
<1> HIDE DEF first
<1>4. QED
  BY <1>2, <1>3 DEF ScriptMoves, Script

\* A move of the script alone, to a stage that promises nothing of the rest.
LEMMA ScriptAloneOK ==
  ASSUME GateInv, NEW l \in Launches, NEW pc, NEW exit, NEW cut,
         ScriptMoves(l, pc, exit, cut),
         UNCHANGED <<proxy, proc, monitor, files, skill>>,
         pc \notin {"idle", "guarding", "sweep", "reap", "ended"},
         pc \in Early => script[l].pc \in Early,
         exit = 0 => pc = "judging" \/ files[l].status = "passed"
  PROVE  GateInv'
<1>1. GateTypes' /\ (skill'.held = {} => skill'.installed)
  BY DEF GateInv, GateTypes, ScriptMoves
<1>2. LaunchOK(l)
  BY DEF GateInv
<1>3. Guarded(l)'
  BY <1>2 DEF LaunchOK, Guarded, CliState, RuntimeState
<1>4. Begun(l)'
  BY <1>2 DEF LaunchOK, Begun, ScriptMoves, CliState, RuntimeState
<1>5. Judged(l)'
  BY <1>2 DEF LaunchOK, Judged, ScriptMoves, CliState, RuntimeState
<1>6. Cleaned(l)'
  BY DEF Cleaned, Cleanly, ScriptMoves
<1>7. \A k \in Launches : k # l => Apart(k)
  BY DEF ScriptMoves, Apart
<1>8. QED
  BY <1>1, <1>3, <1>4, <1>5, <1>6, <1>7, ProcSame, OthersOK DEF LaunchOK

LEMMA ScriptAloneKeeps ==
  ASSUME GateInv, NEW l \in Launches,
         \/ Healthy(l) \/ Unhealthy(l) \/ (\E b \in BOOLEAN : Probe(l, b))
         \/ (\E code \in {0, 1} : AgentEnds(l, code)) \/ AuditEnds(l)
  PROVE  GateInv'
<1>1. /\ GateTypes /\ script[l].exit \in {None, 0, 1, 130}
      /\ script[l].exit = 0 => script[l].pc = "judging" \/ files[l].status = "passed"
  BY DEF GateInv, GateTypes, Script, LaunchOK, Judged
<1>2. UNCHANGED <<proxy, proc, monitor, files, skill>>
  BY DEF Healthy, Unhealthy, Probe, AgentEnds, AuditEnds
<1>3. CASE Healthy(l)
  <2>1. ScriptMoves(l, "probing", script[l].exit, script[l].cut) /\ script[l].pc = "health"
    BY <1>1, <1>3, GoesFacts DEF Healthy, At, ScriptStages
  <2>2. QED
    BY <1>1, <1>2, <2>1, ScriptAloneOK DEF Early
<1>4. ASSUME Exits(l, 1) PROVE GateInv'
  <2>1. ScriptMoves(l, "cleanup", 1, script[l].cut)
    BY <1>1, <1>4, ExitsFacts
  <2>2. QED
    BY <1>2, <2>1, ScriptAloneOK DEF Early
<1>5. CASE Unhealthy(l)
  BY <1>4, <1>5 DEF Unhealthy
<1>6. ASSUME NEW b \in BOOLEAN, Probe(l, b) PROVE GateInv'
  <2>1. CASE b
    <3>1. ScriptMoves(l, "spawning", script[l].exit, script[l].cut) /\ script[l].pc = "probing"
      BY <1>1, <1>6, <2>1, GoesFacts DEF Probe, At, ScriptStages
    <3>2. QED
      BY <1>1, <1>2, <3>1, ScriptAloneOK DEF Early
  <2>2. CASE ~b
    BY <1>4, <1>6, <2>2 DEF Probe
  <2>3. QED
    BY <2>1, <2>2
<1>7. ASSUME NEW code \in {0, 1}, AgentEnds(l, code) PROVE GateInv'
  <2>1. CASE At(l, "refused")
    BY <1>4, <1>7, <2>1 DEF AgentEnds
  <2>2. CASE ~At(l, "refused")
    <3> DEFINE exit == IF At(l, "aborted") THEN 130 ELSE code
               first == [script EXCEPT ![l].pc = "judging"]
    <3>1. exit \in {None, 0, 1, 130}
      OBVIOUS
    <3>2. script' = [first EXCEPT ![l].exit = exit]
      BY <1>7, <2>2 DEF AgentEnds
    <3> HIDE DEF exit
    <3>3. /\ first \in [Launches -> Script] /\ first[l].pc = "judging"
          /\ first[l].cut = script[l].cut /\ \A k \in Launches : k # l => first[k] = script[k]
      BY <1>1 DEF GateTypes, Script, ScriptStages
    <3> HIDE DEF first
    <3>4. ScriptMoves(l, "judging", exit, script[l].cut)
      BY <3>1, <3>2, <3>3 DEF ScriptMoves, Script
    <3>5. QED
      BY <1>2, <3>4, ScriptAloneOK DEF Early
  <2>3. QED
    BY <2>1, <2>2
<1>8. CASE AuditEnds(l)
  <2>1. ScriptMoves(l, "cleanup", script[l].exit, script[l].cut) /\ script[l].pc = "auditing"
    BY <1>1, <1>8, ExitsFacts DEF AuditEnds, At
  <2>2. QED
    BY <1>1, <1>2, <2>1, ScriptAloneOK DEF Early
<1>9. QED
  BY <1>3, <1>5, <1>6, <1>7, <1>8

LEMMA PreflightKeeps ==
  ASSUME GateInv, NEW l \in Launches, Preflight(l)
  PROVE  GateInv'
<1>1. GateTypes /\ LaunchOK(l) /\ script[l].pc = "idle" /\ (skill.held = {} => skill.installed)
  BY DEF GateInv, Preflight, At
<1>2. UNCHANGED <<proc, monitor, files, skill>>
  BY DEF Preflight
<1>3. /\ \/ ScriptMoves(l, "untrapped", script[l].exit, script[l].cut)
         \/ ScriptMoves(l, "ended", 1, script[l].cut) /\ proxy' = proxy
      /\ proxy' \in [Launches -> {"none", "starting", "up", "dead"}]
      /\ \A k \in Launches : k # l => proxy'[k] = proxy[k]
  <2>1. CASE Runtimes = {}
    BY <1>1, <2>1, GoesFacts DEF Preflight, GateTypes, ScriptStages
  <2>2. CASE Runtimes # {}
    <3> DEFINE first == [script EXCEPT ![l].pc = "ended"]
    <3>1. /\ first \in [Launches -> Script] /\ first[l].pc = "ended"
          /\ first[l].cut = script[l].cut /\ \A k \in Launches : k # l => first[k] = script[k]
      BY <1>1 DEF GateTypes, Script, ScriptStages
    <3>2. script' = [first EXCEPT ![l].exit = 1] /\ proxy' = proxy
      BY <2>2 DEF Preflight
    <3> HIDE DEF first
    <3>3. ScriptMoves(l, "ended", 1, script[l].cut)
      BY <3>1, <3>2 DEF ScriptMoves, Script
    <3>4. QED
      BY <1>1, <3>2, <3>3 DEF GateTypes
  <2>3. QED
    BY <2>1, <2>2
<1>4. GateTypes' /\ (skill'.held = {} => skill'.installed)
  BY <1>1, <1>2, <1>3 DEF GateTypes, ScriptMoves
<1>5. Guarded(l)'
  BY <1>1, <1>2 DEF LaunchOK, Guarded, CliState, RuntimeState
<1>6. Begun(l)'
  BY <1>1, <1>2, <1>3 DEF LaunchOK, Begun, Early, ScriptMoves, CliState, RuntimeState
<1>7. Judged(l)'
  BY <1>1, <1>2, <1>3 DEF LaunchOK, Judged, ScriptMoves, CliState, RuntimeState
<1>8. Cleaned(l)'
  BY <1>1, <1>2, <1>3
  DEF LaunchOK, Begun, Early, Cleaned, Cleanly, ScriptMoves, Alive, CliState, RuntimeState
<1>9. \A k \in Launches : k # l => Apart(k)
  BY <1>2, <1>3 DEF ScriptMoves, Apart
<1>10. QED
  BY <1>2, <1>4, <1>5, <1>6, <1>7, <1>8, <1>9, ProcSame, OthersOK DEF LaunchOK

LEMMA PrepareSkillKeeps ==
  ASSUME GateInv, NEW l \in Launches, NEW wanted \in BOOLEAN, PrepareSkill(l, wanted)
  PROVE  GateInv'
<1>1. /\ GateTypes /\ LaunchOK(l) /\ script[l].pc = "untrapped"
      /\ skill \in [installed : BOOLEAN, held : SUBSET Launches]
      /\ (skill.held = {} => skill.installed)
  BY DEF GateInv, GateTypes, PrepareSkill, At
<1>2. UNCHANGED <<proxy, proc, monitor, files>>
  BY DEF PrepareSkill
<1>3. ScriptMoves(l, "health", script[l].exit, script[l].cut)
  BY <1>1, GoesFacts DEF PrepareSkill, Goes, ScriptStages
<1>4. /\ skill' \in [installed : BOOLEAN, held : SUBSET Launches]
      /\ skill'.held = {} => skill'.installed
      /\ \A k \in Launches : k # l => (k \in skill'.held => k \in skill.held)
  BY <1>1 DEF PrepareSkill
<1>5. GateTypes'
  BY <1>1, <1>2, <1>3, <1>4 DEF GateTypes, ScriptMoves
<1>6. Guarded(l)'
  BY <1>1, <1>2 DEF LaunchOK, Guarded, CliState, RuntimeState
<1>7. Begun(l)'
  BY <1>1, <1>2, <1>3 DEF LaunchOK, Begun, Early, ScriptMoves, CliState, RuntimeState
<1>8. Judged(l)'
  BY <1>1, <1>2, <1>3 DEF LaunchOK, Judged, ScriptMoves, CliState, RuntimeState
<1>9. Cleaned(l)'
  BY <1>3 DEF Cleaned, Cleanly, ScriptMoves
<1>10. \A k \in Launches : k # l => Apart(k)
  BY <1>2, <1>3, <1>4 DEF ScriptMoves, Apart
<1>11. QED
  BY <1>2, <1>4, <1>5, <1>6, <1>7, <1>8, <1>9, <1>10, ProcSame, OthersOK DEF LaunchOK

LEMMA ProcChanged ==
  ASSUME GateTypes, NEW p \in Procs, NEW r \in Process, proc' = [proc EXCEPT ![p] = r]
  PROVE  /\ proc' \in [Procs -> Process] /\ proc'[p] = r
         /\ \A q \in Procs : q # p => proc'[q] = proc[q] /\ Wanes(q)
BY DEF GateTypes, Wanes

LEMMA StartAgentKeeps ==
  ASSUME GateInv, NEW l \in Launches, StartAgent(l)
  PROVE  GateInv'
<1>1. /\ GateTypes /\ LaunchOK(l) /\ script[l].pc = "spawning"
      /\ (skill.held = {} => skill.installed)
      /\ proc \in [Procs -> Process] /\ proc[Cli(l)] \in Process
      /\ files \in [Launches -> Files] /\ files[l] \in Files
  BY ProcNames DEF GateInv, GateTypes, StartAgent, At
<1>2. UNCHANGED <<proxy, monitor, skill>>
  BY DEF StartAgent
<1>3. ScriptMoves(l, "guarding", script[l].exit, script[l].cut)
  BY <1>1, GoesFacts DEF StartAgent, ScriptStages
<1> DEFINE r == [proc[Cli(l)] EXCEPT !.state = "booting"]
<1>4. /\ r \in Process /\ r.state = "booting" /\ r.opened = proc[Cli(l)].opened
      /\ proc' = [proc EXCEPT ![Cli(l)] = r]
  BY <1>1 DEF StartAgent, Process
<1> HIDE DEF r
<1>5. /\ proc' \in [Procs -> Process] /\ proc'[Cli(l)] = r
      /\ \A q \in Procs : q # Cli(l) => proc'[q] = proc[q] /\ Wanes(q)
  BY <1>1, <1>4, ProcNames, ProcChanged
<1>6. /\ files' \in [Launches -> Files] /\ files'[l].ready = files[l].ready
      /\ files'[l].status = files[l].status
      /\ \A k \in Launches : k # l => files'[k] = files[k]
  BY <1>1 DEF StartAgent, Files
<1>7. GateTypes'
  BY <1>1, <1>2, <1>3, <1>5, <1>6 DEF GateTypes, ScriptMoves
<1>8. proc'[Runtime(l)] = proc[Runtime(l)]
  BY <1>5, ProcNames
<1>9. Guarded(l)'
  BY <1>1, <1>2, <1>4, <1>5, <1>6, <1>8 DEF LaunchOK, Guarded, CliState, RuntimeState
<1>10. Begun(l)'
  BY <1>1, <1>2, <1>3, <1>4, <1>5, <1>8
  DEF LaunchOK, Begun, Early, ScriptMoves, CliState, RuntimeState
<1>11. Judged(l)'
  BY <1>1, <1>2, <1>3, <1>4, <1>5, <1>6, <1>8
  DEF LaunchOK, Judged, Begun, Early, ScriptMoves, CliState, RuntimeState
<1>12. Cleaned(l)'
  BY <1>3 DEF Cleaned, Cleanly, ScriptMoves
<1>13. \A k \in Launches : k # l => Apart(k)
  BY <1>2, <1>3, <1>6 DEF ScriptMoves, Apart
<1>14. QED
  BY <1>1, <1>2, <1>5, <1>7, <1>9, <1>10, <1>11, <1>12, <1>13, OthersOK DEF LaunchOK

\* The monitor of l moves on.
MonitorMoves(l, pc, proved, listed, saw) ==
  /\ monitor' \in [Launches -> Monitor]
  /\ monitor'[l].pc = pc /\ monitor'[l].proved = proved
  /\ monitor'[l].listed = listed /\ monitor'[l].saw = saw
  /\ \A k \in Launches : k # l => monitor'[k] = monitor[k]

MonitorStages == {"none", "proving", "group", "runtimes", "sockets", "ended", "killed"}

LEMMA WatchesFacts ==
  ASSUME GateTypes, NEW l \in Launches, NEW pc \in MonitorStages, Watches(l, pc)
  PROVE  MonitorMoves(l, pc, monitor[l].proved, monitor[l].listed, monitor[l].saw)
<1>1. monitor \in [Launches -> Monitor] /\ monitor[l] \in Monitor
  BY DEF GateTypes
<1>2. monitor' = [monitor EXCEPT ![l] = [monitor[l] EXCEPT !.pc = pc]]
  BY <1>1 DEF Watches
<1>3. [monitor[l] EXCEPT !.pc = pc] \in Monitor
  BY <1>1 DEF Monitor, MonitorStages
<1>4. QED
  BY <1>1, <1>2, <1>3 DEF MonitorMoves, Monitor

LEMMA StartMonitorKeeps ==
  ASSUME GateInv, NEW l \in Launches, StartMonitor(l)
  PROVE  GateInv'
<1>1. /\ GateTypes /\ LaunchOK(l) /\ script[l].pc = "guarding"
      /\ (skill.held = {} => skill.installed)
  BY DEF GateInv, StartMonitor, At
<1>2. UNCHANGED <<proxy, proc, files, skill>>
  BY DEF StartMonitor
<1>3. ScriptMoves(l, "gate", script[l].exit, script[l].cut)
  BY <1>1, GoesFacts DEF StartMonitor, ScriptStages
<1>4. MonitorMoves(l, "proving", monitor[l].proved, monitor[l].listed, monitor[l].saw)
  BY <1>1, WatchesFacts DEF StartMonitor, Watches, MonitorStages
<1>5. GateTypes'
  BY <1>1, <1>2, <1>3, <1>4 DEF GateTypes, ScriptMoves, MonitorMoves
<1>6. Guarded(l)'
  BY <1>1, <1>2, <1>4 DEF LaunchOK, Guarded, MonitorMoves, CliState, RuntimeState
<1>7. Begun(l)'
  BY <1>1, <1>2, <1>3, <1>4
  DEF LaunchOK, Begun, Early, ScriptMoves, MonitorMoves, CliState, RuntimeState
<1>8. Judged(l)'
  BY <1>1, <1>2, <1>3, <1>4
  DEF LaunchOK, Judged, Begun, ScriptMoves, MonitorMoves, CliState, RuntimeState
<1>9. Cleaned(l)'
  BY <1>3 DEF Cleaned, Cleanly, ScriptMoves
<1>10. \A k \in Launches : k # l => Apart(k)
  BY <1>2, <1>3, <1>4 DEF ScriptMoves, MonitorMoves, Apart
<1>11. QED
  BY <1>1, <1>2, <1>5, <1>6, <1>7, <1>8, <1>9, <1>10, ProcSame, OthersOK DEF LaunchOK

\* The agent is resumed behind an open gate.
LEMMA ResumeKeeps ==
  ASSUME GateInv, NEW l \in Launches, Resume(l)
  PROVE  GateInv'
<1>1. /\ GateTypes /\ LaunchOK(l) /\ script[l].pc = "gate" /\ files[l].ready
      /\ (skill.held = {} => skill.installed)
      /\ proc \in [Procs -> Process] /\ proc[Cli(l)] \in Process
  BY ProcNames DEF GateInv, GateTypes, Resume, At, OpenGate
<1>2. UNCHANGED <<proxy, monitor, files, skill>>
  BY DEF Resume
<1>3. ScriptMoves(l, "waiting", script[l].exit, script[l].cut)
  BY <1>1, GoesFacts DEF Resume, ScriptStages
<1> DEFINE r == Continued(proc[Cli(l)])
<1>4. /\ r \in Process /\ r.opened = proc[Cli(l)].opened
      /\ r.state = proc[Cli(l)].state \/ proc[Cli(l)].state = "stopped"
      /\ r.state = "none" <=> proc[Cli(l)].state = "none"
      /\ proc[Cli(l)].state = "dead" => r.state = "dead"
  BY <1>1 DEF Continued, Process
<1>5. proc' = [proc EXCEPT ![Cli(l)] = r]
  BY DEF Resume
<1> HIDE DEF r
<1>6. /\ proc' \in [Procs -> Process] /\ proc'[Cli(l)] = r
      /\ \A q \in Procs : q # Cli(l) => proc'[q] = proc[q] /\ Wanes(q)
  BY <1>1, <1>4, <1>5, ProcNames, ProcChanged
<1>7. GateTypes'
  BY <1>1, <1>2, <1>3, <1>6 DEF GateTypes, ScriptMoves
<1>8. proc'[Runtime(l)] = proc[Runtime(l)]
  BY <1>6, ProcNames
<1>9. Guarded(l)'
  BY <1>1, <1>2, <1>4, <1>6, <1>8 DEF LaunchOK, Guarded, CliState, RuntimeState
<1>10. Begun(l)'
  BY <1>1, <1>2, <1>3, <1>4, <1>6, <1>8
  DEF LaunchOK, Begun, Early, ScriptMoves, CliState, RuntimeState
<1>11. Judged(l)'
  BY <1>1, <1>2, <1>3, <1>4, <1>6, <1>8
  DEF LaunchOK, Judged, ScriptMoves, CliState, RuntimeState
<1>12. Cleaned(l)'
  BY <1>3 DEF Cleaned, Cleanly, ScriptMoves
<1>13. \A k \in Launches : k # l => Apart(k)
  BY <1>2, <1>3 DEF ScriptMoves, Apart
<1>14. QED
  BY <1>1, <1>2, <1>6, <1>7, <1>9, <1>10, <1>11, <1>12, <1>13, OthersOK DEF LaunchOK

\* The script tells the agent to end: the gate stays shut, a user's stop, or
\* the beginning of the cleanup.
LEMMA TellKeeps ==
  ASSUME GateInv, NEW l \in Launches, Refuse(l) \/ Abort(l) \/ CleanTerminate(l)
  PROVE  GateInv'
<1>1. /\ GateTypes /\ LaunchOK(l) /\ script[l].pc \in {"gate", "waiting", "cleanup"}
      /\ (skill.held = {} => skill.installed)
  BY DEF GateInv, Refuse, Abort, CleanTerminate, At
<1>2. UNCHANGED <<proxy, monitor, files, skill>>
  BY DEF Refuse, Abort, CleanTerminate
<1>3. PICK pc \in {"refused", "aborted", "sweep"} :
        ScriptMoves(l, pc, script[l].exit, script[l].cut)
  <2>1. CASE Refuse(l)
    BY <1>1, <2>1, GoesFacts DEF Refuse, ScriptStages
  <2>2. CASE Abort(l)
    BY <1>1, <2>2, GoesFacts DEF Abort, ScriptStages
  <2>3. CASE CleanTerminate(l)
    BY <1>1, <2>3, GoesFacts DEF CleanTerminate, ScriptStages
  <2>4. QED
    BY <2>1, <2>2, <2>3
<1>4. PICK ps : Terminate(ps) /\ Cli(l) \in ps
  BY DEF Refuse, Abort, CleanTerminate
<1>5. /\ proc' \in [Procs -> Process] /\ \A p \in Procs : Wanes(p)
      /\ Alive(Cli(l))' => proc'[Cli(l)].term
  <2>1. Cli(l) \in Procs
    BY ProcNames
  <2>2. QED
    BY <1>1, <1>4, <2>1, TerminateFacts DEF Alive
<1>6. Wanes(Cli(l)) /\ Wanes(Runtime(l))
  BY <1>5, ProcNames
<1>7. GateTypes'
  BY <1>1, <1>2, <1>3, <1>5 DEF GateTypes, ScriptMoves
<1>8. Guarded(l)'
  BY <1>1, <1>2, <1>6 DEF LaunchOK, Guarded, Wanes, CliState, RuntimeState
<1>9. Begun(l)'
  BY <1>1, <1>2, <1>3, <1>6
  DEF LaunchOK, Begun, Early, ScriptMoves, Wanes, CliState, RuntimeState
<1>10. Judged(l)'
  BY <1>1, <1>2, <1>3, <1>6
  DEF LaunchOK, Judged, ScriptMoves, Wanes, CliState, RuntimeState
<1>11. Cleaned(l)'
  BY <1>3, <1>5 DEF Cleaned, Cleanly, ScriptMoves
<1>12. \A k \in Launches : k # l => Apart(k)
  BY <1>2, <1>3 DEF ScriptMoves, Apart
<1>13. QED
  BY <1>1, <1>2, <1>5, <1>7, <1>8, <1>9, <1>10, <1>11, <1>12, OthersOK DEF LaunchOK

\* Without the verdict of a monitor that ended, no exit code is a success.
LEMMA JudgeKeeps ==
  ASSUME GateInv, NEW l \in Launches, NEW audit \in BOOLEAN, Judge(l, audit)
  PROVE  GateInv'
<1>1. /\ GateTypes /\ LaunchOK(l) /\ script[l].pc = "judging"
      /\ (skill.held = {} => skill.installed)
      /\ files \in [Launches -> Files] /\ files[l] \in Files
      /\ script[l].exit \in {None, 0, 1, 130}
  BY DEF GateInv, GateTypes, Script, Judge, At
<1>2. UNCHANGED <<proxy, proc, monitor, skill>>
  BY DEF Judge
<1>3. /\ files' \in [Launches -> Files] /\ files'[l].ready = files[l].ready
      /\ files'[l].status = files[l].status
      /\ \A k \in Launches : k # l => files'[k] = files[k]
  BY <1>1 DEF Judge, Files
<1>4. PICK pc \in {"auditing", "cleanup"}, exit \in {None, 0, 1, 130} :
        /\ ScriptMoves(l, pc, exit, script[l].cut)
        /\ exit = 0 => files[l].status = "passed"
  <2>1. CASE ~Verdict(l)
    BY <1>1, <2>1, ExitsFacts DEF Judge
  <2>2. CASE Verdict(l) /\ audit
    <3>1. ScriptMoves(l, "auditing", script[l].exit, script[l].cut)
      BY <1>1, <2>2, GoesFacts DEF Judge, ScriptStages
    <3>2. QED
      BY <1>1, <2>2, <3>1 DEF Verdict
  <2>3. CASE Verdict(l) /\ ~audit
    <3>1. ScriptMoves(l, "cleanup", script[l].exit, script[l].cut)
      BY <1>1, <2>3, ExitsFacts DEF Judge
    <3>2. QED
      BY <1>1, <2>3, <3>1 DEF Verdict
  <2>4. QED
    BY <2>1, <2>2, <2>3
<1>5. GateTypes'
  BY <1>1, <1>2, <1>3, <1>4 DEF GateTypes, ScriptMoves
<1>6. Guarded(l)'
  BY <1>1, <1>2, <1>3 DEF LaunchOK, Guarded, CliState, RuntimeState
<1>7. Begun(l)'
  BY <1>1, <1>2, <1>4 DEF LaunchOK, Begun, Early, ScriptMoves, CliState, RuntimeState
<1>8. Judged(l)'
  BY <1>1, <1>2, <1>3, <1>4 DEF LaunchOK, Judged, ScriptMoves, CliState, RuntimeState
<1>9. Cleaned(l)'
  BY <1>4 DEF Cleaned, Cleanly, ScriptMoves
<1>10. \A k \in Launches : k # l => Apart(k)
  BY <1>2, <1>3, <1>4 DEF ScriptMoves, Apart
<1>11. QED
  BY <1>1, <1>2, <1>5, <1>6, <1>7, <1>8, <1>9, <1>10, ProcSame, OthersOK DEF LaunchOK

\* A signal, before the trap is set, in the run of the script, or in the trap.
LEMMA InterruptKeeps ==
  ASSUME GateInv, NEW l \in Launches, NEW group \in BOOLEAN, Interrupt(l, group)
  PROVE  GateInv'
<1>1. /\ GateTypes /\ LaunchOK(l) /\ (skill.held = {} => skill.installed)
      /\ script \in [Launches -> Script] /\ script[l] \in Script
      /\ proxy \in [Launches -> {"none", "starting", "up", "dead"}]
  BY DEF GateInv, GateTypes
<1>2. UNCHANGED <<proc, files, skill>>
  BY DEF Interrupt
<1>3. PICK pc \in {"ended", "cleanup"}, cut \in BOOLEAN :
        ScriptMoves(l, pc, 130, cut) /\ (pc = "ended" => cut)
  <2> DEFINE pc == IF CutShort(l) THEN "ended" ELSE "cleanup"
             r == [pc |-> pc, exit |-> 130, signals |-> script[l].signals + 1,
                   cut |-> CutShort(l)]
  <2>1. script'[l] = r /\ \A k \in Launches : k # l => script'[k] = script[k]
    BY <1>1 DEF Interrupt, Script
  <2>2. CutShort(l) \in BOOLEAN
    BY DEF CutShort
  <2>3. r \in Script
    BY <1>1, <2>2 DEF Script, ScriptStages
  <2>4. script' \in [Launches -> Script]
    <3>1. DOMAIN script' = Launches /\ script' = [k \in Launches |-> script'[k]]
      BY <1>1 DEF Interrupt
    <3>2. QED
      BY <1>1, <2>1, <2>3, <3>1
  <2>5. ScriptMoves(l, pc, 130, CutShort(l))
    BY <2>1, <2>4 DEF ScriptMoves
  <2>6. QED
    BY <2>2, <2>5
<1>4. /\ proxy' \in [Launches -> {"none", "starting", "up", "dead"}]
      /\ \A k \in Launches : k # l => proxy'[k] = proxy[k]
  BY <1>1 DEF Interrupt
<1>5. PICK mpc \in MonitorStages :
        /\ MonitorMoves(l, mpc, monitor[l].proved, monitor[l].listed, monitor[l].saw)
        /\ mpc = monitor[l].pc \/ (mpc = "killed" /\ monitor[l].pc \notin {"none", "ended"})
  <2>1. monitor \in [Launches -> Monitor] /\ monitor[l] \in Monitor
    BY <1>1 DEF GateTypes
  <2>2. CASE group
    <3> DEFINE mpc == IF monitor[l].pc \in {"none", "ended"} THEN monitor[l].pc ELSE "killed"
    <3>1. mpc \in MonitorStages
      BY <2>1 DEF Monitor, MonitorStages
    <3>2. Watches(l, mpc)
      BY <2>1, <2>2 DEF Interrupt, Watches
    <3>3. MonitorMoves(l, mpc, monitor[l].proved, monitor[l].listed, monitor[l].saw)
      BY <1>1, <3>1, <3>2, WatchesFacts
    <3>4. QED
      BY <3>1, <3>3
  <2>3. CASE ~group
    <3>1. monitor' = monitor /\ monitor[l].pc \in MonitorStages
      BY <2>1, <2>3 DEF Interrupt, Monitor, MonitorStages
    <3>2. QED
      BY <2>1, <3>1 DEF MonitorMoves
  <2>4. QED
    BY <2>2, <2>3
<1>6. GateTypes'
  BY <1>1, <1>2, <1>3, <1>4, <1>5 DEF GateTypes, ScriptMoves, MonitorMoves
<1>7. Guarded(l)'
  BY <1>1, <1>2, <1>5 DEF LaunchOK, Guarded, MonitorMoves, CliState, RuntimeState
<1>8. Begun(l)'
  BY <1>1, <1>2, <1>3, <1>5
  DEF LaunchOK, Begun, Early, ScriptMoves, MonitorMoves, CliState, RuntimeState
<1>9. Judged(l)'
  BY <1>1, <1>2, <1>3, <1>5
  DEF LaunchOK, Judged, ScriptMoves, MonitorMoves, CliState, RuntimeState
<1>10. Cleaned(l)'
  BY <1>3 DEF Cleaned, Cleanly, ScriptMoves
<1>11. \A k \in Launches : k # l => Apart(k)
  BY <1>2, <1>3, <1>4, <1>5 DEF ScriptMoves, MonitorMoves, Apart
<1>12. QED
  BY <1>1, <1>2, <1>6, <1>7, <1>8, <1>9, <1>10, <1>11, ProcSame, OthersOK DEF LaunchOK

\* Every runtime there is is killed; one that comes later is late.
LEMMA CleanSweepKeeps ==
  ASSUME GateInv, NEW l \in Launches, CleanSweep(l)
  PROVE  GateInv'
<1>1. /\ GateTypes /\ LaunchOK(l) /\ script[l].pc = "sweep"
      /\ (skill.held = {} => skill.installed)
      /\ proc \in [Procs -> Process]
      /\ monitor \in [Launches -> Monitor] /\ monitor[l] \in Monitor
  BY DEF GateInv, GateTypes, CleanSweep, At
<1>2. UNCHANGED <<proxy, files, skill>>
  BY DEF CleanSweep
<1>3. ScriptMoves(l, "reap", script[l].exit, script[l].cut)
  BY <1>1, GoesFacts DEF CleanSweep, ScriptStages
<1>4. /\ proc' \in [Procs -> Process]
      /\ \A p \in Procs : Wanes(p) /\ (p \in Runtimes => proc'[p].state = "dead")
      /\ \A p \in Procs : p \notin Runtimes => proc'[p] = proc[p]
  <2>1. proc' = [p \in Procs |-> IF p \in Runtimes THEN Dead(proc[p]) ELSE proc[p]]
    BY DEF CleanSweep, Swept
  <2>2. ASSUME NEW p \in Procs
        PROVE  /\ proc'[p] \in Process /\ Wanes(p) /\ (p \in Runtimes => proc'[p].state = "dead")
               /\ p \notin Runtimes => proc'[p] = proc[p]
    <3>1. CASE p \in Runtimes
      <4>1. proc'[p] = Dead(proc[p]) /\ proc[p] \in Process /\ proc[p].state # "none"
        BY <1>1, <2>1, <3>1 DEF Runtimes, Alive
      <4>2. QED
        BY <3>1, <4>1, DeadFacts DEF Wanes
    <3>2. CASE p \notin Runtimes
      <4>1. proc'[p] = proc[p] /\ proc[p] \in Process
        BY <1>1, <2>1, <3>2
      <4>2. QED
        BY <3>2, <4>1 DEF Wanes
    <3>3. QED
      BY <3>1, <3>2
  <2>3. QED
    BY <2>1, <2>2
<1>5. PICK mpc \in {"none", "ended", "killed"} :
        /\ MonitorMoves(l, mpc, monitor[l].proved, monitor[l].listed, monitor[l].saw)
        /\ mpc = monitor[l].pc \/ (mpc = "killed" /\ monitor[l].pc \notin {"none", "ended"})
  <2> DEFINE mpc == IF monitor[l].pc \in {"none", "ended"} THEN monitor[l].pc ELSE "killed"
  <2>1. mpc \in {"none", "ended", "killed"} /\ mpc \in MonitorStages
    BY DEF MonitorStages
  <2>2. Watches(l, mpc)
    BY <1>1 DEF CleanSweep, Watches
  <2>3. MonitorMoves(l, mpc, monitor[l].proved, monitor[l].listed, monitor[l].saw)
    BY <1>1, <2>1, <2>2, WatchesFacts
  <2>4. QED
    BY <2>1, <2>3
<1>6. ~Alive(Runtime(l))' /\ proc'[Cli(l)] = proc[Cli(l)]
  <2>1. proc'[Cli(l)] = proc[Cli(l)]
    BY <1>4, ProcNames
  <2>2. CASE Alive(Runtime(l))
    <3>1. Runtime(l) \in Procs /\ Runtime(l) \in Runtimes
      BY <2>2, ProcNames
    <3>2. proc'[Runtime(l)].state = "dead"
      BY <1>4, <3>1
    <3>3. QED
      BY <2>1, <3>2 DEF Alive
  <2>3. CASE ~Alive(Runtime(l))
    <3>1. Runtime(l) \in Procs /\ Runtime(l) \notin Runtimes
      BY <2>3, ProcNames
    <3>2. proc'[Runtime(l)] = proc[Runtime(l)]
      BY <1>4, <3>1
    <3>3. QED
      BY <2>1, <2>3, <3>2 DEF Alive
  <2>4. QED
    BY <2>1, <2>2, <2>3
<1>7. Wanes(Cli(l)) /\ Wanes(Runtime(l))
  BY <1>4, ProcNames
<1>8. GateTypes'
  BY <1>1, <1>2, <1>3, <1>4, <1>5 DEF GateTypes, ScriptMoves, MonitorMoves
<1>9. Guarded(l)'
  BY <1>1, <1>2, <1>5, <1>7 DEF LaunchOK, Guarded, MonitorMoves, Wanes, CliState, RuntimeState
<1>10. Begun(l)'
  BY <1>1, <1>2, <1>3, <1>5, <1>7
  DEF LaunchOK, Begun, Early, ScriptMoves, MonitorMoves, Wanes, CliState, RuntimeState
<1>11. Judged(l)'
  BY <1>1, <1>2, <1>3, <1>5, <1>7
  DEF LaunchOK, Judged, ScriptMoves, MonitorMoves, Wanes, CliState, RuntimeState
<1>12. Cleaned(l)'
  <2>1. Alive(Cli(l))' => Alive(Cli(l))
    BY <1>6 DEF Alive
  <2>2. QED
    BY <1>1, <1>3, <1>5, <1>6, <2>1 DEF LaunchOK, Cleaned, Cleanly, ScriptMoves, MonitorMoves
<1>13. \A k \in Launches : k # l => Apart(k)
  BY <1>2, <1>3, <1>5 DEF ScriptMoves, MonitorMoves, Apart
<1>14. QED
  BY <1>1, <1>2, <1>4, <1>8, <1>9, <1>10, <1>11, <1>12, <1>13, OthersOK DEF LaunchOK

LEMMA CleanFilesKeeps ==
  ASSUME GateInv, NEW l \in Launches, CleanFiles(l)
  PROVE  GateInv'
<1>1. /\ GateTypes /\ LaunchOK(l) /\ script[l].pc = "reap" /\ proxy[l] = "dead"
      /\ (skill.held = {} => skill.installed)
      /\ files \in [Launches -> Files] /\ files[l] \in Files
      /\ skill \in [installed : BOOLEAN, held : SUBSET Launches]
  BY DEF GateInv, GateTypes, CleanFiles, At
<1>2. UNCHANGED <<proxy, proc, monitor>>
  BY DEF CleanFiles
<1>3. ScriptMoves(l, "ended", script[l].exit, script[l].cut)
  BY <1>1, GoesFacts DEF CleanFiles, ScriptStages
<1>4. /\ files' \in [Launches -> Files] /\ ~files'[l].ready /\ ~files'[l].runs
      /\ files'[l].status = files[l].status
      /\ \A k \in Launches : k # l => files'[k] = files[k]
  <2> DEFINE first == [files EXCEPT ![l].runs = FALSE]
  <2>1. /\ first \in [Launches -> Files] /\ ~first[l].runs /\ first[l].status = files[l].status
        /\ \A k \in Launches : k # l => first[k] = files[k]
    BY <1>1 DEF Files
  <2>2. files' = [first EXCEPT ![l].ready = FALSE]
    BY <1>1 DEF CleanFiles
  <2> HIDE DEF first
  <2>3. QED
    BY <2>1, <2>2 DEF Files
<1>5. /\ skill' \in [installed : BOOLEAN, held : SUBSET Launches]
      /\ skill'.held = {} => skill'.installed
      /\ l \notin skill'.held /\ skill'.held \subseteq skill.held
  BY <1>1 DEF CleanFiles
<1>6. GateTypes'
  BY <1>1, <1>2, <1>3, <1>4, <1>5 DEF GateTypes, ScriptMoves
<1>7. Guarded(l)'
  BY <1>1, <1>2, <1>4 DEF LaunchOK, Guarded, CliState, RuntimeState
<1>8. Begun(l)'
  BY <1>1, <1>2, <1>3 DEF LaunchOK, Begun, Early, ScriptMoves, CliState, RuntimeState
<1>9. Judged(l)'
  BY <1>1, <1>2, <1>3, <1>4 DEF LaunchOK, Judged, ScriptMoves, CliState, RuntimeState
<1>10. Cleaned(l)'
  BY <1>1, <1>2, <1>3, <1>4, <1>5
  DEF LaunchOK, Cleaned, Cleanly, ScriptMoves, Alive
<1>11. \A k \in Launches : k # l => Apart(k)
  BY <1>2, <1>3, <1>4, <1>5 DEF ScriptMoves, Apart
<1>12. QED
  BY <1>2, <1>5, <1>6, <1>7, <1>8, <1>9, <1>10, <1>11, ProcSame, OthersOK DEF LaunchOK

-----------------------------------------------------------------------------
(* The monitor.                                                            *)

\* A monitor at work: the script is past its start, and no cleanup has ended.
LEMMA Working ==
  ASSUME GateInv, NEW l \in Launches,
         monitor[l].pc \in {"proving", "group", "runtimes", "sockets"}
  PROVE  /\ CliState(l) # "none" /\ script[l].pc \notin Early \union {"guarding"}
         /\ script[l].pc # "reap" /\ ~Cleanly(l)
         /\ files[l].status = None /\ monitor[l].saw = {}
BY DEF GateInv, LaunchOK, Begun, Judged, Cleaned

\* What a step of the monitor of l keeps: its new stage, what it has listed
\* and seen, and the verdict it may have written.
LEMMA MonitorOK ==
  ASSUME GateInv, NEW l \in Launches,
         monitor[l].pc \in {"proving", "group", "runtimes", "sockets"},
         NEW pc \in {"group", "runtimes", "sockets", "ended"},
         NEW proved, NEW listed, NEW saw, NEW status,
         MonitorMoves(l, pc, proved, listed, saw),
         monitor[l].proved => proved,
         files' \in [Launches -> Files], files'[l].status = status,
         files'[l].ready => proved, files'[l].runs = files[l].runs,
         \A k \in Launches : k # l => files'[k] = files[k],
         proc' \in [Procs -> Process], \A p \in Procs : Wanes(p),
         UNCHANGED <<script, proxy, skill>>,
         pc = "runtimes" /\ listed = {} => CliState(l)' = "dead",
         pc # "ended" => status = None /\ saw = {},
         status = "passed" => /\ CliState(l)' = "dead" /\ RuntimeState(l)' \in {"none", "dead"}
                              /\ saw = {}
  PROVE  GateInv'
<1>1. /\ GateTypes /\ LaunchOK(l) /\ (skill.held = {} => skill.installed)
      /\ CliState(l) # "none" /\ script[l].pc \notin Early \union {"guarding"}
      /\ script[l].pc # "reap" /\ ~Cleanly(l)
      /\ files[l].status = None /\ monitor[l].saw = {}
  BY Working DEF GateInv
<1>2. Wanes(Cli(l)) /\ Wanes(Runtime(l))
  BY ProcNames
<1>3. GateTypes'
  BY <1>1 DEF GateTypes, MonitorMoves
<1>4. Guarded(l)'
  BY <1>1, <1>2 DEF LaunchOK, Guarded, MonitorMoves, Wanes, CliState, RuntimeState
<1>5. Begun(l)'
  BY <1>1, <1>2 DEF LaunchOK, Begun, Early, Wanes, CliState, RuntimeState
<1>6. Judged(l)'
  <2>1. script[l].exit = 0 => script[l].pc = "judging"
    BY <1>1, GateAssumption DEF LaunchOK, Judged
  <2>2. QED
    BY <2>1 DEF Judged, MonitorMoves
<1>7. Cleaned(l)'
  BY <1>1, <1>2 DEF LaunchOK, Cleaned, Cleanly, Wanes, Alive
<1>8. \A k \in Launches : k # l => Apart(k)
  BY DEF MonitorMoves, Apart
<1>9. QED
  BY <1>1, <1>3, <1>4, <1>5, <1>6, <1>7, <1>8, OthersOK DEF LaunchOK

LEMMA ProveKeeps ==
  ASSUME GateInv, NEW l \in Launches, Prove(l)
  PROVE  GateInv'
<1>1. /\ monitor[l].pc = "proving" /\ UNCHANGED <<script, proxy, proc, skill>>
      /\ monitor \in [Launches -> Monitor] /\ monitor[l] \in Monitor
      /\ files \in [Launches -> Files] /\ files[l] \in Files
      /\ proc' \in [Procs -> Process]
  BY DEF Prove, GateInv, GateTypes
<1>2. MonitorMoves(l, "group", TRUE, monitor[l].listed, monitor[l].saw)
  <2> DEFINE first == [monitor EXCEPT ![l].pc = "group"]
  <2>1. /\ first \in [Launches -> Monitor] /\ first[l].pc = "group"
        /\ first[l].listed = monitor[l].listed /\ first[l].saw = monitor[l].saw
        /\ \A k \in Launches : k # l => first[k] = monitor[k]
    BY <1>1 DEF Monitor
  <2>2. monitor' = [first EXCEPT ![l].proved = TRUE]
    BY <1>1 DEF Prove
  <2> HIDE DEF first
  <2>3. QED
    BY <2>1, <2>2 DEF MonitorMoves, Monitor
<1>3. /\ files' \in [Launches -> Files] /\ files'[l].runs = files[l].runs
      /\ files'[l].status = files[l].status
      /\ \A k \in Launches : k # l => files'[k] = files[k]
  BY <1>1 DEF Prove, Files
<1>4. files[l].status = None /\ monitor[l].saw = {}
  BY <1>1, Working
<1>5. files'[l].status # "passed"
  BY <1>3, <1>4, GateAssumption
<1>6. \A p \in Procs : Wanes(p)
  BY <1>1, ProcSame
<1>7. QED
  BY <1>1, <1>2, <1>3, <1>4, <1>5, <1>6, MonitorOK

LEMMA ListFirstKeeps ==
  ASSUME GateInv, NEW l \in Launches, ListFirst(l)
  PROVE  GateInv'
<1>1. /\ monitor[l].pc = "group" /\ UNCHANGED <<script, proxy, proc, files, skill>>
      /\ monitor \in [Launches -> Monitor] /\ monitor[l] \in Monitor
      /\ files' \in [Launches -> Files] /\ proc' \in [Procs -> Process]
  BY DEF ListFirst, GateInv, GateTypes
<1> DEFINE listed == Group(l)
<1>2. listed \in SUBSET Procs /\ (listed = {} => ~Alive(Cli(l)))
  BY ProcNames DEF Group
<1>3. MonitorMoves(l, "runtimes", monitor[l].proved, listed, monitor[l].saw)
  <2> DEFINE first == [monitor EXCEPT ![l].pc = "runtimes"]
  <2>1. /\ first \in [Launches -> Monitor] /\ first[l].pc = "runtimes"
        /\ first[l].proved = monitor[l].proved /\ first[l].saw = monitor[l].saw
        /\ \A k \in Launches : k # l => first[k] = monitor[k]
    BY <1>1 DEF Monitor
  <2>2. monitor' = [first EXCEPT ![l].listed = listed]
    BY <1>1 DEF ListFirst, Listed
  <2> HIDE DEF first, listed
  <2>3. QED
    BY <1>2, <2>1, <2>2 DEF MonitorMoves, Monitor
<1>4. files[l].status = None /\ monitor[l].saw = {} /\ CliState(l) # "none"
  BY <1>1, Working
<1>5. listed = {} => CliState(l)' = "dead"
  BY <1>1, <1>2, <1>4 DEF Alive, CliState
<1>6. files'[l].status # "passed" /\ files'[l].status = None
  BY <1>1, <1>4, GateAssumption
<1>7. files'[l].ready => monitor[l].proved
  BY <1>1 DEF GateInv, LaunchOK, Guarded
<1>8. \A p \in Procs : Wanes(p)
  BY <1>1, ProcSame
<1> HIDE DEF listed
<1>9. QED
  BY <1>1, <1>3, <1>4, <1>5, <1>6, <1>7, <1>8, MonitorOK

\* What WriteStatus leaves behind.
LEMMA StatusFacts ==
  ASSUME GateTypes, NEW l \in Launches, NEW verdict \in {"passed", "failed", "error"},
         NEW written \in BOOLEAN, WriteStatus(l, verdict, written)
  PROVE  /\ files' \in [Launches -> Files]
         /\ files'[l].status = IF written THEN verdict ELSE files[l].status
         /\ files'[l].ready = files[l].ready /\ files'[l].runs = files[l].runs
         /\ \A k \in Launches : k # l => files'[k] = files[k]
<1>1. files \in [Launches -> Files] /\ files[l] \in Files
  BY DEF GateTypes
<1> DEFINE r == [files[l] EXCEPT !.status = IF written THEN verdict ELSE @]
<1>2. /\ r \in Files /\ r.ready = files[l].ready /\ r.runs = files[l].runs
      /\ r.status = IF written THEN verdict ELSE files[l].status
  BY <1>1 DEF Files
<1>3. files' = [files EXCEPT ![l] = r]
  BY <1>1 DEF WriteStatus
<1> HIDE DEF r
<1>4. QED
  BY <1>1, <1>2, <1>3

LEMMA ListSecondKeeps ==
  ASSUME GateInv, NEW l \in Launches, NEW written \in BOOLEAN, ListSecond(l, written)
  PROVE  GateInv'
<1>1. /\ monitor[l].pc = "runtimes" /\ UNCHANGED <<script, proxy, proc, skill>>
      /\ GateTypes /\ monitor \in [Launches -> Monitor] /\ monitor[l] \in Monitor
      /\ proc' \in [Procs -> Process]
  BY DEF ListSecond, GateInv, GateTypes
<1>2. /\ files[l].status = None /\ monitor[l].saw = {}
      /\ files[l].ready => monitor[l].proved
      /\ monitor[l].listed = {} => CliState(l) = "dead"
  BY <1>1, Working DEF GateInv, LaunchOK, Guarded, Judged
<1>3. \A p \in Procs : Wanes(p)
  BY <1>1, ProcSame
<1> DEFINE listed == monitor[l].listed \union Runtimes
<1>4. listed \in SUBSET Procs
  BY <1>1 DEF Monitor, Runtimes
<1>5. CASE listed = {}
  <2>1. Watches(l, "ended") /\ WriteStatus(l, "passed", written)
    BY <1>5 DEF ListSecond, Listed
  <2>2. MonitorMoves(l, "ended", monitor[l].proved, monitor[l].listed, monitor[l].saw)
    BY <1>1, <2>1, WatchesFacts DEF MonitorStages
  <2>3. /\ files' \in [Launches -> Files]
        /\ files'[l].ready = files[l].ready /\ files'[l].runs = files[l].runs
        /\ \A k \in Launches : k # l => files'[k] = files[k]
    BY <1>1, <2>1, StatusFacts
  <2>4. CliState(l)' = "dead"
    BY <1>1, <1>2, <1>5 DEF CliState
  <2>5. RuntimeState(l)' \in {"none", "dead"}
    <3>1. ~Alive(Runtime(l))
      BY <1>5, ProcNames
    <3>2. QED
      BY <1>1, <3>1 DEF RuntimeState, Alive
  <2> HIDE DEF listed
  <2>6. QED
    BY <1>1, <1>2, <1>3, <2>2, <2>3, <2>4, <2>5, MonitorOK
<1>6. CASE listed # {}
  <2>1. monitor' = [monitor EXCEPT ![l].pc = "sockets", ![l].listed = listed] /\ files' = files
    BY <1>6 DEF ListSecond, Listed
  <2> HIDE DEF listed
  <2>2. MonitorMoves(l, "sockets", monitor[l].proved, listed, monitor[l].saw)
    <3> DEFINE first == [monitor EXCEPT ![l].pc = "sockets"]
    <3>1. /\ first \in [Launches -> Monitor] /\ first[l].pc = "sockets"
          /\ first[l].proved = monitor[l].proved /\ first[l].saw = monitor[l].saw
          /\ \A k \in Launches : k # l => first[k] = monitor[k]
      BY <1>1 DEF Monitor
    <3>2. monitor' = [first EXCEPT ![l].listed = listed]
      BY <1>1, <2>1
    <3> HIDE DEF first
    <3>3. QED
      BY <1>4, <3>1, <3>2 DEF MonitorMoves, Monitor
  <2>3. /\ files'[l].status # "passed" /\ files'[l].status = None
        /\ files' \in [Launches -> Files] /\ (files'[l].ready => monitor[l].proved)
        /\ files'[l].runs = files[l].runs /\ \A k \in Launches : k # l => files'[k] = files[k]
    BY <1>1, <1>2, <2>1, GateAssumption DEF GateTypes
  <2>4. QED
    BY <1>1, <1>2, <1>3, <2>2, <2>3, MonitorOK
<1>7. QED
  BY <1>5, <1>6

LEMMA InspectKeeps ==
  ASSUME GateInv, NEW l \in Launches, NEW written \in BOOLEAN, Inspect(l, written)
  PROVE  GateInv'
<1>1. /\ monitor[l].pc = "sockets" /\ UNCHANGED <<script, proxy, skill>>
      /\ GateTypes /\ monitor \in [Launches -> Monitor] /\ monitor[l] \in Monitor
  BY DEF Inspect, GateInv, GateTypes
<1>2. /\ files[l].status = None /\ monitor[l].saw = {}
      /\ files[l].ready => monitor[l].proved
  BY <1>1, Working DEF GateInv, LaunchOK, Guarded
<1> DEFINE seen == {p \in monitor[l].listed : proc[p].remote}
<1>3. seen \in SUBSET Procs
  BY <1>1 DEF Monitor
<1>4. CASE seen = {}
  <2>1. Watches(l, "group") /\ proc' = proc /\ files' = files
    BY <1>4 DEF Inspect
  <2> HIDE DEF seen
  <2>2. MonitorMoves(l, "group", monitor[l].proved, monitor[l].listed, monitor[l].saw)
    BY <1>1, <2>1, WatchesFacts DEF MonitorStages
  <2>3. /\ files'[l].status # "passed" /\ files'[l].status = None /\ files' \in [Launches -> Files]
        /\ proc' \in [Procs -> Process]
    BY <1>1, <1>2, <2>1, GateAssumption DEF GateTypes
  <2>4. \A p \in Procs : Wanes(p)
    BY <2>1, ProcSame
  <2>5. QED
    BY <1>1, <1>2, <2>1, <2>2, <2>3, <2>4, MonitorOK
<1>5. CASE seen # {}
  <2>1. /\ monitor' = [monitor EXCEPT ![l].pc = "ended", ![l].saw = seen]
        /\ Terminate(Struck(l)) /\ WriteStatus(l, "failed", written)
    BY <1>5 DEF Inspect
  <2> HIDE DEF seen
  <2>2. MonitorMoves(l, "ended", monitor[l].proved, monitor[l].listed, seen)
    <3> DEFINE first == [monitor EXCEPT ![l].pc = "ended"]
    <3>1. /\ first \in [Launches -> Monitor] /\ first[l].pc = "ended"
          /\ first[l].proved = monitor[l].proved /\ first[l].listed = monitor[l].listed
          /\ \A k \in Launches : k # l => first[k] = monitor[k]
      BY <1>1 DEF Monitor
    <3>2. monitor' = [first EXCEPT ![l].saw = seen]
      BY <1>1, <2>1
    <3> HIDE DEF first
    <3>3. QED
      BY <1>3, <3>1, <3>2 DEF MonitorMoves, Monitor
  <2>3. /\ files' \in [Launches -> Files] /\ files'[l].status # "passed"
        /\ files'[l].ready = files[l].ready /\ files'[l].runs = files[l].runs
        /\ \A k \in Launches : k # l => files'[k] = files[k]
    BY <1>1, <1>2, <2>1, StatusFacts, GateAssumption
  <2>4. proc' \in [Procs -> Process] /\ \A p \in Procs : Wanes(p)
    BY <1>1, <2>1, TerminateFacts
  <2>5. QED
    BY <1>1, <1>2, <2>2, <2>3, <2>4, MonitorOK
<1>6. QED
  BY <1>4, <1>5

LEMMA MonitorFailsKeeps ==
  ASSUME GateInv, NEW l \in Launches, NEW listed \in BOOLEAN, NEW written \in BOOLEAN,
         MonitorFails(l, listed, written)
  PROVE  GateInv'
<1>1. /\ monitor[l].pc \in {"proving", "group", "runtimes", "sockets"}
      /\ UNCHANGED <<script, proxy, skill>> /\ GateTypes
      /\ Watches(l, "ended") /\ WriteStatus(l, "error", written)
  BY DEF MonitorFails, GateInv
<1>2. /\ files[l].status = None /\ monitor[l].saw = {}
      /\ files[l].ready => monitor[l].proved
  BY <1>1, Working DEF GateInv, LaunchOK, Guarded
<1>3. MonitorMoves(l, "ended", monitor[l].proved, monitor[l].listed, monitor[l].saw)
  BY <1>1, WatchesFacts DEF MonitorStages
<1>4. /\ files' \in [Launches -> Files] /\ files'[l].status # "passed"
      /\ files'[l].ready = files[l].ready /\ files'[l].runs = files[l].runs
      /\ \A k \in Launches : k # l => files'[k] = files[k]
  BY <1>1, <1>2, StatusFacts, GateAssumption
<1>5. proc' \in [Procs -> Process] /\ \A p \in Procs : Wanes(p)
  BY <1>1, TerminateFacts DEF MonitorFails
<1>6. QED
  BY <1>1, <1>2, <1>3, <1>4, <1>5, MonitorOK

-----------------------------------------------------------------------------
(* The proxy and the processes.                                            *)

LEMMA ProxyKeeps ==
  ASSUME GateInv, NEW l \in Launches, ProxyBinds(l) \/ ProxyEnds(l)
  PROVE  GateInv'
<1>1. /\ GateTypes /\ LaunchOK(l) /\ (skill.held = {} => skill.installed)
      /\ proxy \in [Launches -> {"none", "starting", "up", "dead"}]
  BY DEF GateInv, GateTypes
<1>2. UNCHANGED <<script, proc, monitor, files, skill>> /\ proxy[l] \in {"starting", "up"}
  BY DEF ProxyBinds, ProxyEnds
<1>3. /\ proxy' \in [Launches -> {"none", "starting", "up", "dead"}]
      /\ \A k \in Launches : k # l => proxy'[k] = proxy[k]
  BY <1>1 DEF ProxyBinds, ProxyEnds
<1>4. GateTypes'
  BY <1>1, <1>2, <1>3 DEF GateTypes
<1>5. LaunchOK(l)'
  <2>1. Guarded(l)'
    BY <1>1, <1>2 DEF LaunchOK, Guarded, CliState, RuntimeState
  <2>2. Begun(l)'
    BY <1>1, <1>2 DEF LaunchOK, Begun, CliState, RuntimeState
  <2>3. Judged(l)'
    BY <1>1, <1>2 DEF LaunchOK, Judged, CliState, RuntimeState
  <2>4. Cleaned(l)'
    BY <1>1, <1>2 DEF LaunchOK, Cleaned, Cleanly, Alive
  <2>5. QED
    BY <2>1, <2>2, <2>3, <2>4 DEF LaunchOK
<1>6. \A k \in Launches : k # l => Apart(k)
  BY <1>2, <1>3 DEF Apart
<1>7. QED
  BY <1>1, <1>2, <1>4, <1>5, <1>6, ProcSame, OthersOK

\* Steps of processes alone, none of which begins to run.
LEMMA WaningKeeps ==
  ASSUME GateInv, UNCHANGED <<script, proxy, monitor, files, skill>>,
         proc' \in [Procs -> Process], \A p \in Procs : Wanes(p)
  PROVE  GateInv'
<1>1. GateTypes'
  BY DEF GateInv, GateTypes
<1>2. ASSUME NEW k \in Launches PROVE LaunchOK(k)'
  <2>1. Wanes(Cli(k)) /\ Wanes(Runtime(k)) /\ LaunchOK(k) /\ Apart(k)
    BY ProcNames DEF GateInv, Apart
  <2>2. QED
    BY <2>1, BystanderOK
<1>3. QED
  BY <1>1, <1>2 DEF GateInv

\* The record r says of p what it was told and when it started.
Keeps(p, r) == r.late = proc[p].late /\ (proc[p].term => r.term)

LEMMA ProcessKeeps ==
  ASSUME GateInv,
         \/ \E l \in Launches : StopsBeforeExec(l) \/ Orphaned(l)
         \/ \E p \in Procs : \/ \E remote \in BOOLEAN : Connects(p, remote)
                             \/ Disconnects(p) \/ Leaves(p)
  PROVE  GateInv'
<1>1. GateTypes /\ proc \in [Procs -> Process]
  BY DEF GateInv, GateTypes
<1>2. PICK p \in Procs, r \in Process :
        /\ Changes(p, r)
        /\ r.opened => proc[p].opened \/ proc[p].state = "running"
        /\ Keeps(p, r)
        /\ \/ r.state = proc[p].state
           \/ r.state = "dead" /\ proc[p].state # "none"
           \/ r.state = "stopped" /\ proc[p].state = "booting"
  <2>1. ASSUME NEW l \in Launches, StopsBeforeExec(l)
        PROVE  \E r \in Process : /\ Changes(Cli(l), r) /\ Keeps(Cli(l), r)
                                  /\ r.opened = proc[Cli(l)].opened
                                  /\ r.state = "stopped" /\ proc[Cli(l)].state = "booting"
    <3>1. proc[Cli(l)] \in Process
      BY <1>1, ProcNames
    <3>2. QED
      BY <2>1, <3>1 DEF StopsBeforeExec, Keeps, Process
  <2>2. ASSUME NEW l \in Launches, Orphaned(l)
        PROVE  \E r \in Process : /\ Changes(Cli(l), r) /\ Keeps(Cli(l), r)
                                  /\ r.opened = proc[Cli(l)].opened
                                  /\ r.state = "dead" /\ proc[Cli(l)].state # "none"
    <3>1. proc[Cli(l)] \in Process
      BY <1>1, ProcNames
    <3>2. QED
      BY <2>2, <3>1, DeadFacts DEF Orphaned, Keeps
  <2>3. ASSUME NEW p \in Procs, NEW remote \in BOOLEAN, Connects(p, remote)
        PROVE  \E r \in Process : /\ Changes(p, r) /\ Keeps(p, r)
                                  /\ proc[p].state = "running" /\ r.state = proc[p].state
    <3>1. proc[p] \in Process
      BY <1>1
    <3> DEFINE r == [proc[p] EXCEPT !.opened = TRUE, !.remote = @ \/ remote]
    <3>2. r \in Process /\ r.state = proc[p].state /\ Keeps(p, r)
      BY <3>1 DEF Keeps, Process
    <3>3. Changes(p, r) /\ proc[p].state = "running"
      BY <2>3 DEF Connects
    <3> HIDE DEF r
    <3>4. QED
      BY <3>2, <3>3
  <2>4. ASSUME NEW p \in Procs, Disconnects(p)
        PROVE  \E r \in Process : /\ Changes(p, r) /\ Keeps(p, r)
                                  /\ r.opened = proc[p].opened /\ r.state = proc[p].state
    <3>1. proc[p] \in Process
      BY <1>1
    <3> DEFINE r == [proc[p] EXCEPT !.remote = FALSE]
    <3>2. /\ r \in Process /\ r.state = proc[p].state /\ r.opened = proc[p].opened
          /\ Keeps(p, r)
      BY <3>1 DEF Keeps, Process
    <3>3. Changes(p, r)
      BY <2>4 DEF Disconnects
    <3> HIDE DEF r
    <3>4. QED
      BY <3>2, <3>3
  <2>5. ASSUME NEW p \in Procs, Leaves(p)
        PROVE  \E r \in Process : /\ Changes(p, r) /\ Keeps(p, r)
                                  /\ r.opened = proc[p].opened /\ r.state = "dead" /\ proc[p].state # "none"
    <3>1. proc[p] \in Process
      BY <1>1
    <3>2. QED
      BY <2>5, <3>1, DeadFacts DEF Leaves, Keeps
  <2>6. \A l \in Launches : Cli(l) \in Procs
    BY ProcNames
  <2>7. QED
    BY <2>1, <2>2, <2>3, <2>4, <2>5, <2>6
<1>3. UNCHANGED <<script, proxy, monitor, files, skill>> /\ proc' = [proc EXCEPT ![p] = r]
  BY <1>2 DEF Changes
<1>4. /\ proc' \in [Procs -> Process] /\ proc'[p] = r
      /\ \A q \in Procs : q # p => Wanes(q)
  BY <1>1, <1>3, ProcChanged
<1>5. Wanes(p)
  BY <1>2, <1>4 DEF Wanes, Keeps
<1>6. QED
  BY <1>3, <1>4, <1>5, WaningKeeps

\* A runtime begins behind a command line that runs, and so behind the gate;
\* one that begins after the sweep says so.
LEMMA DaemonKeeps ==
  ASSUME GateInv, NEW l \in Launches, Daemonizes(l)
  PROVE  GateInv'
<1>1. /\ GateTypes /\ LaunchOK(l) /\ (skill.held = {} => skill.installed)
      /\ proc \in [Procs -> Process] /\ proc[Runtime(l)] \in Process
      /\ CliState(l) = "running"
  BY ProcNames DEF GateInv, GateTypes, Daemonizes, CliState
<1>2. UNCHANGED <<script, proxy, monitor, files, skill>>
  BY DEF Daemonizes, Changes
<1> DEFINE late == script[l].pc \in {"reap", "ended"}
           r == [proc[Runtime(l)] EXCEPT !.state = "running", !.late = late]
<1>3. /\ r \in Process /\ r.opened = proc[Runtime(l)].opened /\ r.late = late
      /\ proc' = [proc EXCEPT ![Runtime(l)] = r]
  <2>1. proc' = [proc EXCEPT ![Runtime(l)] = r]
    BY DEF Daemonizes, Changes
  <2>2. late \in BOOLEAN
    OBVIOUS
  <2> HIDE DEF late
  <2>3. r \in Process /\ r.opened = proc[Runtime(l)].opened /\ r.late = late
    BY <1>1, <2>2 DEF Process
  <2>4. QED
    BY <2>1, <2>3
<1> HIDE DEF r
<1>4. /\ proc' \in [Procs -> Process] /\ proc'[Runtime(l)] = r
      /\ \A q \in Procs : q # Runtime(l) => proc'[q] = proc[q] /\ Wanes(q)
  BY <1>1, <1>3, ProcNames, ProcChanged
<1>5. proc'[Cli(l)] = proc[Cli(l)]
  BY <1>4, ProcNames
<1>6. GateTypes'
  BY <1>1, <1>2, <1>4 DEF GateTypes
<1>7. Guarded(l)'
  BY <1>1, <1>2, <1>3, <1>4, <1>5 DEF LaunchOK, Guarded, CliState, RuntimeState
<1>8. Begun(l)'
  BY <1>1, <1>2, <1>5 DEF LaunchOK, Begun, CliState
<1>9. Judged(l)'
  BY <1>1, <1>2, <1>5 DEF LaunchOK, Judged, CliState
<1>10. Cleaned(l)'
  BY <1>1, <1>2, <1>3, <1>4, <1>5 DEF LaunchOK, Cleaned, Cleanly, Alive
<1>11. \A k \in Launches : k # l => Apart(k)
  BY <1>2 DEF Apart
<1>12. QED
  BY <1>1, <1>2, <1>4, <1>6, <1>7, <1>8, <1>9, <1>10, <1>11, OthersOK DEF LaunchOK

-----------------------------------------------------------------------------
(* The theorems.                                                           *)

LEMMA GateStart == Init => GateInv
<1> SUFFICES ASSUME Init PROVE GateInv
  OBVIOUS
<1>1. script \in [Launches -> Script]
  BY DEF Init, Script, ScriptStages
<1>2. monitor \in [Launches -> Monitor]
  BY DEF Init, Monitor
<1>3. files \in [Launches -> Files]
  BY DEF Init, Files
<1>4. /\ proxy \in [Launches -> {"none", "starting", "up", "dead"}]
      /\ skill \in [installed : BOOLEAN, held : SUBSET Launches]
      /\ (skill.held = {} => skill.installed)
  BY DEF Init
<1>5. PICK before \in {"none", "running"} :
        proc = [p \in Procs |-> [state |-> IF p = Stray THEN before ELSE "none",
                                 term |-> FALSE, late |-> FALSE, opened |-> FALSE,
                                 remote |-> FALSE]]
  BY DEF Init
<1>6. proc \in [Procs -> Process]
  BY <1>5 DEF Process
<1>7. ASSUME NEW l \in Launches PROVE LaunchOK(l)
  <2>1. /\ CliState(l) = "none" /\ RuntimeState(l) = "none"
        /\ ~proc[Cli(l)].opened /\ ~proc[Runtime(l)].opened
    BY <1>5, ProcNames DEF CliState, RuntimeState
  <2>2. /\ script[l].pc = "idle" /\ script[l].exit = None /\ proxy[l] = "none"
        /\ monitor[l].pc = "none" /\ monitor[l].saw = {}
        /\ ~files[l].ready /\ files[l].status = None /\ ~files[l].runs /\ l \notin skill.held
    BY DEF Init
  <2>3. None # 0 /\ None # "passed"
    BY GateAssumption
  <2>4. QED
    BY <2>1, <2>2, <2>3
    DEF LaunchOK, Guarded, Begun, Judged, Cleaned, Cleanly, Alive, CliState, RuntimeState
<1>8. QED
  BY <1>1, <1>2, <1>3, <1>4, <1>6, <1>7 DEF GateInv, GateTypes

LEMMA GateStep ==
  ASSUME GateInv, [Next]_vars
  PROVE  GateInv'
<1>1. CASE UNCHANGED vars
  <2>1. UNCHANGED <<script, proxy, monitor, files, skill>> /\ proc' = proc
    BY <1>1 DEF vars
  <2>2. proc' \in [Procs -> Process]
    BY <2>1 DEF GateInv, GateTypes
  <2>3. QED
    BY <2>1, <2>2, ProcSame, WaningKeeps
<1>2. ASSUME NEW l \in Launches, ScriptStep(l) PROVE GateInv'
  BY <1>2, ScriptAloneKeeps, PrepareSkillKeeps, StartAgentKeeps, StartMonitorKeeps,
     ResumeKeeps, TellKeeps, JudgeKeeps, CleanSweepKeeps, CleanFilesKeeps DEF ScriptStep
<1>3. ASSUME NEW l \in Launches, MonitorStep(l) PROVE GateInv'
  BY <1>3, ProveKeeps, ListFirstKeeps, ListSecondKeeps, InspectKeeps, MonitorFailsKeeps
  DEF MonitorStep
<1>4. ASSUME NEW l \in Launches,
             \/ Preflight(l) \/ Abort(l) \/ \E group \in BOOLEAN : Interrupt(l, group)
             \/ ProxyBinds(l) \/ ProxyEnds(l) \/ Daemonizes(l)
      PROVE  GateInv'
  BY <1>4, PreflightKeeps, TellKeeps, InterruptKeeps, ProxyKeeps, DaemonKeeps
<1>5. ASSUME NEW l \in Launches, StopsBeforeExec(l) \/ Orphaned(l) PROVE GateInv'
  BY <1>5, ProcessKeeps
<1>6. ASSUME NEW p \in Procs,
             \/ \E remote \in BOOLEAN : Connects(p, remote)
             \/ Disconnects(p) \/ Leaves(p)
      PROVE  GateInv'
  BY <1>6, ProcessKeeps
<1>7. QED
  BY <1>1, <1>2, <1>3, <1>4, <1>5, <1>6 DEF Next

LEMMA GateInductive == Spec => []GateInv
BY GateStart, GateStep, PTL DEF Spec

\* No process of the agent opens a socket before a monitor that has proved
\* itself watches it (GuardFirst): the gate is opened by the proof, and only a
\* command line behind the gate daemonizes.
THEOREM GuardComesFirst == Spec => []GuardFirst
<1>1. GateInv => GuardFirst
  BY DEF GateInv, LaunchOK, Guarded, GuardFirst
<1>2. QED
  BY <1>1, GateInductive, PTL

\* A launch that reports success was watched to its end, and nothing of it is
\* alive (VerifiedMeansGone): the group is listed before the runtimes.
THEOREM SuccessMeansGone == Spec => []VerifiedMeansGone
<1>1. GateInv => VerifiedMeansGone
  <2> SUFFICES ASSUME GateInv, NEW l \in Launches
               PROVE  /\ files[l].status = "passed" => Gone(l)
                      /\ script[l].exit = 0 /\ script[l].pc = "ended" =>
                           files[l].status = "passed" /\ monitor[l].saw = {} /\ Gone(l)
    BY DEF VerifiedMeansGone
  <2>1. Judged(l)
    BY DEF GateInv, LaunchOK
  <2>2. QED
    BY <2>1 DEF Judged, Gone, Alive, CliState, RuntimeState
<1>2. QED
  BY <1>1, GateInductive, PTL

\* Short of a signal that cuts its cleanup, a launch leaves nothing behind but
\* a command line that was told to end and a runtime that such a one started
\* after the sweep (NothingLeft): what one stage of the cleanup ends, no later
\* step revives.
THEOREM NothingIsLeft == Spec => []NothingLeft
<1>1. GateInv => NothingLeft
  <2> SUFFICES ASSUME GateInv, NEW l \in Launches, script[l].pc = "ended", ~script[l].cut
               PROVE  /\ Alive(Cli(l)) => proc[Cli(l)].term
                      /\ Alive(Runtime(l)) => proc[Runtime(l)].late
                      /\ proxy[l] \in {"none", "dead"}
                      /\ monitor[l].pc \in {"none", "ended", "killed"}
                      /\ ~files[l].runs /\ ~files[l].ready /\ l \notin skill.held
    BY DEF NothingLeft, At, GateInv
  <2>1. Cleaned(l) /\ Cleanly(l)
    BY DEF GateInv, LaunchOK, Cleanly
  <2>2. QED
    BY <2>1 DEF Cleaned
<1>2. QED
  BY <1>1, GateInductive, PTL

=============================================================================
