----------------------------- MODULE EgressGate -----------------------------
(***************************************************************************)
(* One command runs the agent: run_agent.sh starts the proxy, starts the   *)
(* agent's command line stopped (stopped_exec.py), starts the egress       *)
(* monitor (egress_verify.py) and resumes the agent when the monitor has   *)
(* proved that it can see sockets.  The command line daemonizes a runtime  *)
(* that leaves its process group.  Launches run side by side on one        *)
(* machine, with the default port, one home directory and one process      *)
(* table.                                                                  *)
(*                                                                         *)
(* The agent's processes may do with SIGTERM what they like: end, wind     *)
(* down, or go on as before.  One that is stopped keeps the signal pending, *)
(* and before its program begins the signal ends it.                       *)
(***************************************************************************)
EXTENDS Naturals, FiniteSets

CONSTANTS Launches,
          MaxSignals,  \* bound: signals to the script of one launch
          None         \* no launch, no exit code, no verdict

ASSUME GateAssumption ==
    /\ None \notin Launches
    /\ None \notin {0, 1, 130} /\ None \notin {"passed", "failed", "error"}

VARIABLES
    script,   \* run_agent.sh of a launch
    proxy,    \* its proxy
    proc,     \* the agent's processes: its command line and its runtime; history:
              \* which was sent SIGTERM, which started after its launch's sweep
    monitor,  \* the egress monitor of a launch
    files,    \* its ready file, status file and runs directory
    skill     \* the skill file in the home directory, and who set it aside

vars == <<script, proxy, proc, monitor, files, skill>>

Cli(l) == <<l, "cli">>
Runtime(l) == <<l, "runtime">>
Stray == Runtime(None)  \* a runtime that no launch started
Procs == (Launches \X {"cli", "runtime"}) \union {Stray}

Alive(p) == proc[p].state \notin {"none", "dead"}

\* `pgrep` and the monitor find runtimes by name, whoever started them.
Runtimes == {p \in Procs : p[2] = "runtime" /\ Alive(p)}

Group(l) == {p \in {Cli(l)} : Alive(p)}

----------------------------------------------------------------------------
(* Signals.                                                                *)

Terminated(r) ==
    CASE r.state = "booting" -> [r EXCEPT !.state = "dead"]
      [] r.state \in {"stopped", "running"} -> [r EXCEPT !.term = TRUE]
      [] OTHER -> r

Continued(r) ==
    IF r.state = "stopped"
    THEN [r EXCEPT !.state = IF r.term THEN "dead" ELSE "running"] ELSE r

Dead(r) == [r EXCEPT !.state = "dead", !.remote = FALSE]

Terminate(ps) == proc' = [p \in Procs |-> IF p \in ps THEN Terminated(proc[p]) ELSE proc[p]]

----------------------------------------------------------------------------
(* The script.                                                             *)

At(l, pc) == script[l].pc = pc

Goes(l, pc) == script' = [script EXCEPT ![l].pc = pc]

\* An exit runs the trap, which cleans up.
Exits(l, code) == script' = [script EXCEPT ![l].pc = "cleanup", ![l].exit = code]

\* No runtime may be active; then the proxy is started.
Preflight(l) ==
    /\ At(l, "idle")
    /\ IF Runtimes = {}
       THEN /\ Goes(l, "untrapped")
            /\ proxy' = [proxy EXCEPT ![l] = "starting"]
       ELSE /\ script' = [script EXCEPT ![l].pc = "ended", ![l].exit = 1]
            /\ UNCHANGED proxy
    /\ UNCHANGED <<proc, monitor, files, skill>>

\* The trap is set once there is something to clean up, and the skill is set
\* aside, installed or left alone.
PrepareSkill(l, wanted) ==
    /\ At(l, "untrapped")
    /\ script' = [script EXCEPT ![l].pc = "health"]
    /\ skill' = IF wanted THEN [skill EXCEPT !.installed = TRUE]
                ELSE IF skill.installed
                     THEN [installed |-> FALSE, held |-> skill.held \union {l}]
                     ELSE skill
    /\ UNCHANGED <<proxy, proc, monitor, files>>

\* Only the health of the proxy with this launch's token counts.
Healthy(l) ==
    /\ At(l, "health") /\ proxy[l] = "up"
    /\ Goes(l, "probing")
    /\ UNCHANGED <<proxy, proc, monitor, files, skill>>

Unhealthy(l) ==
    /\ At(l, "health") /\ proxy[l] # "up"
    /\ Exits(l, 1)
    /\ UNCHANGED <<proxy, proc, monitor, files, skill>>

\* The provider is asked for its models and for one token.
Probe(l, answered) ==
    /\ At(l, "probing")
    /\ answered => proxy[l] = "up"
    /\ IF answered THEN Goes(l, "spawning") ELSE Exits(l, 1)
    /\ UNCHANGED <<proxy, proc, monitor, files, skill>>

StartAgent(l) ==
    /\ At(l, "spawning")
    /\ Goes(l, "guarding")
    /\ proc' = [proc EXCEPT ![Cli(l)].state = "booting"]
    /\ files' = [files EXCEPT ![l].runs = TRUE]
    /\ UNCHANGED <<proxy, monitor, skill>>

StartMonitor(l) ==
    /\ At(l, "guarding")
    /\ Goes(l, "gate")
    /\ monitor' = [monitor EXCEPT ![l].pc = "proving"]
    /\ UNCHANGED <<proxy, proc, files, skill>>

\* The ready file opens the gate.  (Mutant: the agent is resumed anyway.)
OpenGateAnyway(l) == TRUE

OpenGate(l) == files[l].ready

Resume(l) ==
    /\ At(l, "gate") /\ OpenGate(l)
    /\ Goes(l, "waiting")
    /\ proc' = [proc EXCEPT ![Cli(l)] = Continued(@)]
    /\ UNCHANGED <<proxy, monitor, files, skill>>

\* The monitor is gone, or not ready in time.
Refuse(l) ==
    /\ At(l, "gate") /\ ~files[l].ready
    /\ Goes(l, "refused")
    /\ Terminate({Cli(l)})
    /\ UNCHANGED <<proxy, monitor, files, skill>>

Abort(l) ==
    /\ At(l, "waiting")
    /\ Goes(l, "aborted")
    /\ Terminate({Cli(l)})
    /\ UNCHANGED <<proxy, monitor, files, skill>>

AgentEnds(l, code) ==
    /\ script[l].pc \in {"waiting", "aborted", "refused"} /\ ~Alive(Cli(l))
    /\ IF At(l, "refused") THEN Exits(l, 1)
       ELSE script' = [script EXCEPT ![l].pc = "judging",
                                     ![l].exit = IF At(l, "aborted") THEN 130 ELSE code]
    /\ UNCHANGED <<proxy, proc, monitor, files, skill>>

Ended(m) == m.pc \in {"ended", "killed"}

\* Without the monitor's verdict the agent's own exit code counts for nothing.
\* (Mutant: a missing verdict passes.)
VerdictLenient(l) == files[l].status \in {None, "passed"}

Verdict(l) == files[l].status = "passed" /\ monitor[l].pc = "ended"

Judge(l, audit) ==
    /\ At(l, "judging") /\ Ended(monitor[l])
    /\ files' = [files EXCEPT ![l].runs = FALSE]
    /\ IF ~Verdict(l) THEN Exits(l, 1)
       ELSE IF audit THEN Goes(l, "auditing") ELSE Exits(l, script[l].exit)
    /\ UNCHANGED <<proxy, proc, monitor, skill>>

\* The viewer stays until its proxy ends, or the user interrupts.
AuditEnds(l) ==
    /\ At(l, "auditing") /\ proxy[l] = "dead"
    /\ Exits(l, script[l].exit)
    /\ UNCHANGED <<proxy, proc, monitor, files, skill>>

\* The trap is not set yet, or it runs already: a signal cuts it short.
CutShort(l) == script[l].pc \in {"untrapped", "cleanup", "sweep", "reap"}

\* A signal exits; one that arrives before the trap is set, or while the trap
\* runs, ends the script there.  A stop from the demo page goes to the script,
\* its proxy and its monitor; the agent has a group of its own.
Interrupt(l, group) ==
    /\ script[l].pc \notin {"idle", "ended"} /\ script[l].signals < MaxSignals
    /\ script' = [script EXCEPT
                    ![l].pc = IF CutShort(l) THEN "ended" ELSE "cleanup",
                    ![l].cut = CutShort(l),
                    ![l].exit = 130, ![l].signals = @ + 1]
    /\ IF group
       THEN /\ proxy' = [proxy EXCEPT ![l] = "dead"]
            /\ monitor' = [monitor EXCEPT ![l].pc =
                             IF @ \in {"none", "ended"} THEN @ ELSE "killed"]
       ELSE UNCHANGED <<proxy, monitor>>
    /\ UNCHANGED <<proc, files, skill>>

\* The cleanup kills the agent first, every runtime by name with it.
CleanTerminate(l) ==
    /\ At(l, "cleanup")
    /\ Goes(l, "sweep")
    /\ Terminate({Cli(l)} \union Runtimes)
    /\ UNCHANGED <<proxy, monitor, files, skill>>

\* Runtimes that outlive a second are killed; then the proxy and the monitor
\* are told to end.  (Mutant: there is no second look.)
SweptOnce == {}

Swept == Runtimes

CleanSweep(l) ==
    /\ At(l, "sweep")
    /\ Goes(l, "reap")
    /\ proc' = [p \in Procs |-> IF p \in Swept THEN Dead(proc[p]) ELSE proc[p]]
    /\ monitor' = [monitor EXCEPT ![l].pc = IF @ \in {"none", "ended"} THEN @ ELSE "killed"]
    /\ UNCHANGED <<proxy, files, skill>>

CleanFiles(l) ==
    /\ At(l, "reap") /\ proxy[l] = "dead"
    /\ Goes(l, "ended")
    /\ files' = [files EXCEPT ![l].runs = FALSE, ![l].ready = FALSE]
    /\ skill' = IF l \in skill.held
                THEN [installed |-> TRUE, held |-> skill.held \ {l}] ELSE skill
    /\ UNCHANGED <<proxy, proc, monitor>>

----------------------------------------------------------------------------
(* The monitor.                                                            *)

Watches(l, pc) == monitor' = [monitor EXCEPT ![l].pc = pc]

\* A connection to itself shows that `lsof` shows connections.
Prove(l) ==
    /\ monitor[l].pc = "proving"
    /\ monitor' = [monitor EXCEPT ![l].pc = "group", ![l].proved = TRUE]
    /\ files' = [files EXCEPT ![l].ready = TRUE]
    /\ UNCHANGED <<script, proxy, proc, skill>>

\* What a round lists, first and then: the group before the runtimes.
\* (Mutant: the runtimes before the group.)
ListedRuntimesFirst(l, round) == IF round = 1 THEN Runtimes ELSE Group(l)

Listed(l, round) == IF round = 1 THEN Group(l) ELSE Runtimes

ListFirst(l) ==
    /\ monitor[l].pc = "group"
    /\ monitor' = [monitor EXCEPT ![l].pc = "runtimes", ![l].listed = Listed(l, 1)]
    /\ UNCHANGED <<script, proxy, proc, files, skill>>

\* The status is written if it can be.
WriteStatus(l, verdict, written) ==
    files' = [files EXCEPT ![l].status = IF written THEN verdict ELSE @]

\* Nothing is left to look at: the verdict.
ListSecond(l, written) ==
    /\ monitor[l].pc = "runtimes"
    /\ LET listed == monitor[l].listed \union Listed(l, 2)
       IN  IF listed = {}
           THEN /\ Watches(l, "ended")
                /\ WriteStatus(l, "passed", written)
           ELSE /\ monitor' = [monitor EXCEPT ![l].pc = "sockets", ![l].listed = listed]
                /\ UNCHANGED files
    /\ UNCHANGED <<script, proxy, proc, skill>>

\* Whom a connection that leaves loopback ends.  (Mutant: those it is seen of.)
StruckSeen(l) == {p \in monitor[l].listed : proc[p].remote}

Struck(l) == {Cli(l)} \union monitor[l].listed

Inspect(l, written) ==
    /\ monitor[l].pc = "sockets"
    /\ LET seen == {p \in monitor[l].listed : proc[p].remote}
       IN  IF seen = {}
           THEN /\ Watches(l, "group")
                /\ UNCHANGED <<proc, files>>
           ELSE /\ monitor' = [monitor EXCEPT ![l].pc = "ended", ![l].saw = seen]
                /\ Terminate(Struck(l))
                /\ WriteStatus(l, "failed", written)
    /\ UNCHANGED <<script, proxy, skill>>

\* `ps`, `lsof` or the proof fails: so does the agent, with the runtimes if
\* these can be listed.
MonitorFails(l, listed, written) ==
    /\ monitor[l].pc \in {"proving", "group", "runtimes", "sockets"}
    /\ Watches(l, "ended")
    /\ Terminate({Cli(l)} \union IF listed THEN Runtimes ELSE {})
    /\ WriteStatus(l, "error", written)
    /\ UNCHANGED <<script, proxy, skill>>

----------------------------------------------------------------------------
(* The processes.                                                          *)

ProxyBinds(l) ==
    /\ proxy[l] = "starting"
    /\ proxy' = [proxy EXCEPT ![l] =
                   IF \E k \in Launches : proxy[k] = "up" THEN "dead" ELSE "up"]
    /\ UNCHANGED <<script, proc, monitor, files, skill>>

ProxyEnds(l) ==
    /\ proxy[l] \in {"starting", "up"}
    /\ proxy' = [proxy EXCEPT ![l] = "dead"]
    /\ UNCHANGED <<script, proc, monitor, files, skill>>

Changes(p, r) ==
    /\ proc' = [proc EXCEPT ![p] = r]
    /\ UNCHANGED <<script, proxy, monitor, files, skill>>

StopsBeforeExec(l) ==
    proc[Cli(l)].state = "booting" /\ Changes(Cli(l), [proc[Cli(l)] EXCEPT !.state = "stopped"])

Daemonizes(l) ==
    /\ proc[Cli(l)].state = "running" /\ proc[Runtime(l)].state = "none"
    /\ Changes(Runtime(l), [proc[Runtime(l)] EXCEPT !.state = "running",
                                                   !.late = script[l].pc \in {"reap", "ended"}])

Connects(p, remote) ==
    /\ proc[p].state = "running"
    /\ Changes(p, [proc[p] EXCEPT !.opened = TRUE, !.remote = @ \/ remote])

Disconnects(p) == proc[p].remote /\ Changes(p, [proc[p] EXCEPT !.remote = FALSE])

Leaves(p) == proc[p].state = "running" /\ Changes(p, Dead(proc[p]))

\* The kernel continues and hangs up the stopped group a script leaves.
Orphaned(l) ==
    /\ At(l, "ended") /\ proc[Cli(l)].state = "stopped"
    /\ Changes(Cli(l), Dead(proc[Cli(l)]))

----------------------------------------------------------------------------

Init ==
    /\ script = [l \in Launches |->
                   [pc |-> "idle", exit |-> None, signals |-> 0, cut |-> FALSE]]
    /\ proxy = [l \in Launches |-> "none"]
    /\ \E before \in {"none", "running"} :
         proc = [p \in Procs |->
                   [state |-> IF p = Stray THEN before ELSE "none",
                    term |-> FALSE, late |-> FALSE, opened |-> FALSE, remote |-> FALSE]]
    /\ monitor = [l \in Launches |->
                    [pc |-> "none", proved |-> FALSE, listed |-> {}, saw |-> {}]]
    /\ files = [l \in Launches |-> [ready |-> FALSE, status |-> None, runs |-> FALSE]]
    /\ skill = [installed |-> TRUE, held |-> {}]

ScriptStep(l) ==
    \/ Healthy(l) \/ Unhealthy(l)
    \/ \E b \in BOOLEAN : PrepareSkill(l, b) \/ Probe(l, b) \/ Judge(l, b)
    \/ StartAgent(l) \/ StartMonitor(l) \/ Resume(l) \/ Refuse(l)
    \/ \E code \in {0, 1} : AgentEnds(l, code)
    \/ AuditEnds(l) \/ CleanTerminate(l) \/ CleanSweep(l) \/ CleanFiles(l)

MonitorStep(l) ==
    \/ Prove(l) \/ ListFirst(l)
    \/ \E written \in BOOLEAN :
          \/ ListSecond(l, written) \/ Inspect(l, written)
          \/ \E listed \in BOOLEAN : MonitorFails(l, listed, written)

Next ==
    \/ \E l \in Launches :
          \/ Preflight(l) \/ ScriptStep(l) \/ Abort(l)
          \/ \E group \in BOOLEAN : Interrupt(l, group)
          \/ MonitorStep(l)
          \/ ProxyBinds(l) \/ ProxyEnds(l)
          \/ StopsBeforeExec(l) \/ Daemonizes(l) \/ Orphaned(l)
    \/ \E p \in Procs : \/ \E remote \in BOOLEAN : Connects(p, remote)
                        \/ Disconnects(p) \/ Leaves(p)

\* The script, the monitor and the proxy are programs of the repository, and go
\* on.  A launch need not be started; the agent need not end, by itself or told.
Fairness ==
    \A l \in Launches : /\ WF_vars(ScriptStep(l))
                        /\ WF_vars(MonitorStep(l))
                        /\ WF_vars(StopsBeforeExec(l))
                        /\ WF_vars(proxy[l] = "starting" /\ ProxyBinds(l))
                        /\ WF_vars(At(l, "reap") /\ ProxyEnds(l))

Spec == Init /\ [][Next]_vars /\ Fairness

----------------------------------------------------------------------------
(* Properties.                                                             *)

Gone(l) == ~Alive(Cli(l)) /\ ~Alive(Runtime(l))

\* No process of the agent ever opens a socket before a monitor that has
\* proved it can see sockets watches it, however the start of the agent, of
\* the monitor, the gate's time-out and signals interleave.
GuardFirst ==
    \A l \in Launches :
       proc[Cli(l)].opened \/ proc[Runtime(l)].opened => monitor[l].proved

\* A launch that reports success has been watched to its end: the verdict was
\* written, no round saw a connection leave loopback, and neither the command
\* line nor a runtime it left behind is alive.
VerifiedMeansGone ==
    \A l \in Launches :
       /\ files[l].status = "passed" => Gone(l)
       /\ script[l].exit = 0 /\ script[l].pc = "ended" =>
            files[l].status = "passed" /\ monitor[l].saw = {} /\ Gone(l)

\* Whatever ends a launch, short of a signal that cuts its cleanup, it leaves
\* no proxy, monitor, runs directory or ready file behind, the skill file is back
\* when the last launch that set it aside has ended, and its processes are gone:
\* but for a command line that does not heed SIGTERM, which is all the cleanup
\* sends it, and a runtime that such a one starts after the sweep.
NothingLeft ==
    /\ \A l \in Launches :
         At(l, "ended") /\ ~script[l].cut =>
            /\ Alive(Cli(l)) => proc[Cli(l)].term
            /\ Alive(Runtime(l)) => proc[Runtime(l)].late
            /\ proxy[l] \in {"none", "dead"} /\ monitor[l].pc \in {"none", "ended", "killed"}
            /\ ~files[l].runs /\ ~files[l].ready /\ l \notin skill.held
    /\ skill.held = {} => skill.installed

\* It is told to end, and stays: it ignores SIGTERM, or it is stopped.
Defies(p) == Alive(p) /\ proc[p].term

\* A runtime whose connection left loopback while a monitor looked is dead in
\* the end, though the monitor sends no more than SIGTERM and the runtime may
\* ignore it: the command line is told to end as well, the script waits for it
\* and then sweeps.  This fails where the command line stays for ever, since the
\* script waits for it without a limit, or a signal cuts the cleanup short.
SeenIsEnded ==
    \A l \in Launches :
       \/ <>[]Defies(Cli(l))
       \/ <>script[l].cut
       \/ \A p \in Procs \ {Cli(k) : k \in Launches} : p \in monitor[l].saw ~> ~Alive(p)

\* Nothing of a run's artifacts outlives its script: "Frame-bearing artifacts
\* must never survive, including on signals and failed preflights"
\* (run_agent.sh).
ArtifactsGone == \A l \in Launches : At(l, "ended") => ~files[l].runs

=============================================================================
