--------------------------- MODULE DemoController ---------------------------
(***************************************************************************)
(* The demo's controller and its history of runs (demo.py).  A run is a    *)
(* runner process with a proxy of its own, always on the same port.  For    *)
(* each run the controller starts two threads: the reader follows the      *)
(* output of the runner and closes the run when it has ended, the monitor   *)
(* copies what the proxy shows for as long as the runner lives; both       *)
(* mirror the proxy's model calls into memory and into the directory of    *)
(* the run.  Threads of a run that has ended may meet the next one.        *)
(* What is mirrored beside the calls (frame, vault, approvals, findings),   *)
(* traces and events are left out, and the bound of 48 calls in memory.     *)
(*                                                                         *)
(* The API handlers run on the event loop, one at a time.  Every step of a *)
(* thread is a request to whatever proxy answers, or one critical section  *)
(* of the controller or of the store.  Once a run's directory exists the    *)
(* disk does not fail.                                                     *)
(***************************************************************************)
EXTENDS Integers, FiniteSetsExt, Functions

CONSTANTS
  MaxRun,      \* bound: runs, numbered in the order of their starts
  MaxCall,     \* bound: model calls of a proxy, numbered from 1
  Sweeps,      \* mirror passes after the end of the runner (3 in the code)
  Answered     \* bound: the threads whose requests are ever answered in time

ASSUME DemoAssumption ==
  /\ MaxRun \in Nat /\ MaxCall \in Nat /\ Sweeps \in Nat \ {0}
  /\ Answered \subseteq (1..MaxRun) \X {"reader", "monitor"}

Run     == 1..MaxRun
None    == 0                                   \* no run, or no call
RunOr0  == 0..MaxRun
Call    == 1..MaxCall
Thread  == Run \X {"reader", "monitor"}
Closed  == {"completed", "failed", "stopped"}
Status  == {"idle", "starting", "running", "stopping"} \cup Closed

VARIABLES
  runner,     \* runner[n]: none, alive, alive with its proxy started, or its exit
  signalled,  \* runs whose runner was sent SIGTERM
  proxy,      \* the run whose proxy answers on the port
  made,       \* the calls that proxy has on record
  launched,   \* starts so far
  process,    \* _process: the run it belongs to
  status,     \* _status
  runId,      \* _run_id
  mirrored,   \* _calls: mirrored[id] is the run the record of that id is of
  disk,       \* disk[n]: what is recorded of run n
  at,         \* at[t]: where thread t is
  sweeps,     \* sweeps[n]: passes its reader has begun since the end
  todo,       \* todo[t]: the call ids its pass has still to fetch
  held,       \* held[t]: the run of the record it has fetched
  dir,        \* dir[t]: the run it read from _run_id
  lingering   \* history: runs whose proxy answered or whose record a thread held when n began

external  == <<runner, signalled, proxy, made>>
memory    == <<launched, process, status, runId, mirrored>>
threads   == <<at, sweeps, todo, held, dir>>
vars == <<runner, signalled, proxy, made, launched, process, status, runId,
          mirrored, disk, at, sweeps, todo, held, dir, lingering>>

NoCalls == [id \in Call |-> None]
Absent  == [status |-> "none", calls |-> NoCalls]
RunRecord == [status : {"none", "running"} \cup Closed, calls : [Call -> RunOr0]]
Exists(n) == n # None /\ disk[n].status # "none"

Init ==
  /\ runner = [n \in Run |-> "none"] /\ signalled = {}
  /\ proxy = None /\ made = 0
  /\ launched = 0 /\ process = None /\ status = "idle" /\ runId = None
  /\ mirrored = NoCalls
  /\ disk = [n \in Run |-> Absent]
  /\ at = [t \in Thread |-> "off"] /\ sweeps = [n \in Run |-> 0]
  /\ todo = [t \in Thread |-> {}] /\ held = [t \in Thread |-> None]
  /\ dir = [t \in Thread |-> None]
  /\ lingering = [n \in Run |-> {}]

-----------------------------------------------------------------------------
(* The API *)

(* _require_idle asks the process, not the status.                         *)
Alive(n) == n # None /\ runner[n] \in {"alive", "serving"}

Lingers(n) == n = proxy \/ \E t \in Thread : held[t] = n

(* Everything start() does before it starts the runner.                     *)
BeginRun(n) ==
  /\ ~Alive(process) /\ launched < MaxRun
  /\ launched' = n
  /\ runId' = n
  /\ disk' = [disk EXCEPT ![n].status = "running"]
  /\ lingering' = [lingering EXCEPT ![n] = {m \in Run : Lingers(m)}]

Spawn(n) ==
  /\ status' = "starting"
  /\ process' = n
  /\ runner' = [runner EXCEPT ![n] = "alive"]
  /\ at' = [at EXCEPT ![<<n, "reader">>] = "read", ![<<n, "monitor">>] = "mirror"]

Start(n) ==
  /\ BeginRun(n)
  /\ Spawn(n)
  /\ mirrored' = NoCalls
  /\ UNCHANGED <<signalled, proxy, made, sweeps, todo, held, dir>>

(* The runner cannot be started: what start() has reset stays so, and       *)
(* _process stays what it was.                                             *)
StartFails(n) ==
  /\ BeginRun(n)
  /\ status' = "failed"
  /\ mirrored' = NoCalls
  /\ UNCHANGED <<external, process, threads>>

(* Mutant of Stop: the controller lets go of the process it has signalled.  *)
StopLettingGo ==
  /\ Alive(process)
  /\ status' = "stopping"
  /\ signalled' = signalled \cup {process}
  /\ process' = None
  /\ UNCHANGED <<runner, proxy, made, launched, runId, mirrored, disk, threads, lingering>>

Stop ==
  /\ Alive(process)
  /\ status' = "stopping"
  /\ signalled' = signalled \cup {process}
  /\ UNCHANGED <<runner, proxy, made, launched, process, runId, mirrored, disk,
                 threads, lingering>>

(* clear_history: _run_id and the directories are two critical sections;    *)
(* what a thread writes between them is deleted by the second.              *)
ClearHistory ==
  /\ ~Alive(process)
  /\ runId' = None
  /\ disk' = [n \in Run |-> Absent]
  /\ UNCHANGED <<external, launched, process, status, mirrored, threads,
                 lingering>>

-----------------------------------------------------------------------------
(* Runner and proxy *)

RunnerExits(n, exit) ==
  /\ Alive(n)
  /\ runner' = [runner EXCEPT ![n] = exit]
  /\ UNCHANGED <<signalled, proxy, made, memory, disk, threads, lingering>>

(* The runner starts its proxy, once; the port must be free.               *)
ProxyStarts(n) ==
  /\ runner[n] = "alive" /\ proxy = None
  /\ runner' = [runner EXCEPT ![n] = "serving"]
  /\ proxy' = n /\ made' = 0
  /\ UNCHANGED <<signalled, memory, disk, threads, lingering>>

ProxyRecords ==
  /\ proxy # None /\ made < MaxCall
  /\ made' = made + 1
  /\ UNCHANGED <<runner, signalled, proxy, memory, disk, threads, lingering>>

(* "The proxy can outlive the runner by only a moment": as a rule the runner *)
(* waits for it, unless it was stopped before its trap was set.            *)
ProxyEnds ==
  /\ proxy # None
  /\ proxy' = None /\ made' = 0
  /\ UNCHANGED <<runner, signalled, memory, disk, threads, lingering>>

-----------------------------------------------------------------------------
(* _mirror_calls, a pass of thread t *)

Go(t, label) == at' = [at EXCEPT ![t] = label]

(* The index of the calls; without an answer the pass is over.              *)
MirrorIndex(t) ==
  /\ at[t] = "index"
  /\ \/ t \in Answered /\ proxy # None
        /\ todo' = [todo EXCEPT ![t] = 1..made] /\ Go(t, "known")
     \/ Go(t, "mirror") /\ UNCHANGED todo
  /\ UNCHANGED <<external, memory, disk, sweeps, held, dir, lingering>>

(* Which of them are known, under the lock.                                *)
MirrorKnown(t) ==
  /\ at[t] = "known"
  /\ todo' = [todo EXCEPT ![t] = {id \in @ : mirrored[id] = None}]
  /\ Go(t, "mirror")
  /\ UNCHANGED <<external, memory, disk, sweeps, held, dir, lingering>>

MirrorFetch(t) ==
  /\ at[t] = "mirror" /\ todo[t] # {}
  /\ Min(todo[t]) <= made
  /\ held' = [held EXCEPT ![t] = proxy]
  /\ Go(t, "store")
  /\ UNCHANGED <<external, memory, disk, sweeps, todo, dir, lingering>>

(* The record, or one of its images, does not come.                         *)
MirrorSkip(t) ==
  /\ at[t] = "mirror" /\ todo[t] # {}
  /\ todo' = [todo EXCEPT ![t] = @ \ {Min(@)}]
  /\ UNCHANGED <<external, memory, disk, at, sweeps, held, dir, lingering>>

MirrorStore(t) ==
  /\ at[t] = "store"
  /\ mirrored' = [mirrored EXCEPT ![Min(todo[t])] = held[t]]
  /\ dir' = [dir EXCEPT ![t] = runId]
  /\ Go(t, "save")
  /\ UNCHANGED <<external, launched, process, status, runId, disk, sweeps,
                 todo, held, lingering>>

MirrorSave(t) ==
  /\ at[t] = "save"
  /\ disk' = IF Exists(dir[t])
             THEN [disk EXCEPT ![dir[t]].calls[Min(todo[t])] = held[t]] ELSE disk
  /\ todo' = [todo EXCEPT ![t] = @ \ {Min(@)}]
  /\ held' = [held EXCEPT ![t] = None] /\ dir' = [dir EXCEPT ![t] = None]
  /\ Go(t, "mirror")
  /\ UNCHANGED <<external, memory, sweeps, lingering>>

Mirror(t) == \/ MirrorIndex(t) \/ MirrorKnown(t) \/ MirrorFetch(t)
             \/ MirrorSkip(t) \/ MirrorStore(t) \/ MirrorSave(t)

(* No pass of t is under way.                                              *)
Passed(t) == at[t] = "mirror" /\ todo[t] = {}

-----------------------------------------------------------------------------
(* The monitor *)

MonitorPolls(n) ==
  /\ Passed(<<n, "monitor">>)
  /\ Go(<<n, "monitor">>, IF Alive(n) THEN "index" ELSE "done")
  /\ UNCHANGED <<external, memory, disk, sweeps, todo, held, dir, lingering>>

-----------------------------------------------------------------------------
(* The reader *)

(* "redaction ON" or a probe that was answered; the line may have been in    *)
(* the pipe for a while.  Other lines change neither status nor calls.      *)
ReadLine(n) ==
  /\ at[<<n, "reader">>] = "read"
  /\ status' = "running"
  /\ UNCHANGED <<external, launched, process, runId, mirrored, disk, threads, lingering>>

(* The end of the output, then Sweeps passes a quarter of a second apart.   *)
Sweep(n) ==
  /\ \/ at[<<n, "reader">>] = "read" /\ runner[n] \in {"ok", "error"}
     \/ Passed(<<n, "reader">>) /\ sweeps[n] < Sweeps
  /\ sweeps' = [sweeps EXCEPT ![n] = @ + 1]
  /\ Go(<<n, "reader">>, "index")
  /\ UNCHANGED <<external, memory, disk, todo, held, dir, lingering>>

Closing(n) == CASE status = "stopping" -> "stopped"
                [] status # "stopping" /\ runner[n] = "ok"    -> "completed"
                [] status # "stopping" /\ runner[n] = "error" -> "failed"

CloseCurrent(n) ==
  /\ process' = None
  /\ status' = Closing(n)
  /\ disk' = IF Exists(runId) THEN [disk EXCEPT ![runId].status = status'] ELSE disk

(* Mutant of Close: it does not look whose process is the current one.      *)
CloseAny(n) ==
  /\ Passed(<<n, "reader">>) /\ sweeps[n] = Sweeps
  /\ Go(<<n, "reader">>, "done")
  /\ CloseCurrent(n)
  /\ UNCHANGED <<external, launched, runId, mirrored, sweeps, todo, held, dir, lingering>>

(* Another run may have begun: this one is then left as it is.             *)
Close(n) ==
  /\ Passed(<<n, "reader">>) /\ sweeps[n] = Sweeps
  /\ Go(<<n, "reader">>, "done")
  /\ IF process = n THEN CloseCurrent(n) ELSE UNCHANGED <<process, status, disk>>
  /\ UNCHANGED <<external, launched, runId, mirrored, sweeps, todo, held, dir, lingering>>

-----------------------------------------------------------------------------
ReaderOf(n)  == Mirror(<<n, "reader">>) \/ Sweep(n) \/ Close(n)
MonitorOf(n) == Mirror(<<n, "monitor">>) \/ MonitorPolls(n)

Next ==
  \/ Start(launched + 1) \/ StartFails(launched + 1)
  \/ Stop \/ ClearHistory
  \/ \E n \in Run, exit \in {"ok", "error"} : RunnerExits(n, exit)
  \/ \E n \in Run : ProxyStarts(n) \/ ReadLine(n) \/ ReaderOf(n) \/ MonitorOf(n)
  \/ ProxyRecords \/ ProxyEnds

Spec == Init /\ [][Next]_vars

-----------------------------------------------------------------------------
(* Properties *)

(* The values of the variables; a reader sweeps the calls at most Sweeps    *)
(* times.                                                                  *)
TypeOK ==
  /\ runner \in [Run -> {"none", "alive", "serving", "ok", "error"}] /\ signalled \subseteq Run
  /\ proxy \in RunOr0 /\ made \in 0..MaxCall
  /\ launched \in RunOr0 /\ process \in RunOr0 /\ runId \in RunOr0 /\ status \in Status
  /\ mirrored \in [Call -> RunOr0]
  /\ disk \in [Run -> RunRecord]
  /\ at \in [Thread -> {"off", "read", "index", "known", "mirror", "store", "save", "done"}]
  /\ sweeps \in [Run -> 0..Sweeps]
  /\ todo \in [Thread -> SUBSET Call]
  /\ held \in [Thread -> RunOr0] /\ dir \in [Thread -> RunOr0]
  /\ lingering \in [Run -> SUBSET Run]

(* A runner that lives is the one the controller holds: it can be stopped,  *)
(* no other is started beside it, and the history is not cleared under it.  *)
RunnerIsHeld == \A n \in Run : Alive(n) => process = n

(* What is recorded of the end of a run that was started is the truth: its  *)
(* own reader wrote it after its own runner had ended, "completed" after an *)
(* exit with 0 and "stopped" after a stop.                                 *)
EndsAreTrue ==
  \A n \in Run :
     disk[n].status \in Closed /\ runner[n] # "none" =>
        /\ at[<<n, "reader">>] = "done"
        /\ disk[n].status = "completed" => runner[n] = "ok"
        /\ disk[n].status = "failed" => runner[n] = "error"
        /\ disk[n].status = "stopped" => n \in signalled

(* Runs do not mix, in memory or on disk, unless the proxy of the earlier   *)
(* one still answered, or a thread held one of its records fetched and not *)
(* stored, when the later one began.                                       *)
RunsApart ==
  /\ launched # 0 => Range(mirrored) \subseteq {None, launched} \cup lingering[launched]
  /\ \A n \in Run : Exists(n) =>
        Range(disk[n].calls) \subseteq {None, n} \cup lingering[n]

(* A reader that has done its work leaves no run "running" on disk, unless  *)
(* another run began before it got so far.                                 *)
RunsAreClosed ==
  \A n \in Run :
     at[<<n, "reader">>] = "done" => disk[n].status # "running" \/ launched > n

(* The history holds what each run did and that it ended, however the       *)
(* threads of successive runs overlap.                                     *)
RunsRecorded == RunsApart /\ RunsAreClosed
=============================================================================
