------------------------------- MODULE Launch -------------------------------
(***************************************************************************)
(* How a run gets its protection.  The demo (demo.py) turns the settings   *)
(* and the policy into environment variables, on top of those it was       *)
(* started with; or a user sets the variables by hand.  run_agent.sh reads *)
(* them as switches and turns them into arguments of the proxy; proxy.py's *)
(* main checks those and builds the chain of hooks that every request goes *)
(* through, that of the script's probe first and then the agent's.  Keys   *)
(* and files come and go on the machine meanwhile.                         *)
(*                                                                         *)
(* An environment is a function from the variables that are set to words.  *)
(* The word of a switch is "on", "off" or, where it is neither, "odd".     *)
(***************************************************************************)
EXTENDS Naturals, FiniteSetsExt

CONSTANTS
  Settings,     \* bound: the settings the user chooses in the demo
  Policies,     \* bound: the policies
  Inherited,    \* bound: the environments the demo is started in
  ByHand,       \* bound: the environments of launches without the demo
  Files,        \* the models and images that may be installed or not
  MaxChanges,   \* bound: changes of keys and files
  Nothing

Features == {"history_scrub", "chips", "scheme", "duplicate_warning", "manifest",
             "resolution", "policy_teaching"}
Layers == <<"environment", "holo_cli", "project">>   \* in the order of "auto"

(* What the demo lets the user choose.                                     *)
Selectable ==
  [plva : BOOLEAN, features : SUBSET Features, skill : BOOLEAN, visual : BOOLEAN,
   detector : {"v2", "v3"}, tools : BOOLEAN,
   semantic : {"rampart", "gliner2", "openai-pf", "openai-pf-4bit"},
   source : {"auto", "environment", "holo_cli", "project"}]

OnOff == Features \cup {"audit", "redact", "skill", "tools", "tools_skill", "privacy", "visual"}

(* Why a launch is refused.                                                *)
Reasons == {"switches", "file", "key", "hooks", "failed", "provider"}

(* A request, wherever it is on its way: its screenshot, its texts, and     *)
(* what else it carries.                                                   *)
Bodies ==
  [frame : {Nothing, "raw", "static", "masked", "chips"}, text : {"plain", "raw", "scrubbed"},
   grammar : {Nothing, "actions"}, manifest : BOOLEAN]

(* An environment in which every switch has one of the three words, and a   *)
(* key of its own.                                                         *)
Environment(env) ==
  /\ \A v \in DOMAIN env \cap OnOff : env[v] \in {"on", "off", "odd"}
  /\ "key" \in DOMAIN env => env["key"] = "environment"

(* The demo writes the policy it has validated; a policy the proxy cannot   *)
(* read ("odd") only comes from an environment written by hand.            *)
ASSUME LaunchAssumption ==
  /\ \A s \in Settings : s \in Selectable
  /\ "odd" \notin Policies
  /\ \A env \in Inherited \cup ByHand : Environment(env)
  /\ MaxChanges \in Nat
  /\ Nothing \notin Reasons \cup Bodies

VARIABLES
  settings, policy,  \* of the demo
  inherited,         \* the demo's own environment
  installed,         \* the files that are there
  stored,            \* the key files that hold a key
  changes,
  run,               \* the launch that is under way
  sent,              \* history: the last request that went to the provider
  captured           \* what the grammar hook of this run has written

launchVars == <<settings, policy, inherited, installed, stored, changes, run, sent, captured>>

Word(env, v, default) == IF v \in DOMAIN env THEN env[v] ELSE default

\* f with the values of g where both are defined.
Over(g, f) == [x \in DOMAIN g \cup DOMAIN f |-> IF x \in DOMAIN g THEN g[x] ELSE f[x]]

-----------------------------------------------------------------------------
(* Keys: told apart by the layer they were first stored in. *)

Present(layer, env) ==
  CASE layer = "environment" -> Word(env, "key", Nothing)
    [] OTHER                 -> IF layer \in stored THEN layer ELSE Nothing

(* The key that a source resolves to: of the first layer that has one.     *)
Resolve(source, env) ==
  LET having == {i \in DOMAIN Layers : /\ source \in {"auto", Layers[i]}
                                      /\ Present(Layers[i], env) # Nothing}
  IN  IF having = {} THEN Nothing ELSE Present(Layers[Min(having)], env)

-----------------------------------------------------------------------------
(* The script *)

Redacts(env) == Word(env, "redact", "off") = "on"
Engine(env) == Word(env, "engine", "accelerated")
Vision(env) == Redacts(env) /\ Engine(env) = "vision"
Private(env) ==
  Redacts(env) /\ Word(env, "privacy", IF Vision(env) THEN "on" ELSE "off") = "on"
Detects(env) == Vision(env) /\ Word(env, "visual", "off") = "on"
Tools(env) == Word(env, "tools", "off") = "on"

(* Mutant of TeachesTools: on unless told otherwise.                       *)
TeachesToolsAlways(env) == Word(env, "tools_skill", "on") = "on"

TeachesTools(env) == Word(env, "tools_skill", IF Tools(env) THEN "on" ELSE "off") = "on"

(* The switches that are looked at.                                        *)
Switches(env) ==
  {"audit", "redact", "skill", "tools", "tools_skill"}
    \cup IF Redacts(env) THEN {"privacy"} \cup Features ELSE {}
    \cup IF Vision(env) THEN {"visual"} ELSE {}

OddWord(env) ==
  \/ \E v \in Switches(env) : Word(env, v, "off") = "odd"
  \/ Vision(env) /\ \/ Word(env, "semantic", "rampart") = "odd"
                    \/ Detects(env) /\ Word(env, "detector", "v2") = "odd"

(* Switches that do not go together.                                       *)
Conflict(env) ==
  \/ Word(env, "audit", "off") = "on" /\ ~Redacts(env)
  \/ TeachesTools(env) /\ ~Tools(env)

VisualModel(env) == Word(env, "visual_model", Word(env, "detector", "v2"))

Needed(env) ==
  (IF "image" \in DOMAIN env THEN {env["image"]} ELSE {})
    \cup (IF Detects(env) THEN {VisualModel(env)} ELSE {})
    \cup (IF Vision(env) THEN {Word(env, "semantic", "rampart")} \ {"rampart"} ELSE {})

(* Why the script does not go on, or Nothing; where there are several reasons  *)
(* the order among them is left out.  Any key will do for it.              *)
ScriptRefusal(env) ==
  CASE OddWord(env) \/ Conflict(env)   -> "switches"
    [] ~(Needed(env) \subseteq installed) -> "file"
    [] Resolve("auto", env) = Nothing     -> "key"
    [] OTHER                           -> Nothing

Arguments(env) ==
  [hook |-> Word(env, "hook", "none"), image |-> "image" \in DOMAIN env,
   redact |-> Redacts(env), engine |-> Engine(env),
   visual |-> IF Detects(env) THEN VisualModel(env) ELSE Nothing,
   semantic |-> IF Vision(env) THEN Word(env, "semantic", "rampart") ELSE Nothing,
   privacy |-> Private(env),
   features |-> {f \in Features : Private(env) /\ Word(env, f, "on") = "on"},
   policy |-> Word(env, "policy", "file"),
   tools |-> Tools(env), grammar |-> "grammar" \in DOMAIN env,
   source |-> Word(env, "source", "auto")]

-----------------------------------------------------------------------------
(* The proxy *)

(* Mutant of Combined: privacy goes with any engine.                       *)
CombinedAnyhow(args) ==
  /\ args.hook \in {"none", "test", "banana"}
  /\ args.redact => args.engine \in {"accelerated", "vision", "baseline"}

(* Choices the proxy knows, and privacy only over the Vision engine.       *)
Combined(args) ==
  /\ args.hook \in {"none", "test", "banana"}
  /\ args.redact => args.engine \in {"accelerated", "vision", "baseline"}
  /\ args.privacy => args.redact /\ args.engine = "vision"

ProxyRefusal(env, args) ==
  CASE ~Combined(args) \/ args.policy = "odd"  -> "switches"
    [] Resolve(args.source, env) = Nothing        -> "key"
    [] (args.image /\ env["image"] \notin installed) \/ (args.redact /\ "redactor" \notin installed)
                                               -> "file"
    [] OTHER                                   -> Nothing

(* The vault and its hooks are built beside a worker, which the baseline    *)
(* does without.                                                           *)
Vaults(args) == args.redact /\ args.engine # "baseline" /\ args.privacy

(* The hooks a request goes through, in the order of the functions below.  *)
RequestHooks(args) ==
  {h \in {"capture", "test", "image", "redact", "privacy", "tools"} :
     CASE h = "capture" -> args.grammar
       [] h = "test"    -> args.hook = "test"
       [] h = "image"   -> args.image
       [] h = "redact"  -> args.redact
       [] h = "privacy" -> Vaults(args)
       [] h = "tools"   -> args.tools}

(* The hooks of a reply.                                                   *)
ReplyHooks(args) ==
  {h \in {"test", "banana", "privacy"} :
     IF h = "privacy" THEN Vaults(args) /\ "resolution" \in args.features
                      ELSE args.hook = h}

-----------------------------------------------------------------------------
(* Requests and replies on their way through the hooks; Nothing is refused.   *)

ProbeRequest == [frame |-> Nothing, text |-> "plain", grammar |-> Nothing, manifest |-> FALSE]
AgentRequests == [frame : {Nothing, "raw"}, text : {"raw"}, grammar : {"actions"},
                  manifest : {FALSE}]

(* The image takes the place of the screenshot, which must be there.       *)
Substituted(args, body) ==
  IF "image" \notin RequestHooks(args) THEN body
  ELSE IF body.frame = Nothing THEN Nothing ELSE [body EXCEPT !.frame = "static"]

Painted(args, body) ==
  LET chips == Vaults(args) /\ "chips" \in args.features
  IN  IF "redact" \notin RequestHooks(args) \/ body = Nothing \/ body.frame = Nothing THEN body
      ELSE [body EXCEPT !.frame = IF chips THEN "chips" ELSE "masked",
                        !.manifest = chips /\ "manifest" \in args.features]

Scrubbed(args, body) ==
  IF /\ "privacy" \in RequestHooks(args) /\ "history_scrub" \in args.features
     /\ body # Nothing /\ body.text = "raw"
  THEN [body EXCEPT !.text = "scrubbed"] ELSE body

(* Any hook that works on the request may fail.  The other hooks leave it   *)
(* as it is.                                                               *)
Outgoing(args, body, failing) ==
  IF RequestHooks(args) \cap failing # {} THEN Nothing
  ELSE Scrubbed(args, Painted(args, Substituted(args, body)))

(* The test hook wants an action: the one word of the probe's reply is none. *)
Returned(args) == "test" \notin ReplyHooks(args)

-----------------------------------------------------------------------------
(* The demo *)

NoRun == [phase |-> "none", by |-> Nothing, env |-> << >>, args |-> Nothing, key |-> Nothing,
          refusal |-> Nothing]

Idle == run.by = "demo" => run.phase = "none"

Switch(b) == IF b THEN "on" ELSE "off"

(* What the demo says about a variable.                                    *)
Told(s, v) ==
  CASE v \in Features            -> Switch(v \in s.features)
    [] v \in {"redact", "privacy"} -> Switch(s.plva)
    [] v = "engine"              -> "vision"
    [] v = "detector"            -> s.detector
    [] v = "visual"              -> Switch(s.visual)
    [] v = "semantic"            -> s.semantic
    [] v = "tools"               -> Switch(s.tools)
    [] v = "skill"               -> Switch(s.skill)
    [] v = "policy"              -> policy
    [] v = "source"              -> s.source

Variables == Features \cup {"redact", "privacy", "engine", "detector", "visual", "semantic",
                           "tools", "skill", "policy", "source"}

(* Mutant of Exported: the proxy is not told the source.                   *)
ExportedWithoutSource(s) == [v \in Variables \ {"source"} |-> Told(s, v)]

(* The variables the demo sets, whatever they were before.                 *)
Exported(s) == [v \in Variables |-> Told(s, v)]

(* The key that the source has now goes along.                             *)
RunEnvironment ==
  LET key == Resolve(settings.source, inherited)
  IN  Over(Exported(settings),
           IF key = Nothing THEN inherited ELSE Over([v \in {"key"} |-> key], inherited))

(* The v3 detector must be there when it is chosen.                        *)
Valid(s) == s.detector = "v3" /\ s.visual => "v3" \in installed

SetSettings(s) ==
  /\ Idle /\ Valid(s)
  /\ settings' = s
  /\ UNCHANGED <<policy, inherited, installed, stored, changes, run, sent, captured>>

SetPolicy(p) ==
  /\ Idle
  /\ policy' = p
  /\ UNCHANGED <<settings, inherited, installed, stored, changes, run, sent, captured>>

(* The key saved by the agent's own command line is there: any key will do. *)
ConnectHoloCli ==
  /\ Idle /\ "holo_cli" \in stored
  /\ settings' = [settings EXCEPT !.source = "auto"]
  /\ UNCHANGED <<policy, inherited, installed, stored, changes, run, sent, captured>>

Launched(by, env) ==
  /\ run.phase = "none"
  /\ run' = [NoRun EXCEPT !.phase = "script", !.by = by, !.env = env]
  /\ sent' = Nothing /\ captured' = Nothing
  /\ UNCHANGED <<settings, policy, inherited, installed, stored, changes>>

StartByDemo == Launched("demo", RunEnvironment)
StartByHand(env) == Launched("hand", env)

-----------------------------------------------------------------------------
(* The run *)

Ends(refusal) ==
  run' = [NoRun EXCEPT !.by = run.by, !.refusal = refusal] /\ sent' = Nothing /\ captured' = Nothing
Rest == <<settings, policy, inherited, installed, stored, changes>>

ReadSwitches ==
  /\ run.phase = "script"
  /\ IF ScriptRefusal(run.env) # Nothing THEN Ends(ScriptRefusal(run.env))
     ELSE /\ run' = [run EXCEPT !.phase = "proxy", !.args = Arguments(run.env)]
          /\ UNCHANGED <<sent, captured>>
  /\ UNCHANGED Rest

BuildProxy ==
  /\ run.phase = "proxy"
  /\ LET refusal == ProxyRefusal(run.env, run.args)
     IN  IF refusal # Nothing THEN Ends(refusal)
         ELSE /\ run' = [run EXCEPT !.phase = "serving",
                                    !.key = Resolve(run.args.source, run.env)]
              /\ UNCHANGED <<sent, captured>>
  /\ UNCHANGED Rest

(* What the proxy sees first is captured as it comes, whatever becomes of it. *)
Captured(body) ==
  IF run.args.grammar /\ captured = Nothing THEN [grammar |-> body.grammar] ELSE captured

Latest(body) == IF body = Nothing THEN sent ELSE body

(* The script asks for one word, without a screenshot.  The hooks may not   *)
(* let it through, nor the reply, and the provider may refuse it.          *)
Probe ==
  /\ run.phase = "serving"
  /\ \E failing \in SUBSET {"privacy"}, answered \in BOOLEAN :
       LET body == Outgoing(run.args, ProbeRequest, failing)
       IN  IF body # Nothing /\ answered /\ Returned(run.args)
           THEN run' = [run EXCEPT !.phase = "agent"] /\ sent' = body
                /\ captured' = Captured(ProbeRequest)
           ELSE Ends(IF failing # {} THEN "failed"
                     ELSE IF body = Nothing \/ answered THEN "hooks" ELSE "provider")
  /\ UNCHANGED Rest

(* The agent goes on after a request that was refused.                     *)
Request(body, failing) ==
  /\ run.phase = "agent"
  /\ sent' = Latest(Outgoing(run.args, body, failing))
  /\ captured' = Captured(body)
  /\ UNCHANGED <<Rest, run>>

(* The run is over, or is stopped.                                         *)
End ==
  /\ run.phase # "none"
  /\ Ends(Nothing)
  /\ UNCHANGED Rest

(* Someone installs or removes a file, logs in or out.                     *)
ChangeFile(f) ==
  /\ changes < MaxChanges /\ changes' = changes + 1
  /\ installed' = SymDiff(installed, {f})
  /\ UNCHANGED <<settings, policy, inherited, stored, run, sent, captured>>

ChangeKey(layer) ==
  /\ changes < MaxChanges /\ changes' = changes + 1
  /\ stored' = SymDiff(stored, {layer})
  /\ UNCHANGED <<settings, policy, inherited, installed, run, sent, captured>>

-----------------------------------------------------------------------------
(* Everything on, the key from where there is one.                         *)
DefaultSettings ==
  [plva |-> TRUE, features |-> Features, skill |-> TRUE, detector |-> "v2", visual |-> FALSE,
   semantic |-> "rampart", tools |-> FALSE, source |-> "auto"]

LaunchInit ==
  /\ settings = DefaultSettings /\ policy = "file"
  /\ inherited \in Inherited /\ installed \in {{}, Files}
  /\ stored \in SUBSET {"holo_cli", "project"}
  /\ changes = 0 /\ run = NoRun /\ sent = Nothing /\ captured = Nothing

LaunchNext ==
  \/ \E s \in Settings : SetSettings(s)
  \/ \E p \in Policies : SetPolicy(p)
  \/ ConnectHoloCli \/ StartByDemo
  \/ \E env \in ByHand : StartByHand(env)
  \/ ReadSwitches \/ BuildProxy \/ Probe
  \/ \E body \in AgentRequests, failing \in SUBSET {"redact", "privacy"} : Request(body, failing)
  \/ End
  \/ \E f \in Files : ChangeFile(f)
  \/ \E layer \in {"holo_cli", "project"} : ChangeKey(layer)

LaunchSpec == LaunchInit /\ [][LaunchNext]_launchVars

-----------------------------------------------------------------------------
(* Properties *)

Serving == run.phase \in {"serving", "agent"}

(* What the demo shows is what protects the run, whenever the settings and  *)
(* the policy were changed and whatever the demo was started with, but for  *)
(* a detector that the environment overrides.                              *)
RunsAsChosen ==
  Serving /\ run.by = "demo" =>
    /\ run.args.redact = settings.plva /\ run.args.privacy = settings.plva
    /\ settings.plva =>
         /\ run.args.features = settings.features /\ run.args.policy = policy
         /\ run.args.semantic = settings.semantic
         /\ run.args.visual = IF ~settings.visual THEN Nothing
                              ELSE Word(inherited, "visual_model", settings.detector)
    /\ run.args.tools = settings.tools

Asks(v) == Word(run.env, v, "off") # "off"

(* A launch that asks for redaction, in whatever words and with whatever    *)
(* other hooks, sends no screenshot as it was taken; one that asks for      *)
(* privacy sends no text as it was written, unless it turned the scrubbing  *)
(* off.                                                                    *)
NothingRaw ==
  sent # Nothing /\ Asks("redact") =>
    /\ sent.frame \in {Nothing, "masked", "chips"}
    /\ Asks("privacy") /\ Word(run.env, "history_scrub", "on") # "off" => sent.text # "raw"
    /\ Asks("privacy") /\ sent.frame # Nothing =>
         (sent.frame = "chips") = (Word(run.env, "chips", "on") = "on")

(* The provider is paid with the key of the source that was asked for: a    *)
(* key that is missing or was removed meanwhile is not replaced by another. *)
KeyIsOfSource ==
  Serving => LET source == IF run.by = "demo" THEN settings.source
                           ELSE Word(run.env, "source", "auto")
             IN  source # "auto" => run.key = source

(* A run is protected as the demo shows and paid with the key it names.     *)
AsChosen == RunsAsChosen /\ KeyIsOfSource

(* Settings that the demo has accepted, started from a clean environment,   *)
(* are refused by neither the script nor the proxy nor the hooks, unless a  *)
(* file or a key is missing or a hook fails.                               *)
AcceptedIsStarted ==
  run.by = "demo" /\ DOMAIN inherited \subseteq {"key"} =>
    run.refusal \in {Nothing, "file", "key", "failed", "provider"}

(* "Snapshot the first request's action grammar" (proxy.py): what is        *)
(* captured of a run that serves its agent is the grammar of the agent's    *)
(* actions.                                                                *)
GrammarIsCaptured ==
  captured # Nothing /\ run.phase = "agent" => captured.grammar # Nothing

=============================================================================
