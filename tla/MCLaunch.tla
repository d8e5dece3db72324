------------------------------ MODULE MCLaunch ------------------------------
(* TLC instance of Launch: settings that turn each thing off or on, started *)
(* in a clean environment, with a key of its own or with variables left     *)
(* behind; launches by hand that combine hooks, engines and odd words.      *)
EXTENDS Launch, TLC

MCSettings ==
  { DefaultSettings,
    [DefaultSettings EXCEPT !.plva = FALSE, !.tools = TRUE],
    [DefaultSettings EXCEPT !.features = Features \ {"chips"}, !.tools = TRUE],
    [DefaultSettings EXCEPT !.features = Features \ {"history_scrub", "resolution"},
                            !.source = "project"],
    [DefaultSettings EXCEPT !.visual = TRUE, !.source = "holo_cli"],
    [DefaultSettings EXCEPT !.visual = TRUE, !.detector = "v3", !.source = "environment"],
    [DefaultSettings EXCEPT !.semantic = "gliner2", !.skill = FALSE] }

MCInherited ==
  { << >>, "key" :> "environment", "audit" :> "on",
    "key" :> "environment" @@ "hook" :> "test" @@ "tools_skill" :> "on" @@ "redact" :> "odd",
    "key" :> "environment" @@ "hook" :> "banana" @@ "visual_model" :> "v3"
       @@ "grammar" :> "file" @@ "chips" :> "off" }

Key == "key" :> "environment"
MCByHand ==
  { Key, Key @@ "redact" :> "on", Key @@ "redact" :> "odd",
    Key @@ "redact" :> "on" @@ "engine" :> "vision" @@ "source" :> "project",
    Key @@ "redact" :> "on" @@ "engine" :> "vision" @@ "privacy" :> "odd",
    Key @@ "redact" :> "on" @@ "engine" :> "vision" @@ "chips" :> "off" @@ "hook" :> "test",
    Key @@ "redact" :> "on" @@ "engine" :> "vision" @@ "chips" :> "odd",
    Key @@ "redact" :> "on" @@ "engine" :> "baseline" @@ "privacy" :> "on",
    Key @@ "redact" :> "on" @@ "engine" :> "odd" @@ "hook" :> "banana",
    Key @@ "redact" :> "on" @@ "engine" :> "vision" @@ "image" :> "image" @@ "tools" :> "on",
    Key @@ "redact" :> "on" @@ "engine" :> "vision" @@ "policy" :> "odd",
    Key @@ "audit" :> "on" @@ "grammar" :> "file" }
=============================================================================
