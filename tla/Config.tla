------------------------------- MODULE Config -------------------------------
(***************************************************************************)
(* A configuration file, from its text to the configuration that is used:   *)
(* config.Load fills in defaults and validates (internal/config/config.go), *)
(* and BuildRegistry makes a provider of each entry                         *)
(* (internal/providers/factory.go).                                        *)
(*                                                                         *)
(* An endpoint is the id of its provider; one without a provider or without *)
(* a model name is like one whose provider is not defined.                  *)
(***************************************************************************)
EXTENDS Integers, Sequences

CONSTANTS
  Models,     \* model ids a client may ask for
  Providers   \* provider ids a configuration may name

\* A zero is a number the file does not give.
Model ==
  [primary : Providers, judge : Providers, panel : Seq(Providers),
   panelMinSuccess : Int, panelTimeoutMs : Int]

IsFile(f) ==
  /\ f.parses \in BOOLEAN              \* JSON, known fields, log level, log_dir
  /\ f.models \in [DOMAIN f.models -> Model] /\ DOMAIN f.models \subseteq Models
  /\ f.providers \subseteq Providers
  /\ f.keyless \subseteq Providers     \* their keys are not in the environment
  /\ f.unbased \subseteq Providers     \* not built in, and without a base_url
  /\ f = [parses |-> f.parses, models |-> f.models, providers |-> f.providers,
          keyless |-> f.keyless, unbased |-> f.unbased]

EndpointsOf(m) == {m.primary, m.judge} \cup {m.panel[i] : i \in DOMAIN m.panel}

Given(n, default) == IF n = 0 THEN default ELSE n
WithDefaults(m) ==
  [m EXCEPT !.panelTimeoutMs = Given(@, 25000), !.panelMinSuccess = Given(@, 2)]
ApplyDefaults(f) ==
  [f EXCEPT !.models = [id \in DOMAIN f.models |-> WithDefaults(f.models[id])]]

\* What a turn needs of its model; Pipeline assumes it.
Usable(m) ==
  /\ m.panelMinSuccess \in 1 .. Len(m.panel)
  /\ m.panelTimeoutMs >= 1000

ValidModel_NoQuorumCheck(m, providers) ==
  /\ EndpointsOf(m) \subseteq providers /\ m.panel # <<>>
  /\ m.panelMinSuccess >= 1 /\ m.panelTimeoutMs >= 1000
ValidModel_SkipsPanel(m, providers) ==
  {m.primary, m.judge} \subseteq providers /\ m.panel # <<>> /\ Usable(m)
ValidModel(m, providers) ==
  /\ EndpointsOf(m) \subseteq providers /\ m.panel # <<>>
  /\ m.panelMinSuccess >= 1 /\ m.panelMinSuccess <= Len(m.panel)
  /\ m.panelTimeoutMs >= 1000

Validate(f) ==
  /\ f.parses /\ DOMAIN f.models # {} /\ f.providers # {}
  /\ f.providers \cap f.keyless = {}
  /\ \A id \in DOMAIN f.models : ValidModel(f.models[id], f.providers)

\* Load accepts the file.
Loads(f) == Validate(ApplyDefaults(f))

\* BuildRegistry succeeds.
Buildable(f) == f.providers \cap (f.keyless \cup f.unbased) = {}
=============================================================================
