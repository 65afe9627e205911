------------------------------- MODULE Config -------------------------------
(***************************************************************************)
(* From the layers a user may write to the configuration a run works with  *)
(* (cli.analyze up to validate_llm_config, config.py, appdir.py and the    *)
(* overrides of llm/privacy.py).  Built-in values lie under the user's     *)
(* config.yaml, that under the project's YAML file; the environment, which *)
(* the user's .env completes, fills what is empty; the command line lies   *)
(* on top.                                                                 *)
(*                                                                         *)
(* One plain key, max_depth, stands for the keys that are only copied; the *)
(* others are those of the LLM assistance.  A layer is a function from the *)
(* keys it sets to their values.                                           *)
(***************************************************************************)
CONSTANTS
  Setups,     \* what a user may have written before calling the program
  Null        \* the value of a key that is written without one

VARIABLES
  setup,      \* [user, project, dotenv, process, cli]
  cfg,
  environ,    \* the environment of the process
  stage       \* what comes next; or "ready", "usage" (exit 2) or "uncaught"

\* Whether f is a function that sets some of keys.
SetsSome(f, keys) == f = [k \in DOMAIN f |-> f[k]] /\ DOMAIN f \subseteq keys

Keys == {"max_depth", "privacy", "enabled", "provider", "model", "base_url"}

IsFile(file) ==
  /\ file = [kind |-> file.kind, sets |-> file.sets]
  /\ file.kind \in {"absent", "mapping", "garbage", "illtyped"}
  /\ SetsSome(file.sets, Keys)

\* Only the switches turn the assistance on from the command line.
ASSUME SetupsAssumption ==
  \A s \in Setups :
    /\ s = [user |-> s.user, project |-> s.project, dotenv |-> s.dotenv,
            process |-> s.process, cli |-> s.cli]
    /\ IsFile(s.user) /\ IsFile(s.project)
    /\ SetsSome(s.cli.sets, Keys \ {"enabled"})
    /\ s.cli.flag \in {"unset", "on", "off", "both"}

vars == <<setup, cfg, environ, stage>>

Default == [max_depth |-> 12, privacy |-> "offline", enabled |-> FALSE,
            provider |-> "openai", model |-> "", base_url |-> ""]

\* Mutation: prompts may leave the machine unless a layer forbids it.
BuiltinRedacted == [Default EXCEPT !.privacy = "redacted"]

Builtin == Default

\* The file ensure_user_appdir writes when there is none says what is built in.
Template == [kind |-> "mapping", sets |-> Default]

----------------------------------------------------------------------------
(* Layers.                                                                 *)

\* What two layers make together, where the upper one sets a key and where it does not.
Over(upper, lower) ==
  [k \in DOMAIN upper \cup DOMAIN lower |->
     IF k \in DOMAIN upper THEN upper[k] ELSE lower[k]]

\* str() makes a word of a missing value, bool() a truth of any text.
Coerce(key, value) ==
  CASE key = "enabled" -> value \notin {FALSE, Null}
    [] key \in {"provider", "model", "base_url"} -> IF value = Null THEN "None" ELSE value
    [] OTHER -> value

\* Mutation: what is set already stays.
MergeUnder(base, sets) == Over(base, [k \in DOMAIN sets |-> Coerce(k, sets[k])])

Merge(base, sets) == Over([k \in DOMAIN sets |-> Coerce(k, sets[k])], base)

\* A file that is no YAML or no mapping is reported; a value of a type that int() or
\* tuple() refuses raises TypeError, which nothing catches.
LoadFile(file, next) ==
  CASE file.kind = "absent"   -> cfg' = cfg /\ stage' = next
    [] file.kind = "mapping"  -> cfg' = Merge(cfg, file.sets) /\ stage' = next
    [] file.kind = "garbage"  -> cfg' = cfg /\ stage' = "usage"
    [] file.kind = "illtyped" -> cfg' = cfg /\ stage' = "uncaught"

EnvNames == {"provider", "model", "base_url", "key"}
Variable(name) == IF name \in DOMAIN environ THEN environ[name] ELSE ""

\* Only what is empty, or still the built-in provider, is filled in.
FillEmpty(base) ==
  [base EXCEPT
    !.provider = IF Variable("provider") # "" /\ @ = Builtin.provider
                 THEN Variable("provider") ELSE @,
    !.model    = IF @ = "" THEN Variable("model") ELSE @,
    !.base_url = IF @ = "" THEN Variable("base_url") ELSE @]

WithFlag(base, flag) ==
  CASE flag = "off"   -> [base EXCEPT !.enabled = FALSE]
    [] flag = "on"    -> [base EXCEPT !.enabled = TRUE]
    [] flag = "unset" -> base

\* Mutation: the command line may turn the assistance on in spite of the privacy mode.
OfflineIgnored(base) == base

DisableWhenOffline(base) ==
  IF base.privacy = "offline" THEN [base EXCEPT !.enabled = FALSE] ELSE base

----------------------------------------------------------------------------
(* Steps.                                                                  *)

Init ==
  /\ setup \in Setups
  /\ cfg = Builtin
  /\ environ = setup.process
  /\ stage = "bootstrap"

\* The user's directory gets its templates, then .env completes the environment: a
\* variable that is set keeps its value, were it the empty one.
Bootstrap ==
  /\ stage = "bootstrap"
  /\ setup' = IF setup.user.kind = "absent" THEN [setup EXCEPT !.user = Template] ELSE setup
  /\ environ' = Over(environ, setup.dotenv)
  /\ stage' = "arguments"
  /\ UNCHANGED cfg

\* --llm-enabled with --no-llm, a value an option does not take, a --config file that
\* is not there.
CheckArguments ==
  /\ stage = "arguments"
  /\ stage' = IF setup.cli.flag = "both" \/ setup.cli.invalid = "option" THEN "usage" ELSE "user"
  /\ UNCHANGED <<setup, cfg, environ>>

LoadUser ==
  /\ stage = "user"
  /\ LoadFile(setup.user, "project")
  /\ UNCHANGED <<setup, environ>>

\* The file --config names, or else ultra-trace.yml of the repository.
LoadProject ==
  /\ stage = "project"
  /\ LoadFile(setup.project, "environment")
  /\ UNCHANGED <<setup, environ>>

ApplyEnvironment ==
  /\ stage = "environment"
  /\ cfg' = FillEmpty(cfg)
  /\ stage' = "cli"
  /\ UNCHANGED <<setup, environ>>

\* --format and --analysis-mode are only looked at here.
ApplyCli ==
  /\ stage = "cli"
  /\ IF setup.cli.invalid = "format"
     THEN stage' = "usage" /\ cfg' = cfg
     ELSE /\ cfg' = DisableWhenOffline(Over(setup.cli.sets, WithFlag(cfg, setup.cli.flag)))
          /\ stage' = "validate"
  /\ UNCHANGED <<setup, environ>>

Providers == {"anthropic", "openai", "openai-compatible"}
Active == cfg.enabled /\ cfg.privacy # "offline"

\* The model has a default for every known provider, the base URL for all but one.
Usable ==
  /\ cfg.provider \in Providers
  /\ cfg.provider = "openai-compatible" => cfg.base_url # ""
  /\ Variable("key") # ""

Validate ==
  /\ stage = "validate"
  /\ stage' = IF Active /\ ~Usable THEN "usage" ELSE "ready"
  /\ UNCHANGED <<setup, cfg, environ>>

Next ==
  \/ Bootstrap \/ CheckArguments \/ LoadUser \/ LoadProject
  \/ ApplyEnvironment \/ ApplyCli \/ Validate

Spec == Init /\ [][Next]_vars

----------------------------------------------------------------------------
(* Properties.                                                             *)

Sets(file) == IF file.kind = "mapping" THEN file.sets ELSE <<>>
Files == Over(Sets(setup.project), Sets(setup.user))
Filed(key) == IF key \in DOMAIN Files THEN Coerce(key, Files[key]) ELSE Builtin[key]

\* The highest layer that sets the depth, the privacy mode, the model or the base URL
\* decides it, and the environment only decides what no file sets to anything
\* (load_layered_config: "built-ins < user appdir config < project config";
\* apply_env_llm_overrides: "Fill empty LLM knobs").  Of the provider this does not hold:
\* a project that names the built-in one is overridden by the environment.
HighestLayerWins ==
  stage = "ready" =>
    /\ \A k \in {"max_depth", "privacy"} :
         cfg[k] = IF k \in DOMAIN setup.cli.sets THEN setup.cli.sets[k] ELSE Filed(k)
    /\ \A k \in {"model", "base_url"} :
         cfg[k] = IF k \in DOMAIN setup.cli.sets THEN setup.cli.sets[k]
                  ELSE IF Filed(k) = "" THEN Variable(k) ELSE Filed(k)

\* Offline and --no-llm win over every other layer (README: "Offline wins over
\* `--llm-enabled`").
OffMeansOff ==
  stage = "ready" /\ (cfg.privacy = "offline" \/ setup.cli.flag = "off") => ~cfg.enabled

\* The assistance takes two decisions of a user, to leave the offline mode and to have
\* the assistance; neither the environment nor the template file ever takes one.
AssistIsOptIn ==
  stage = "ready" /\ Active =>
    /\ \E layer \in {Files, setup.cli.sets} :
         "privacy" \in DOMAIN layer /\ layer["privacy"] # "offline"
    /\ \/ setup.cli.flag = "on"
       \/ "enabled" \in DOMAIN Files /\ Files["enabled"] \notin {FALSE, Null}
=============================================================================
