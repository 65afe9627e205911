---------------------------- MODULE ConfigProofs ----------------------------
(***************************************************************************)
(* Who decides a value, for whatever a user has written in the layers: the *)
(* highest layer that sets it; offline and --no-llm over all of them; and  *)
(* never the environment whether the assistance runs.                      *)
(***************************************************************************)
EXTENDS Config, TLAPS

Switches == {"max_depth", "privacy", "enabled"}
Knobs == {"model", "base_url"}

\* What the user's file and the built-in values make of a key.
UserFiled(k) ==
  IF k \in DOMAIN Sets(setup.user) THEN Coerce(k, Sets(setup.user)[k]) ELSE Builtin[k]

WithVariable(k) == IF Filed(k) = "" THEN Variable(k) ELSE Filed(k)

IsSetup(s) ==
  /\ s = [user |-> s.user, project |-> s.project, dotenv |-> s.dotenv,
          process |-> s.process, cli |-> s.cli]
  /\ IsFile(s.user) /\ IsFile(s.project)
  /\ SetsSome(s.cli.sets, Keys \ {"enabled"})
  /\ s.cli.flag \in {"unset", "on", "off", "both"}

Decided ==
  /\ \A k \in {"max_depth", "privacy"} :
       cfg[k] = IF k \in DOMAIN setup.cli.sets THEN setup.cli.sets[k] ELSE Filed(k)
  /\ \A k \in Knobs :
       cfg[k] = IF k \in DOMAIN setup.cli.sets THEN setup.cli.sets[k] ELSE WithVariable(k)
  /\ cfg["privacy"] = "offline" \/ setup.cli.flag = "off" => ~cfg["enabled"]
  /\ cfg["enabled"] => setup.cli.flag = "on" \/ Filed("enabled")

\* What is decided of each key when a stage is reached.
ConfigInv ==
  /\ IsSetup(setup)
  /\ cfg = [k \in Keys |-> cfg[k]]
  /\ stage \in {"bootstrap", "arguments", "user", "project", "environment", "cli", "validate",
                "ready", "usage", "uncaught"}
  /\ stage \in {"user", "project", "environment", "cli", "validate", "ready"} =>
       setup.cli.flag # "both"
  /\ stage \in {"bootstrap", "arguments", "user"} => \A k \in Keys : cfg[k] = Builtin[k]
  /\ stage = "project" => \A k \in Keys : cfg[k] = UserFiled(k)
  /\ stage = "environment" => \A k \in Keys : cfg[k] = Filed(k)
  /\ stage = "cli" => /\ \A k \in Switches : cfg[k] = Filed(k)
                      /\ \A k \in Knobs : cfg[k] = WithVariable(k)
  /\ stage \in {"validate", "ready"} => Decided

\* The built-in values are values of the keys.
LEMMA DefaultKeys == Default = [k \in Keys |-> Default[k]]
BY DEF Default, Keys

\* A layer on top of a configuration leaves a configuration.
LEMMA MergeType ==
  ASSUME NEW base, base = [k \in Keys |-> base[k]], NEW sets, SetsSome(sets, Keys)
  PROVE  /\ Merge(base, sets) = [k \in Keys |-> Merge(base, sets)[k]]
         /\ \A k \in Keys : Merge(base, sets)[k] =
              IF k \in DOMAIN sets THEN Coerce(k, sets[k]) ELSE base[k]
<1> DEFINE upper == [k \in DOMAIN sets |-> Coerce(k, sets[k])]
<1>1. DOMAIN upper = DOMAIN sets /\ \A k \in DOMAIN sets : upper[k] = Coerce(k, sets[k])
  OBVIOUS
<1>2. Merge(base, sets) = Over(upper, base)
  BY DEF Merge
<1> HIDE DEF upper
<1>3. DOMAIN upper \cup DOMAIN base = Keys
  BY <1>1 DEF SetsSome
<1>4. Over(upper, base) = [k \in Keys |-> IF k \in DOMAIN upper THEN upper[k] ELSE base[k]]
  BY <1>3 DEF Over
<1> QED BY <1>1, <1>2, <1>4

\* The built-in values are the first configuration,
LEMMA ConfigInit == Init => ConfigInv
<1> SUFFICES ASSUME Init PROVE ConfigInv
  OBVIOUS
<1>1. IsSetup(setup)
  BY SetupsAssumption DEF Init, IsSetup
<1>2. cfg = [k \in Keys |-> cfg[k]] /\ \A k \in Keys : cfg[k] = Builtin[k]
  BY DefaultKeys DEF Init, Builtin
<1> QED BY <1>1, <1>2 DEF Init, ConfigInv

\* and every step decides what its layer is to decide.
LEMMA ConfigStep == ConfigInv /\ [Next]_vars => ConfigInv'
<1> SUFFICES ASSUME ConfigInv, [Next]_vars PROVE ConfigInv'
  OBVIOUS
<1>0. IsSetup(setup) /\ cfg = [k \in Keys |-> cfg[k]]
  BY DEF ConfigInv
<1>1. CASE Bootstrap
  <2>1. IsSetup(setup')
    <3>1. IsFile(Template)
      BY DefaultKeys DEF IsFile, Template, SetsSome
    <3>2. IsSetup([setup EXCEPT !.user = Template])
      BY <1>0, <3>1 DEF IsSetup
    <3> QED BY <1>0, <1>1, <3>2 DEF Bootstrap
  <2>2. cfg' = cfg /\ stage = "bootstrap" /\ stage' = "arguments"
    BY <1>1 DEF Bootstrap
  <2>3. \A k \in Keys : cfg'[k] = Builtin[k]
    BY <2>2 DEF ConfigInv
  <2> QED BY <1>0, <2>1, <2>2, <2>3 DEF ConfigInv
<1>2. CASE CheckArguments
  BY <1>2 DEF CheckArguments, ConfigInv
<1>3. CASE LoadUser
  <2>1. setup' = setup /\ environ' = environ /\ stage = "user" /\ LoadFile(setup.user, "project")
    BY <1>3 DEF LoadUser
  <2>2. \A k \in Keys : cfg[k] = Builtin[k]
    BY <2>1 DEF ConfigInv
  <2>3. CASE setup.user.kind = "mapping"
    <3>1. cfg' = Merge(cfg, setup.user.sets) /\ stage' = "project" /\ Sets(setup.user) = setup.user.sets
      BY <2>1, <2>3 DEF LoadFile, Sets
    <3>2. SetsSome(setup.user.sets, Keys)
      BY <1>0 DEF IsSetup, IsFile
    <3>3. /\ cfg' = [k \in Keys |-> cfg'[k]]
          /\ \A k \in Keys : cfg'[k] =
               IF k \in DOMAIN setup.user.sets THEN Coerce(k, setup.user.sets[k]) ELSE cfg[k]
      BY <1>0, <3>1, <3>2, MergeType
    <3>4. \A k \in Keys : cfg'[k] = UserFiled(k)
      BY <2>2, <3>1, <3>3 DEF UserFiled
    <3>5. \A k \in Keys : UserFiled(k)' = UserFiled(k)
      BY <2>1 DEF UserFiled
    <3> QED BY <1>0, <2>1, <3>1, <3>3, <3>4, <3>5 DEF ConfigInv
  <2>4. CASE setup.user.kind = "absent"
    <3>1. cfg' = cfg /\ stage' = "project" /\ Sets(setup.user) = <<>>
      BY <2>1, <2>4 DEF LoadFile, Sets
    <3>2. \A k \in Keys : UserFiled(k)' = Builtin[k]
      <4>1. DOMAIN <<>> = {}
        OBVIOUS
      <4> QED BY <2>1, <3>1, <4>1 DEF UserFiled
    <3> QED BY <1>0, <2>1, <2>2, <3>1, <3>2 DEF ConfigInv
  <2>5. CASE setup.user.kind \in {"garbage", "illtyped"}
    BY <1>0, <2>1, <2>5 DEF LoadFile, ConfigInv
  <2> QED BY <1>0, <2>3, <2>4, <2>5 DEF IsSetup, IsFile
<1>4. CASE LoadProject
  <2>1. /\ setup' = setup /\ environ' = environ /\ stage = "project"
        /\ LoadFile(setup.project, "environment")
    BY <1>4 DEF LoadProject
  <2>2. \A k \in Keys : cfg[k] = UserFiled(k)
    BY <2>1 DEF ConfigInv
  <2> DEFINE P == Sets(setup.project)
             U == Sets(setup.user)
  <2>3. \A k \in Keys : Filed(k) = IF k \in DOMAIN P THEN Coerce(k, P[k]) ELSE UserFiled(k)
    <3>1. \A k \in Keys : /\ k \in DOMAIN Files <=> k \in DOMAIN P \/ k \in DOMAIN U
                          /\ k \in DOMAIN P => Files[k] = P[k]
                          /\ k \notin DOMAIN P /\ k \in DOMAIN U => Files[k] = U[k]
      BY DEF Files, Over
    <3> QED BY <3>1 DEF Filed, UserFiled
  <2>4. \A k \in Keys : Filed(k)' = Filed(k)
    BY <2>1 DEF Filed, Files
  <2>5. CASE setup.project.kind = "mapping"
    <3>1. cfg' = Merge(cfg, setup.project.sets) /\ stage' = "environment" /\ P = setup.project.sets
      BY <2>1, <2>5 DEF LoadFile, Sets
    <3>2. SetsSome(setup.project.sets, Keys)
      BY <1>0 DEF IsSetup, IsFile
    <3>3. /\ cfg' = [k \in Keys |-> cfg'[k]]
          /\ \A k \in Keys : cfg'[k] =
               IF k \in DOMAIN setup.project.sets THEN Coerce(k, setup.project.sets[k]) ELSE cfg[k]
      BY <1>0, <3>1, <3>2, MergeType
    <3>4. \A k \in Keys : cfg'[k] = Filed(k)
      BY <2>2, <2>3, <3>1, <3>3
    <3> QED BY <1>0, <2>1, <2>4, <3>1, <3>3, <3>4 DEF ConfigInv
  <2>6. CASE setup.project.kind = "absent"
    <3>1. cfg' = cfg /\ stage' = "environment" /\ P = <<>>
      BY <2>1, <2>6 DEF LoadFile, Sets
    <3>2. \A k \in Keys : Filed(k) = UserFiled(k)
      <4>1. DOMAIN <<>> = {}
        OBVIOUS
      <4> QED BY <2>3, <3>1, <4>1
    <3> QED BY <1>0, <2>1, <2>2, <2>4, <3>1, <3>2 DEF ConfigInv
  <2>7. CASE setup.project.kind \in {"garbage", "illtyped"}
    BY <1>0, <2>1, <2>7 DEF LoadFile, ConfigInv
  <2> QED BY <1>0, <2>5, <2>6, <2>7 DEF IsSetup, IsFile
<1>5. CASE ApplyEnvironment
  <2>1. /\ setup' = setup /\ environ' = environ /\ stage = "environment" /\ stage' = "cli"
        /\ cfg' = FillEmpty(cfg)
    BY <1>5 DEF ApplyEnvironment
  <2>2. \A k \in Keys : cfg[k] = Filed(k)
    BY <2>1 DEF ConfigInv
  <2>3. /\ cfg' = [k \in Keys |-> cfg'[k]]
        /\ \A k \in Switches : cfg'[k] = cfg[k]
        /\ \A k \in Knobs : cfg'[k] = IF cfg[k] = "" THEN Variable(k) ELSE cfg[k]
    BY <1>0, <2>1 DEF FillEmpty, Keys, Switches, Knobs
  <2>4. \A k \in Keys : Filed(k)' = Filed(k) /\ WithVariable(k)' = WithVariable(k)
    BY <2>1 DEF Filed, Files, WithVariable, Variable
  <2>5. Switches \subseteq Keys /\ Knobs \subseteq Keys
    BY DEF Switches, Knobs, Keys
  <2>6. /\ \A k \in Switches : cfg'[k] = Filed(k)'
        /\ \A k \in Knobs : cfg'[k] = WithVariable(k)'
    BY <2>2, <2>3, <2>4, <2>5 DEF WithVariable
  <2> QED BY <1>0, <2>1, <2>3, <2>6 DEF ConfigInv
<1>6. CASE ApplyCli
  <2>1. setup' = setup /\ environ' = environ /\ stage = "cli"
    BY <1>6 DEF ApplyCli
  <2>2. CASE setup.cli.invalid = "format"
    BY <1>0, <1>6, <2>1, <2>2 DEF ApplyCli, ConfigInv
  <2>3. CASE setup.cli.invalid # "format"
    <3> DEFINE flagged == WithFlag(cfg, setup.cli.flag)
               top == setup.cli.sets
               all == Over(top, flagged)
    <3>1. cfg' = DisableWhenOffline(all) /\ stage' = "validate"
      BY <1>6, <2>3 DEF ApplyCli
    <3>2. /\ flagged = [k \in Keys |-> flagged[k]]
          /\ \A k \in Keys \ {"enabled"} : flagged[k] = cfg[k]
          /\ flagged["enabled"] = CASE setup.cli.flag = "off" -> FALSE
                                    [] setup.cli.flag = "on" -> TRUE
                                    [] OTHER -> cfg["enabled"]
      <4>1. setup.cli.flag \in {"unset", "on", "off"}
        BY <1>0, <2>1 DEF ConfigInv, IsSetup
      <4>2. "enabled" \in Keys
        BY DEF Keys
      <4> QED BY <1>0, <4>1, <4>2 DEF WithFlag
    <3>3. SetsSome(top, Keys \ {"enabled"})
      BY <1>0 DEF IsSetup
    <3> HIDE DEF flagged, top
    <3>4. /\ all = [k \in Keys |-> IF k \in DOMAIN top THEN top[k] ELSE flagged[k]]
          /\ "enabled" \notin DOMAIN top
      <4>1. DOMAIN top \cup DOMAIN flagged = Keys /\ "enabled" \notin DOMAIN top
        BY <3>2, <3>3 DEF SetsSome
      <4> QED BY <4>1 DEF Over
    <3> HIDE DEF all
    <3>5. /\ cfg' = [k \in Keys |-> cfg'[k]]
          /\ \A k \in Keys \ {"enabled"} : cfg'[k] = all[k]
          /\ cfg'["enabled"] = IF all["privacy"] = "offline" THEN FALSE ELSE all["enabled"]
      <4>1. "enabled" \in Keys /\ "privacy" \in Keys
        BY DEF Keys
      <4> QED BY <3>1, <3>4, <4>1 DEF DisableWhenOffline
    <3>6. \A k \in Keys : Filed(k)' = Filed(k) /\ WithVariable(k)' = WithVariable(k)
      BY <2>1 DEF Filed, Files, WithVariable, Variable
    <3>7. /\ \A k \in Switches : cfg[k] = Filed(k)
          /\ \A k \in Knobs : cfg[k] = WithVariable(k)
      BY <2>1 DEF ConfigInv
    <3>8. /\ {"max_depth", "privacy"} \subseteq Keys \ {"enabled"}
          /\ Knobs \subseteq Keys \ {"enabled"} /\ "enabled" \in Keys
          /\ {"max_depth", "privacy", "enabled"} \subseteq Switches
      BY DEF Keys, Knobs, Switches
    <3>9. \A k \in {"max_depth", "privacy"} : cfg'[k] = IF k \in DOMAIN top THEN top[k] ELSE Filed(k)'
      BY <3>2, <3>4, <3>5, <3>6, <3>7, <3>8
    <3>10. \A k \in Knobs : cfg'[k] = IF k \in DOMAIN top THEN top[k] ELSE WithVariable(k)'
      BY <3>2, <3>4, <3>5, <3>6, <3>7, <3>8
    <3>11. all["enabled"] = flagged["enabled"] /\ cfg'["privacy"] = all["privacy"]
      BY <3>4, <3>5, <3>8
    <3>12. cfg'["privacy"] = "offline" \/ setup.cli.flag = "off" => ~cfg'["enabled"]
      BY <3>2, <3>5, <3>11
    <3>13. cfg'["enabled"] => setup.cli.flag = "on" \/ Filed("enabled")'
      BY <3>2, <3>5, <3>6, <3>7, <3>8, <3>11
    <3> QED BY <1>0, <2>1, <3>1, <3>5, <3>9, <3>10, <3>12, <3>13 DEF ConfigInv, Decided, top
  <2> QED BY <2>2, <2>3
<1>7. CASE Validate
  BY <1>0, <1>7 DEF Validate, ConfigInv, Decided, Filed, Files, WithVariable, Variable
<1>8. CASE UNCHANGED vars
  BY <1>8 DEF vars, ConfigInv, Decided, Filed, UserFiled, Files, WithVariable, Variable
<1> QED BY <1>1, <1>2, <1>3, <1>4, <1>5, <1>6, <1>7, <1>8 DEF Next

\* The highest layer that sets a key decides it.
THEOREM TheHighestDecides == Spec => []HighestLayerWins
<1>1. ConfigInv => HighestLayerWins
  BY DEF ConfigInv, Decided, HighestLayerWins, Knobs, WithVariable
<1> QED BY <1>1, ConfigInit, ConfigStep, PTL DEF Spec

\* Nothing turns the assistance on in the offline mode or against --no-llm.
THEOREM OffStaysOff == Spec => []OffMeansOff
<1>1. ConfigInv => OffMeansOff
  BY DEF ConfigInv, Decided, OffMeansOff
<1> QED BY <1>1, ConfigInit, ConfigStep, PTL DEF Spec

\* No provider is asked unless the user left the offline mode and wanted the assistance.
THEOREM AssistIsAskedFor == Spec => []AssistIsOptIn
<1>1. ConfigInv => AssistIsOptIn
  <2> SUFFICES ASSUME ConfigInv, stage = "ready", Active
               PROVE  /\ \E layer \in {Files, setup.cli.sets} :
                           "privacy" \in DOMAIN layer /\ layer["privacy"] # "offline"
                      /\ \/ setup.cli.flag = "on"
                         \/ "enabled" \in DOMAIN Files /\ Files["enabled"] \notin {FALSE, Null}
    BY DEF AssistIsOptIn
  <2>1. Decided /\ cfg["privacy"] # "offline" /\ cfg["enabled"]
    BY DEF ConfigInv, Active
  <2>2. Builtin["privacy"] = "offline" /\ Builtin["enabled"] = FALSE
    BY DEF Builtin, Default
  <2>3. \E layer \in {Files, setup.cli.sets} :
          "privacy" \in DOMAIN layer /\ layer["privacy"] # "offline"
    <3>1. CASE "privacy" \in DOMAIN setup.cli.sets
      BY <2>1, <3>1 DEF Decided
    <3>2. CASE "privacy" \notin DOMAIN setup.cli.sets
      <4>1. Filed("privacy") # "offline"
        BY <2>1, <3>2 DEF Decided
      <4>2. "privacy" \in DOMAIN Files /\ Files["privacy"] # "offline"
        BY <2>2, <4>1 DEF Filed, Coerce
      <4> QED BY <4>2
    <3> QED BY <3>1, <3>2
  <2>4. CASE setup.cli.flag # "on"
    <3>1. Filed("enabled")
      BY <2>1, <2>4 DEF Decided
    <3>2. "enabled" \in DOMAIN Files
      BY <2>2, <3>1 DEF Filed
    <3>3. Files["enabled"] \notin {FALSE, Null}
      BY <3>1, <3>2 DEF Filed, Coerce
    <3> QED BY <2>3, <3>2, <3>3
  <2> QED BY <2>3, <2>4
<1> QED BY <1>1, ConfigInit, ConfigStep, PTL DEF Spec
=============================================================================
