------------------------------ MODULE AiSettings ------------------------------
(***************************************************************************)
(* Where the settings of the AI services come from (ai/config.ts:          *)
(* defaults, a YAML file, the environment, and since the process runs the  *)
(* stored choice of a provider), what is checked of them, and what the     *)
(* start of the process builds on them (manager.ts, initialize; server.ts).*)
(*                                                                         *)
(* A value is known by who gave it and by how much it is: nothing (zero,   *)
(* no, an empty or unknown name, a percentage out of range), little, much, *)
(* or not a number.  Abstracted: which key is used where, which is         *)
(* ProviderConfig; here a key is there or is not.                          *)
(***************************************************************************)
EXTENDS Naturals

CONSTANTS
  Files,       \* what config/ai.yml may be
  Environs,    \* what the variables of the environment may give
  StartBound   \* bound: restarts and updates

Amount == {"nothing", "little", "much", "NaN"}

FieldsOf ==
  [enabled |-> {"enabled"}, provider |-> {"provider"}, model |-> {"model"},
   features |-> {"rcaMatching", "categorization", "logSummary", "nlQueries", "ticketGeneration"},
   providerSettings |-> {"maxTokens", "temperature", "timeoutMs"},
   contextWindow |-> {"sizeOverride", "maxToolResultTokens", "maxTotalToolResultTokens"},
   localModel |-> {"localEnabled", "localProvider", "localModel", "baseUrl"},
   vectorDB |-> {"url", "apiKey"},
   cost |-> {"monthlyBudgetUSD", "alertThresholdPercent", "alertEmail"},
   cache |-> {"cacheEnabled", "ttlSeconds"},
   rateLimit |-> {"perMinute", "perDay"}]
Section == DOMAIN FieldsOf
Field == UNION {FieldsOf[s] : s \in Section}
Scalar == {"enabled", "provider", "model"}
Service == {"rcaMatching", "categorization", "logSummary"}  \* the features that are built

\* A file that cannot be read as a map is as none, and a section that is in one says something
ASSUME SettingsAssumption ==
  /\ StartBound \in Nat
  /\ \A given \in {from.says : from \in Files} \union Environs :
       DOMAIN given \subseteq Field /\ \A f \in DOMAIN given : given[f] \in Amount
  /\ \A from \in Files : from.parsed \in BOOLEAN

Given(who, amount) == [by |-> who, is |-> amount]
Undefined == Given("nobody", "NaN")
Says(who, given, f) == IF f \in DOMAIN given THEN Given(who, given[f]) ELSE Undefined

VARIABLES
  file, environ, \* of this start
  hasKey,       \* whether the environment has what the constructor of its provider demands
  config,       \* the config manager's: the sections that are there, the fields' values
  startup,      \* "starting", "started", "serving"
  ready,        \* AIManager.initialized
  hasProvider,  \* whether AIManager.provider is there
  served,       \* the features that are served
  vectorLost,   \* the vector database failed at the start
  storedChoice, \* the stored choice: "none", or one with all its provider demands
                \* ("complete") or not ("lacking")
  starts

builds == <<ready, hasProvider, served, vectorLost>>
settingsVars == <<file, environ, hasKey, config, startup, builds, storedChoice, starts>>
-----------------------------------------------------------------------------
\* DEFAULT_CONFIG, and what loadFromEnv puts where it names a section and no value is given
DefaultOf(f) ==
  IF f \in FieldsOf.contextWindow \union {"baseUrl", "apiKey", "alertEmail"} THEN Undefined
  ELSE Given("default", CASE f \in {"enabled", "nlQueries"} -> "nothing"
                          [] f = "perMinute" -> "little"
                          [] OTHER -> "much")
DefaultSections == Section \ {"contextWindow", "localModel"}
Default(f) == IF f \in FieldsOf.localModel THEN Undefined ELSE DefaultOf(f)

\* parseYamlConfig: a section that the file leaves out is undefined, and so is a field
FileNames(from, s) == s \in Scalar \/ \E f \in FieldsOf[s] : f \in DOMAIN from.says

\* loadFromEnv: a section is made of all its fields as soon as one is given; the local
\* model by its switch alone
EnvironmentNames(env, s) ==
  IF s = "localModel" THEN "localEnabled" \in DOMAIN env /\ env["localEnabled"] = "much"
  ELSE \E f \in FieldsOf[s] : f \in DOMAIN env

\* Mutant: what is off counts as not given
FromEnvironmentIfOn(env, f) ==
  IF f \in DOMAIN env /\ env[f] # "nothing" THEN Given("environment", env[f]) ELSE DefaultOf(f)
FromEnvironment(env, f) == IF f \in DOMAIN env THEN Given("environment", env[f]) ELSE DefaultOf(f)

\* Sections replace sections: the environment's, else the file's if it was read, else the
\* defaults
loadConfig(from, env) ==
  [sections |-> {s \in Section :
     \/ EnvironmentNames(env, s)
     \/ IF from.parsed THEN FileNames(from, s) ELSE s \in DefaultSections},
   value |-> [f \in Field |->
     IF \E s \in Section : f \in FieldsOf[s] /\ EnvironmentNames(env, s)
     THEN FromEnvironment(env, f)
     ELSE IF from.parsed THEN Says("file", from.says, f) ELSE Default(f)]]

\* What is undefined is not there, and what is not a number is no less than zero
IsTrue(c, f) == c.value[f] # Undefined /\ c.value[f].is # "nothing"
IsOut(c, f) == c.value[f].is = "nothing"

\* validate: the sections it reads unasked, and what it complains of
Needed == {"cost", "rateLimit"}
Complains(c) ==
  \/ ~IsTrue(c, "provider") \/ ~IsTrue(c, "model")
  \/ \E f \in {"monthlyBudgetUSD", "alertThresholdPercent", "perMinute", "perDay"} : IsOut(c, f)
  \/ c.value["perMinute"].is = "much" /\ c.value["perDay"].is = "little"
  \/ \E f \in FieldsOf.contextWindow : IsOut(c, f)
  \/ IsTrue(c, "localEnabled") /\ ~(IsTrue(c, "localModel") /\ IsTrue(c, "localProvider"))

isFeatureEnabled(c, f) == IsTrue(c, "enabled") /\ IsTrue(c, f)
-----------------------------------------------------------------------------
SettingsTypeOK ==
  /\ file \in Files /\ environ \in Environs /\ hasKey \in BOOLEAN
  /\ config.sections \subseteq Section
  /\ config.value \in
       [Field -> [by : {"default", "file", "environment", "row", "nobody"}, is : Amount]]
  /\ startup \in {"starting", "started", "serving"}
  /\ ready \in BOOLEAN /\ hasProvider \in BOOLEAN /\ vectorLost \in BOOLEAN
  /\ served \subseteq Service
  /\ storedChoice \in {"none", "complete", "lacking"} /\ starts \in 0..StartBound

Launched ==
  /\ file \in Files /\ environ \in Environs /\ hasKey \in BOOLEAN
  /\ config = loadConfig(file, environ)
  /\ startup = "starting" /\ ready = FALSE /\ hasProvider = FALSE /\ served = {}
  /\ vectorLost = FALSE

SettingsInit == Launched /\ storedChoice = "none" /\ starts = 0

\* initialize finds AI disabled
StartDisabled ==
  /\ startup = "starting" /\ ~IsTrue(config, "enabled")
  /\ ready' = TRUE /\ startup' = "started"
  /\ UNCHANGED <<file, environ, hasKey, config, hasProvider, served, vectorLost, storedChoice>>
  /\ UNCHANGED starts

\* It throws: the settings are invalid or lack what is read, there is no key, or, when
\* the provider has been built, the features are not there.  The stored choice is not
\* looked at.
StartFails ==
  /\ startup = "starting" /\ IsTrue(config, "enabled")
  /\ LET built == Needed \subseteq config.sections /\ ~Complains(config) /\ hasKey IN
       /\ built => "features" \notin config.sections
       /\ hasProvider' = built
  /\ startup' = "serving"
  /\ UNCHANGED <<file, environ, hasKey, config, ready, served, vectorLost, storedChoice, starts>>

\* Matching needs the vector database, whose address must be there and answer
StartBuilds ==
  /\ startup = "starting" /\ IsTrue(config, "enabled")
  /\ Needed \union {"features"} \subseteq config.sections /\ ~Complains(config) /\ hasKey
  /\ ready' = TRUE /\ hasProvider' = TRUE /\ startup' = "started"
  /\ \E answers \in BOOLEAN :
       vectorLost' = (isFeatureEnabled(config, "rcaMatching")
                        /\ ~(answers /\ config.value["url"] # Undefined))
  /\ served' = {f \in Service : isFeatureEnabled(config, f)
                                 /\ ~(f = "rcaMatching" /\ vectorLost')}
  /\ UNCHANGED <<file, environ, hasKey, config, storedChoice, starts>>

\* applyRuntimeOverride with what applyProviderConfig makes of the stored choice, and its
\* object, for which the environment may have what the choice lacks
Overridden(c) ==
  [c EXCEPT !.value = [f \in Field |-> IF f \in Scalar THEN Given("row", "much") ELSE c.value[f]]]
ApplyChoice(key) ==
  /\ config' = Overridden(config)
  /\ hasProvider' \in (IF key = "complete" THEN {TRUE} ELSE {hasProvider, TRUE})
  /\ UNCHANGED <<ready, served, vectorLost>>

\* loadProviderConfigFromDB: there is none, or it cannot be read; or it is applied
LoadRow ==
  /\ startup = "started" /\ startup' = "serving"
  /\ \/ UNCHANGED <<config, builds>>
     \/ storedChoice # "none" /\ ApplyChoice(storedChoice)
  /\ UNCHANGED <<file, environ, hasKey, storedChoice, starts>>

\* PUT /config
UpdateRow ==
  /\ startup = "serving" /\ starts < StartBound /\ starts' = starts + 1
  /\ storedChoice' \in {"complete", "lacking"}
  /\ ApplyChoice(storedChoice')
  /\ UNCHANGED <<file, environ, hasKey, startup>>

Relaunch ==
  /\ starts < StartBound /\ starts' = starts + 1
  /\ file' \in Files /\ environ' \in Environs /\ hasKey' \in BOOLEAN
  /\ config' = loadConfig(file', environ')
  /\ startup' = "starting" /\ ready' = FALSE /\ hasProvider' = FALSE /\ served' = {}
  /\ vectorLost' = FALSE
  /\ UNCHANGED storedChoice

SettingsNext == StartDisabled \/ StartFails \/ StartBuilds \/ LoadRow \/ UpdateRow \/ Relaunch
SettingsSpec == SettingsInit /\ [][SettingsNext]_settingsVars
-----------------------------------------------------------------------------
\* What the documents say of a setting (specs/AI_TOOLS.md:396): the environment's value
\* wins, then the file's, then the default.
Documented(f) ==
  IF f \in DOMAIN environ THEN Given("environment", environ[f])
  ELSE IF file.parsed /\ f \in DOMAIN file.says THEN Given("file", file.says[f])
  ELSE Default(f)

\* The settings are the documented ones, save where another variable of the environment
\* replaced the section, where the file left the default out, and where the local model's
\* switch is off; nothing else is ever lost, and only a stored choice changes them later.
LayersHold ==
  \A s \in Section : \A f \in FieldsOf[s] :
    \/ config.value[f] = Documented(f)
    \/ s \in Scalar /\ config.value[f].by = "row"
    \/ (\E g \in FieldsOf[s] \ {f} : g \in DOMAIN environ) /\ config.value[f] = DefaultOf(f)
    \/ file.parsed /\ f \notin DOMAIN file.says /\ config.value[f] = Undefined
    \/ /\ s = "localModel" /\ ~EnvironmentNames(environ, s)
       /\ config.value[f] = IF file.parsed THEN Says("file", file.says, f) ELSE Undefined

\* What a service runs on has been checked, whatever was stored since: the budget is
\* positive and no limit is zero or above the other, unless it is not a number.
ServicesAreChecked ==
  served # {} =>
    /\ config.value["monthlyBudgetUSD"].is # "nothing" /\ config.value["perMinute"].is # "nothing"
    /\ ~(config.value["perMinute"].is = "much" /\ config.value["perDay"].is = "little")
    /\ config.value["provider"].is # "nothing" /\ config.value["model"].is # "nothing"

Loaded == loadConfig(file, environ)

\* A feature that is on is served, unless it was started disabled and enabled since, the
\* start failed, or it needs the vector database, which did; and a start fails only for
\* settings that are invalid or missing or for want of a key.
FeaturesAreServed ==
  startup = "serving" =>
    /\ \A f \in Service : isFeatureEnabled(config, f) =>
         \/ ready /\ f \in served
         \/ ~IsTrue(Loaded, "enabled")
         \/ ~ready
         \/ f = "rcaMatching" /\ vectorLost
    /\ ~ready =>
         \/ ~(Needed \union {"features"} \subseteq Loaded.sections)
         \/ Complains(Loaded) \/ ~hasKey

\* A chat that is let in has a provider to answer it, unless one without a key was stored
\* after a start that found AI disabled.
ChatsHaveProvider ==
  (startup = "serving" /\ ready /\ IsTrue(config, "enabled")) =>
    hasProvider \/ (storedChoice = "lacking" /\ ~IsTrue(Loaded, "enabled"))

SettingsInv ==
  SettingsTypeOK /\ LayersHold /\ ServicesAreChecked /\ FeaturesAreServed /\ ChatsHaveProvider
=============================================================================
