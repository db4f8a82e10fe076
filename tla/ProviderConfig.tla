--------------------------- MODULE ProviderConfig ---------------------------
(***************************************************************************)
(* Which AI provider answers, and with whose key: the stored configuration *)
(* (provider-config.service.ts), its hot swap into the running process,    *)
(* the one a user may have for the copilot (user-provider-config.service), *)
(* the registry's cache of provider objects (providers/registry.ts) and    *)
(* the connection test that goes through it.                               *)
(*                                                                         *)
(* A key is known by the provider it was given for.  Abstracted: models    *)
(* (one per provider, which is what the cache's key then says), extra      *)
(* settings, encryption.  What the environment and the file say beyond     *)
(* provider and key is AiSettings; of it matters here whether AI is        *)
(* enabled and what is wrong.                                              *)
(***************************************************************************)
EXTENDS Naturals

CONSTANTS
  Admin,        \* requests to change or to test the configuration
  AIProvider,   \* providers that need a key
  Environment,  \* what the process may be started with
  RestartBound  \* bound: restarts of the process

\* The key given for a provider by the administrator, the user, or the environment
AIKey == [for : AIProvider, by : Admin \union {"environment", "user"}]
NoKey == [for |-> "nobody", by |-> "nobody"]
AnyKey == AIKey \union {NoKey}
AnyProvider == AIProvider \union {"mock"}

\* A provider object, or the choice of a provider
Using(p, k) == [provider |-> p, key |-> k]
Unused == Using("mock", NoKey)
Choice == [provider : AnyProvider, key : AnyKey]
NoObject == Using("none", NoKey)

\* The constructors of all providers but the mock demand a key
Usable(choice) == choice.provider = "mock" \/ choice.key # NoKey

\* A key of the environment is that of its provider.  Settings may be invalid, or lack
\* the features, which shows late: when the provider has been built.
ASSUME ProviderAssumption ==
  /\ RestartBound \in Nat
  /\ "none" \notin AnyProvider
  /\ Environment \subseteq
       [enabled : BOOLEAN, flaw : {"none", "invalid", "late"},
        choice : {Unused} \union
          {Using(p, k) :
             p \in AIProvider, k \in {NoKey} \union [for : AIProvider, by : {"environment"}]}]
  /\ \A e \in Environment : e.choice.key = NoKey \/ e.choice.key.for = e.choice.provider

VARIABLES
  row,        \* AIProviderConfig: stored or not, and its choice
  userRow,    \* UserAIConfig of one user
  environment,\* what the process is started with; never changes
  active,     \* the config manager: provider
  secrets,    \* ... and a key per provider
  enabled,    \* ... whether AI is on
  initialized,\* AIManager.initialized
  manager,    \* AIManager.provider, null at first
  features,   \* the provider of categorization, summaries, matching, enrichment
  instances,  \* the registry's cache: per provider its object, if any
  update,     \* per administrator: what is asked and where it is
  outcomes,   \* history: per administrator whose key a test was made with
  keyless,    \* history: a provider was changed without a key
  astray,     \* history: the last stored configuration overlapped another, or the last
              \* restart did not apply it
  keyAstray,  \* history: so it was when the stored key was last given, or it is that of a
              \* provider chosen before
  restarts

stored == <<row, userRow, environment>>
process == <<active, secrets, enabled, initialized, manager, features, instances>>
providerVars == <<stored, process, update, outcomes, keyless, astray, keyAstray, restarts>>

NoUpdate == [at |-> "idle", asks |-> Unused]
Object(k) == [cached |-> TRUE, key |-> k]
Empty == [p \in AnyProvider |-> [cached |-> FALSE, key |-> NoKey]]
Row == [stored : BOOLEAN, choice : Choice]
EmptyRow == [stored |-> FALSE, choice |-> Unused]

ProviderTypeOK ==
  /\ row \in Row /\ userRow \in Row /\ environment \in Environment
  /\ active \in AnyProvider /\ secrets \in [AnyProvider -> AnyKey]
  /\ enabled \in BOOLEAN /\ initialized \in BOOLEAN
  /\ manager \in Choice \union {NoObject} /\ features \in Choice \union {NoObject}
  /\ instances \in [AnyProvider -> [cached : BOOLEAN, key : AnyKey]]
  /\ update \in [Admin -> [at : {"idle", "checked", "saved", "testing", "done"}, asks : Choice]]
  /\ outcomes \in [Admin -> AnyKey]
  /\ keyless \in BOOLEAN /\ astray \in BOOLEAN /\ keyAstray \in BOOLEAN
  /\ restarts \in 0..RestartBound

EnvironmentSecrets ==
  [p \in AnyProvider |->
     IF p = environment.choice.provider THEN environment.choice.key ELSE NoKey]

\* The cache with one object, if it can be made
Cached(choice) ==
  IF Usable(choice) THEN [Empty EXCEPT ![choice.provider] = Object(choice.key)] ELSE Empty

\* initialize: nothing to do, or an exception, or everything is built
Builds == environment.enabled /\ environment.flaw # "invalid" /\ Usable(environment.choice)
Initializes == environment.enabled => Builds /\ environment.flaw = "none"
Built == IF Builds THEN environment.choice ELSE NoObject

ProviderInit ==
  /\ environment \in Environment
  /\ row = EmptyRow /\ userRow = EmptyRow
  /\ active = environment.choice.provider /\ secrets = EnvironmentSecrets
  /\ enabled = environment.enabled /\ initialized = Initializes
  /\ manager = Built /\ features = Built
  /\ instances = IF Builds THEN Cached(environment.choice) ELSE Empty
  /\ update = [a \in Admin |-> NoUpdate]
  /\ outcomes = [a \in Admin |-> NoKey]
  /\ keyless = FALSE /\ astray = FALSE /\ keyAstray = FALSE /\ restarts = 0

Asked(a) == update[a].asks
Stage(a, to) == update' = [update EXCEPT ![a].at = to]
-----------------------------------------------------------------------------
HasKey ==
  IF row.stored THEN row.choice.provider = "mock" \/ row.choice.key # NoKey
  ELSE active = "mock" \/ secrets[active] # NoKey

\* PUT /config: a key is required, unless there is one already, whoever it is for
RequestUpdate(a) ==
  /\ update[a] = NoUpdate
  /\ \E p \in AnyProvider, given \in BOOLEAN :
       LET asks == Using(p, IF given /\ p # "mock" THEN [for |-> p, by |-> a] ELSE NoKey) IN
       /\ (asks.provider # "mock" /\ asks.key = NoKey) => HasKey
       /\ update' = [update EXCEPT ![a] = [at |-> "checked", asks |-> asks]]
  /\ UNCHANGED <<stored, process, outcomes, astray, keyAstray, keyless, restarts>>

\* What a row becomes: it keeps its key when the request brings none
Kept(old, asks) ==
  [stored |-> TRUE,
   choice |-> Using(asks.provider, IF asks.key = NoKey THEN old.choice.key ELSE asks.key)]

Rekeyed(old, asks) ==
  asks.key = NoKey /\ old.choice.key # NoKey /\ old.choice.key.for # asks.provider

\* The upsert
SaveUpdate(a) ==
  /\ update[a].at = "checked"
  /\ row' = Kept(row, Asked(a))
  /\ keyless' = (keyless \/ Rekeyed(row, Asked(a)))
  /\ astray' = \E b \in Admin : update[b].at = "saved"
  /\ keyAstray' = (astray' \/ (Asked(a).key = NoKey
                                 /\ (keyAstray \/ Asked(a).provider # row.choice.provider)))
  /\ Stage(a, "saved")
  /\ UNCHANGED <<userRow, environment, process, outcomes, restarts>>

\* The config manager is changed and enabled, the cache cleared, and an object made from
\* it; if that throws, for want of a key, nobody is told and the manager keeps what it
\* has.  The features keep the object they were built with.
applyProviderConfig(p, k) ==
  /\ active' = p /\ enabled' = TRUE
  /\ secrets' = [secrets EXCEPT ![p] = IF k = NoKey THEN @ ELSE k]
  /\ LET configured == Using(p, secrets'[p]) IN
       /\ instances' = Cached(configured)
       /\ manager' = IF Usable(configured) THEN configured ELSE manager
  /\ UNCHANGED <<features, initialized>>

\* The provider comes from the row, the key from the request
ApplyUpdate(a) ==
  /\ update[a].at = "saved"
  /\ applyProviderConfig(Asked(a).provider, Asked(a).key)
  /\ Stage(a, "done")
  /\ UNCHANGED <<stored, outcomes, astray, keyAstray, keyless, restarts>>

\* The object of the cache is taken if there is one, with whatever key it has
BeginTest(a) ==
  /\ update[a] = NoUpdate
  /\ \E p \in AIProvider :
       LET mine == [for |-> p, by |-> a] IN
       /\ instances' = [instances EXCEPT ![p] = IF @.cached THEN @ ELSE Object(mine)]
       /\ outcomes' = [outcomes EXCEPT ![a] = instances'[p].key]
       /\ update' = [update EXCEPT ![a] = [at |-> "testing", asks |-> Using(p, mine)]]
  /\ UNCHANGED <<stored, active, secrets, enabled, initialized, manager, features>>
  /\ UNCHANGED <<keyless, astray, keyAstray, restarts>>

EndTest(a) ==
  /\ update[a].at = "testing"
  /\ instances' = Empty
  /\ Stage(a, "done")
  /\ UNCHANGED <<stored, active, secrets, enabled, initialized, manager, features>>
  /\ UNCHANGED <<outcomes, astray, keyAstray, keyless, restarts>>

UserKey(p) == [for |-> p, by |-> "user"]

\* PUT /my-config: without a key only if the user's own row has one
updateUserProviderConfig ==
  /\ \E p \in AnyProvider, k \in {NoKey} \union {UserKey(q) : q \in AIProvider} :
       /\ k # NoKey => k.for = p
       /\ (p # "mock" /\ k = NoKey) =>
            userRow.stored /\ (userRow.choice.provider = "mock" \/ userRow.choice.key # NoKey)
       /\ userRow' = Kept(userRow, Using(p, k))
       /\ keyless' = (keyless \/ Rekeyed(userRow, Using(p, k)))
  /\ UNCHANGED <<row, environment, process, update, outcomes, astray, keyAstray, restarts>>

deleteUserProviderConfig ==
  /\ userRow' = EmptyRow
  /\ UNCHANGED <<row, environment, process, update, outcomes, astray, keyAstray, keyless>>
  /\ UNCHANGED restarts

\* The manager and its features are built from the environment; if that did not throw
\* the row is read and applied, unless it is the demo mode's
Restart ==
  /\ restarts < RestartBound
  /\ restarts' = restarts + 1
  /\ update' = [a \in Admin |->
       IF update[a] = NoUpdate THEN NoUpdate ELSE [update[a] EXCEPT !.at = "done"]]
  /\ features' = Built /\ initialized' = Initializes
  /\ \E found \in BOOLEAN :
       LET fromRow == Initializes /\ found /\ row.stored /\ row.choice.provider # "mock"
           choice == IF fromRow THEN row.choice ELSE environment.choice
       IN /\ astray' = (row.stored /\ ~fromRow) /\ keyAstray' = astray'
          /\ active' = choice.provider
          /\ enabled' = (environment.enabled \/ fromRow)
          /\ secrets' = IF fromRow /\ choice.key # NoKey
                        THEN [EnvironmentSecrets EXCEPT ![choice.provider] = choice.key]
                        ELSE EnvironmentSecrets
          /\ LET configured == Using(choice.provider, secrets'[choice.provider])
                 new == Builds \/ fromRow
             IN /\ instances' = IF new THEN Cached(configured) ELSE Empty
                /\ manager' = IF new /\ Usable(configured) THEN configured ELSE Built
  /\ UNCHANGED <<stored, outcomes, keyless>>

ProviderNext ==
  \/ \E a \in Admin :
       RequestUpdate(a) \/ SaveUpdate(a) \/ ApplyUpdate(a) \/ BeginTest(a) \/ EndTest(a)
  \/ updateUserProviderConfig \/ deleteUserProviderConfig
  \/ Restart

ProviderSpec == ProviderInit /\ [][ProviderNext]_providerVars

\* createProviderForUser: the user's own choice if there is one and an object can be made
\* of it, else the active one
ChatsWith == IF userRow.stored /\ Usable(userRow.choice) THEN userRow.choice ELSE manager
-----------------------------------------------------------------------------
\* However updates, tests and restarts overlap, the manager's object is the one the
\* configuration of the process describes, if an object can be made of that; there is none
\* only while chats are refused.
ManagerIsCurrent ==
  LET configured == Using(active, secrets[active]) IN
  Usable(configured) =>
    manager = configured \/ (manager = NoObject /\ ~(initialized /\ enabled))

Misplaced(choice) == choice.key # NoKey /\ choice.key.for # choice.provider

\* No provider is called with a key that was given for another, unless a provider
\* was once changed without a key.
KeysStayHome ==
  ~keyless => \A choice \in {manager, features, ChatsWith} : ~Misplaced(choice)

\* When no update is under way, the stored provider is in force, and its stored key, from
\* the next change on that overlaps no other; and again from the next restart on that reads
\* the row.  It is not after a restart that found demo mode stored, could not read the
\* row, or failed to initialize and did not try; and a change that brings no key does not
\* undo what became of the keys before it.
RowIsInForce ==
  (row.stored /\ \A a \in Admin : update[a].at # "saved") =>
    /\ ~astray => active = row.choice.provider
    /\ (~astray /\ ~keyAstray /\ row.choice.key # NoKey) => secrets[active] = row.choice.key

ProviderInv == ProviderTypeOK /\ ManagerIsCurrent /\ KeysStayHome /\ RowIsInForce
=============================================================================
