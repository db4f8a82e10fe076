------------------------------- MODULE Tenancy -------------------------------
(***************************************************************************)
(* Teams and their members (team.service.ts), the default dashboard of a   *)
(* user (dashboard-config.service.ts) and a user's settings                *)
(* (settings.service.ts).  Each request reads what it needs, decides, and  *)
(* writes by key in a later await; nothing is locked in between, and what  *)
(* holds rests on the unique keys (slug; team and user) and on the reads.  *)
(*                                                                         *)
(* Abstracted: one slug, one user's dashboards of one scope; names,        *)
(* descriptions, layouts.  Settings are a document of sections and of      *)
(* leaves in them: the schema of the route lets nothing else through, and  *)
(* the level that two of the sections have more is merged as a section is. *)
(***************************************************************************)
EXTENDS Naturals, FiniteSets

CONSTANTS
  User,       \* users
  Asker,      \* requests
  Dashboard,  \* dashboards of one user and scope
  Chapter,    \* the sections of the settings document
  Leaf,       \* leaves of a section
  Change      \* the partial documents that requests bring

TeamRole == {"VIEWER", "MEMBER", "ADMIN", "OWNER"}
None == "none"
Grantable == {"ADMIN", "MEMBER", "VIEWER"}  \* what the routes let through
Managers == {"ADMIN", "OWNER"}

\* A document has any of the sections, and a section any of its leaves
ChapterOf == UNION {[K -> 0..1] : K \in SUBSET Leaf}
SettingsJson == UNION {[N -> ChapterOf] : N \in SUBSET Chapter}

ASSUME TenancyAssumption == Change \subseteq SettingsJson

VARIABLES
  role,       \* per user: role in the team, or None
  team,       \* the team of one id: not yet, there, or gone for good
  saved,      \* dashboards that exist
  default,    \* dashboards marked as default
  settings,   \* the document that is stored
  ask,        \* per request: what it does and where it is
  mingled  \* history: subjects two requests were busy with at once

tenancyVars == <<role, team, saved, default, settings, ask, mingled>>

Unasked == [does |-> "nothing", stage |-> "new"]
Dropped == [does |-> "nothing", stage |-> "over"]
Busy(a) == ask[a].stage \in {"allowed", "checked"}

TeamRequest ==
  [does : {"addMember", "removeMember", "updateMemberRole", "deleteTeam", "createTeam"},
   by : User, to : User, role : Grantable, stage : {"allowed", "checked"}]
DashboardRequest ==
  [does : {"create", "update"}, id : Dashboard, isDefault : BOOLEAN, stage : {"allowed", "checked"}]
SettingsRequest ==
  [does : {"updateSettings"}, partial : SettingsJson, copy : SettingsJson, stage : {"checked"}]
Request == {Unasked, Dropped} \union TeamRequest \union DashboardRequest \union SettingsRequest

TenancyTypeOK ==
  /\ role \in [User -> TeamRole \union {None}]
  /\ team \in {"not yet", "there", "gone"}
  /\ saved \subseteq Dashboard /\ default \subseteq saved
  /\ settings \in SettingsJson
  /\ ask \in [Asker -> Request]
  /\ mingled \subseteq {"team", "dashboards", "settings"}

TenancyInit ==
  /\ team = "not yet" /\ role = [u \in User |-> None]
  /\ saved = {} /\ default = {}
  /\ settings = <<>>
  /\ ask = [a \in Asker |-> Unasked]
  /\ mingled = {}

Subject(r) ==
  CASE r.does \in {"create", "update"} -> "dashboards"
    [] r.does = "updateSettings" -> "settings"
    [] OTHER -> "team"

Asks(a, r) ==
  /\ ask[a] = Unasked
  /\ ask' = [ask EXCEPT ![a] = r]
  /\ mingled' =
       IF r # Dropped /\ \E b \in Asker : Busy(b) /\ Subject(ask[b]) = Subject(r)
       THEN mingled \union {Subject(r)} ELSE mingled
Becomes(a, r) == ask' = [ask EXCEPT ![a] = r] /\ UNCHANGED mingled
-----------------------------------------------------------------------------
\* requireTeamRole(ADMIN), the first await of every change of members
requireTeamRole(a, what, by, to, granted) ==
  /\ Asks(a, IF role[by] \in Managers
             THEN [does |-> what, by |-> by, to |-> to, role |-> granted, stage |-> "allowed"]
             ELSE Dropped)
  /\ UNCHANGED <<role, team, saved, default, settings>>

\* The second read: a new member is none yet, the owner is left alone
CheckMember(a) ==
  /\ ask[a].stage = "allowed"
  /\ ask[a].does \in {"addMember", "removeMember", "updateMemberRole"}
  /\ LET now == role[ask[a].to]
         fine == IF ask[a].does = "addMember" THEN now = None ELSE now \notin {None, "OWNER"}
     IN Becomes(a, IF fine THEN [ask[a] EXCEPT !.stage = "checked"] ELSE Dropped)
  /\ UNCHANGED <<role, team, saved, default, settings>>

\* The write, by team and user: an insert of a member who is there, or into a
\* team that is gone, throws, and so does a write to one who has left
WriteMember(a) ==
  /\ ask[a].stage = "checked"
  /\ LET r == ask[a]
     IN \/ /\ r.does = "addMember"
           /\ role' = IF team = "there" /\ role[r.to] = None THEN [role EXCEPT ![r.to] = r.role] ELSE role
        \/ /\ r.does = "removeMember"
           /\ role' = [role EXCEPT ![r.to] = None]
        \/ /\ r.does = "updateMemberRole"
           /\ role' = IF role[r.to] = None THEN role ELSE [role EXCEPT ![r.to] = r.role]
  /\ Becomes(a, Dropped)
  /\ UNCHANGED <<team, saved, default, settings>>

\* (a team that is made after this one is gone has another id)
FindSlug(a, by) ==
  /\ Asks(a, IF team # "not yet" THEN Dropped
             ELSE [does |-> "createTeam", by |-> by, to |-> by, role |-> "ADMIN", stage |-> "checked"])
  /\ UNCHANGED <<role, team, saved, default, settings>>

\* Mutant: the member is inserted although the team was there
CreateTwice(a) ==
  /\ ask[a].does = "createTeam"
  /\ team' = "there"
  /\ role' = [role EXCEPT ![ask[a].by] = "OWNER"]
  /\ Becomes(a, Dropped)
  /\ UNCHANGED <<saved, default, settings>>

\* One transaction inserts the team and its owner; the slug is unique
createTeam(a) ==
  /\ ask[a].does = "createTeam"
  /\ IF team # "not yet" THEN UNCHANGED <<team, role>>
     ELSE team' = "there" /\ role' = [role EXCEPT ![ask[a].by] = "OWNER"]
  /\ Becomes(a, Dropped)
  /\ UNCHANGED <<saved, default, settings>>

\* Its owner, or a global administrator without a look at the members
AskDeleteTeam(a, by, isGlobalAdmin) ==
  /\ Asks(a, IF isGlobalAdmin \/ role[by] = "OWNER"
             THEN [does |-> "deleteTeam", by |-> by, to |-> by, role |-> "ADMIN", stage |-> "checked"]
             ELSE Dropped)
  /\ UNCHANGED <<role, team, saved, default, settings>>

\* The members go by cascade
deleteTeam(a) ==
  /\ ask[a].does = "deleteTeam"
  /\ team' = IF team = "there" THEN "gone" ELSE team
  /\ role' = [u \in User |-> None]
  /\ Becomes(a, Dropped)
  /\ UNCHANGED <<saved, default, settings>>
-----------------------------------------------------------------------------
\* An update looks for its dashboard, a create has nothing to look for
AskDashboard(a, what, d, isDefault) ==
  /\ what = "create" <=> d \notin saved
  /\ \A b \in Asker : ask[b].does = "create" => ask[b].id # d
  /\ Asks(a, [does |-> what, id |-> d, isDefault |-> isDefault, stage |-> "allowed"])
  /\ UNCHANGED <<role, team, saved, default, settings>>

\* updateMany, when this one is to be the default
UnsetDefault(a) ==
  /\ ask[a].does \in {"create", "update"} /\ ask[a].stage = "allowed"
  /\ default' = IF ask[a].isDefault THEN default \intersect {ask[a].id} ELSE default
  /\ Becomes(a, [ask[a] EXCEPT !.stage = "checked"])
  /\ UNCHANGED <<role, team, saved, settings>>

\* An update of a dashboard that was removed meanwhile throws
WriteDashboard(a) ==
  /\ ask[a].does \in {"create", "update"} /\ ask[a].stage = "checked"
  /\ LET r == ask[a]
     IN IF r.does = "update" /\ r.id \notin saved
        THEN UNCHANGED <<saved, default>>
        ELSE /\ saved' = saved \union {r.id}
             /\ default' = IF r.isDefault THEN default \union {r.id} ELSE default \ {r.id}
  /\ Becomes(a, Dropped)
  /\ UNCHANGED <<role, team, settings>>

\* Read and deleted; nothing that happens in between matters to it
removeDashboard(a, d) ==
  /\ d \in saved
  /\ Asks(a, Dropped)
  /\ saved' = saved \ {d} /\ default' = default \ {d}
  /\ UNCHANGED <<role, team, settings>>
-----------------------------------------------------------------------------
\* The stored document, {} at first, is read as a whole ...
ReadSettings(a, partial) ==
  /\ Asks(a, [does |-> "updateSettings", partial |-> partial, copy |-> settings, stage |-> "checked"])
  /\ UNCHANGED <<role, team, saved, default, settings>>

Overlaid(old, new) ==
  [k \in DOMAIN old \union DOMAIN new |-> IF k \in DOMAIN new THEN new[k] ELSE old[k]]

\* A section that both have is merged, leaf by leaf
deepMerge(target, source) ==
  [n \in DOMAIN target \union DOMAIN source |->
     IF n \notin DOMAIN source THEN target[n]
     ELSE IF n \in DOMAIN target THEN Overlaid(target[n], source[n]) ELSE source[n]]

\* Mutant: the sections that are named replace those that are there
MergeSections(a) ==
  /\ ask[a].does = "updateSettings"
  /\ settings' = Overlaid(ask[a].copy, ask[a].partial)
  /\ Becomes(a, Dropped)
  /\ UNCHANGED <<role, team, saved, default>>

\* ... merged with what the request brought, and written as a whole
updateSettings(a) ==
  /\ ask[a].does = "updateSettings"
  /\ settings' = deepMerge(ask[a].copy, ask[a].partial)
  /\ Becomes(a, Dropped)
  /\ UNCHANGED <<role, team, saved, default>>

\* A request fails or its process stops before its write
GiveUp(a) ==
  /\ Busy(a)
  /\ Becomes(a, Dropped)
  /\ UNCHANGED <<role, team, saved, default, settings>>

TeamStep(a) ==
  \/ \E by, to \in User, granted \in Grantable :
       \E what \in {"addMember", "removeMember", "updateMemberRole"} :
         requireTeamRole(a, what, by, to, granted)
  \/ CheckMember(a) \/ WriteMember(a) \/ createTeam(a) \/ deleteTeam(a)
  \/ \E by \in User : FindSlug(a, by) \/ \E isGlobalAdmin \in BOOLEAN : AskDeleteTeam(a, by, isGlobalAdmin)

DashboardStep(a) ==
  \/ \E d \in Dashboard, isDefault \in BOOLEAN, what \in {"create", "update"} :
       AskDashboard(a, what, d, isDefault)
  \/ UnsetDefault(a) \/ WriteDashboard(a) \/ \E d \in Dashboard : removeDashboard(a, d)

SettingsStep(a) == updateSettings(a) \/ \E partial \in Change : ReadSettings(a, partial)

TenancyNext == \E a \in Asker : TeamStep(a) \/ DashboardStep(a) \/ SettingsStep(a) \/ GiveUp(a)

TenancySpec == TenancyInit /\ [][TenancyNext]_tenancyVars
-----------------------------------------------------------------------------
\* A team has exactly one owner as long as it exists, whatever overlaps; a team
\* that is gone has no members.
OneOwner == Cardinality({u \in User : role[u] = "OWNER"}) =
  IF team = "there" THEN 1 ELSE 0
Members == team = "there" \/ \A u \in User : role[u] = None

\* There is at most one default dashboard, unless two changes overlapped.
OneDefault == "dashboards" \notin mingled => Cardinality(default) <= 1

TenancyInv == TenancyTypeOK /\ OneOwner /\ Members /\ OneDefault

DEFAULT_SETTINGS == [n \in Chapter |-> [k \in Leaf |-> 0]]

\* What a user is shown of a stored document
getSettings(stored) == deepMerge(DEFAULT_SETTINGS, stored)

Mentions(partial, n, k) == n \in DOMAIN partial /\ k \in DOMAIN partial[n]

\* A change of settings shows the user what it asked for where it names a leaf, and what
\* its request had read everywhere else: that is what was stored, unless two overlapped.
OtherSettingsStand ==
  [][settings' # settings =>
       \E a \in Asker :
         /\ ask[a].does = "updateSettings" /\ ask'[a] = Dropped
         /\ "settings" \notin mingled => ask[a].copy = settings
         /\ \A n \in Chapter, k \in Leaf :
              getSettings(settings')[n][k] = IF Mentions(ask[a].partial, n, k) THEN ask[a].partial[n][k]
                                       ELSE getSettings(ask[a].copy)[n][k]]_tenancyVars
=============================================================================
