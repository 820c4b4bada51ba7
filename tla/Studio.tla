------------------------------- MODULE Studio -------------------------------
(***************************************************************************)
(* The pages of the web application that change what the server keeps or   *)
(* ask it for lists (router.tsx).  A browser shows one of them, and a page *)
(* that is left is unmounted and keeps no state; so the route is chosen    *)
(* once and the page of that route moves, with the part of the server it   *)
(* works on.  The Tree builder's module is extended; every other page is an *)
(* instance of its module over the state declared here.  The pages that    *)
(* follow running work are in Live.                                        *)
(***************************************************************************)
EXTENDS TreeBuilder

CONSTANTS
  MaxWizardChanges, MaxDrafts, NoDraft,               \* TreeWizard
  Setups, ToolAgents, MaxTools, MaxOps,               \* ToolsPage
  SetupAgents, Holder, MaxRequests,                   \* TemplateSetup
  Accounts, Known, Grants, MaxLogins, MaxCalls, MaxAccountSteps,  \* Accounts
  MaxSecrets, MaxAsked,                               \* SecretsPage
  Items, MaxShelfChanges,                             \* Shelf
  MaxRows, MaxSent,                                   \* Integrations
  MaxQueryEdits, MaxServerChanges,                    \* Lookups
  MaxVersions, MaxRuns                                \* Launch

ASSUME StudioAssumption ==
  /\ Agents \union Tools \subseteq Nat /\ IsFiniteSet(Agents)
  /\ {} \notin {Roots, Managers, Specialists}
  /\ Roots \cap Managers = {} /\ (Roots \union Managers) \cap Specialists = {}
  /\ NoDocument \notin Documents /\ NoDraft \notin Documents
  /\ Nobody \notin Nat /\ "nobody" \notin Items \union Accounts /\ "absent" \notin Grants
  /\ Cardinality(Setups) >= 2 /\ MaxTools \in Nat \ {0, 1}
  /\ Holder \in SetupAgents /\ Known \subseteq Accounts
  /\ {HistoryLimit, MaxSecrets, MaxRows, MaxVersions, MaxRuns} \subseteq Nat \ {0}
  /\ {MaxWork, MaxSaves, MaxWizardChanges, MaxDrafts, MaxOps, MaxRequests, MaxLogins, MaxCalls,
      MaxAccountSteps, MaxAsked, MaxShelfChanges, MaxSent, MaxQueryEdits,
      MaxServerChanges} \subseteq Nat

VARIABLES
  route,                                        \* the page on screen
  wzTrees, wzPage, wzSaves, wzChanges, wzPast,
  tpTools, tpPage, tpCalls, tpProven, tpPast,
  tsTree, tsPage, tsCalls, tsPast,
  acUsers, acSessions, acShell, acDesk, acTorn,
  scStore, scPage, scCalls, scPast,
  shServed, shPage, shCalls, shPast,
  igServed, igPage, igCalls, igPast,
  lkPage, lkUrl, lkCalls, lkServer,
  lnTree, lnRuns, lnPage, lnCalls, lnPast

Wizard     == INSTANCE TreeWizard WITH MaxChanges <- MaxWizardChanges
ToolForms  == INSTANCE ToolsPage WITH Agents <- ToolAgents
Setup      == INSTANCE TemplateSetup
People     == INSTANCE Accounts WITH MaxSteps <- MaxAccountSteps
Vault      == INSTANCE SecretsPage
Shelves    == INSTANCE Shelf WITH MaxChanges <- MaxShelfChanges
Panels     == INSTANCE Integrations
Views      == INSTANCE Lookups WITH MaxEdits <- MaxQueryEdits, MaxChanges <- MaxServerChanges
Playground == INSTANCE Launch

builder    == tbVars
wizard     == <<wzTrees, wzPage, wzSaves, wzChanges, wzPast>>
tools      == <<tpTools, tpPage, tpCalls, tpProven, tpPast>>
setup      == <<tsTree, tsPage, tsCalls, tsPast>>
people     == <<acUsers, acSessions, acShell, acDesk, acTorn>>
vault      == <<scStore, scPage, scCalls, scPast>>
shelf      == <<shServed, shPage, shCalls, shPast>>
panels     == <<igServed, igPage, igCalls, igPast>>
lookups    == <<lkPage, lkUrl, lkCalls, lkServer>>
playground == <<lnTree, lnRuns, lnPage, lnCalls, lnPast>>
pages == <<builder, wizard, tools, setup, people, vault, shelf, panels, lookups, playground>>
vars  == <<route, pages>>

\* Pages off the route start in one of their states only.
Resting ==
  /\ route # "builder" => tbPage.route = 0 /\ ~tbTrees[1].ready
  /\ route # "wizard" => wzPage.route = 0 /\ ~wzTrees[1].ready
  /\ route # "setup" => tsTree.model = {} /\ tsTree.tool = {}
  /\ route # "shelf" => shPage.trees
  /\ route # "panels" => igPage.panel = "keys"
  /\ route # "lookups" => lkPage.view = "runs"
  /\ route # "playground" => lnPage.run = 1

Init ==
  /\ route \in {"builder", "wizard", "tools", "setup", "people", "vault", "shelf", "panels",
                "lookups", "playground"}
  /\ TreeBuilderInit /\ Wizard!TreeWizardInit /\ ToolForms!ToolsInit
  /\ Setup!SetupInit /\ People!AccountsInit /\ Vault!SecretsInit /\ Shelves!ShelfInit
  /\ Panels!IntegrationsInit /\ Views!LookupsInit /\ Playground!LaunchInit
  /\ Resting

EditsTree ==
  /\ route = "builder" /\ TreeBuilderNext
  /\ UNCHANGED <<route, wizard, tools, setup, people, vault, shelf, panels, lookups, playground>>

WalksThrough ==
  /\ route = "wizard" /\ Wizard!TreeWizardNext
  /\ UNCHANGED <<route, builder, tools, setup, people, vault, shelf, panels, lookups, playground>>

ConnectsTools ==
  /\ route = "tools" /\ ToolForms!ToolsNext
  /\ UNCHANGED <<route, builder, wizard, setup, people, vault, shelf, panels, lookups, playground>>

SetsUp ==
  /\ route = "setup" /\ Setup!SetupNext
  /\ UNCHANGED <<route, builder, wizard, tools, people, vault, shelf, panels, lookups, playground>>

ManagesPeople ==
  /\ route = "people" /\ People!AccountsNext
  /\ UNCHANGED <<route, builder, wizard, tools, setup, vault, shelf, panels, lookups, playground>>

KeepsSecrets ==
  /\ route = "vault" /\ Vault!SecretsNext
  /\ UNCHANGED <<route, builder, wizard, tools, setup, people, shelf, panels, lookups, playground>>

TidiesShelf ==
  /\ route = "shelf" /\ Shelves!ShelfNext
  /\ UNCHANGED <<route, builder, wizard, tools, setup, people, vault, panels, lookups, playground>>

Integrates ==
  /\ route = "panels" /\ Panels!IntegrationsNext
  /\ UNCHANGED <<route, builder, wizard, tools, setup, people, vault, shelf, lookups, playground>>

LooksUp ==
  /\ route = "lookups" /\ Views!LookupsNext
  /\ UNCHANGED <<route, builder, wizard, tools, setup, people, vault, shelf, panels, playground>>

Launches ==
  /\ route = "playground" /\ Playground!LaunchNext
  /\ UNCHANGED <<route, builder, wizard, tools, setup, people, vault, shelf, panels, lookups>>

Next ==
  \/ EditsTree \/ WalksThrough \/ ConnectsTools \/ SetsUp \/ ManagesPeople
  \/ KeepsSecrets \/ TidiesShelf \/ Integrates \/ LooksUp \/ Launches

Spec == Init /\ [][Next]_vars

-----------------------------------------------------------------------------
(* Properties; the parts named with "!" are explained in their modules.    *)
(* The page on screen is the only one that can have moved.                 *)

\* The page on screen and its part of the server keep their shape.
StudioTypeOK ==
  /\ route = "builder" => TreeBuilderTypeOK
  /\ route = "wizard" => Wizard!TreeWizardTypeOK
  /\ route = "tools" => ToolForms!ToolsTypeOK
  /\ route = "setup" => Setup!SetupTypeOK
  /\ route = "people" => People!AccountsTypeOK
  /\ route = "vault" => Vault!SecretsTypeOK
  /\ route = "shelf" => Shelves!ShelfTypeOK
  /\ route = "panels" => Panels!IntegrationsTypeOK
  /\ route = "lookups" => Views!LookupsTypeOK
  /\ route = "playground" => Playground!LaunchTypeOK

\* The builder says "saved" and "ready" of the document it shows, its history
\* is anchored in that document, and the document refers to what it holds,
\* over saves, reloads, animations and undo in any order.
BuilderIsHonest ==
  route = "builder" => /\ CleanIsSaved /\ VerdictIsCurrent
                       /\ HistoryIsAnchored /\ DocumentIsSound

\* A document that has been laid out keeps its cards apart.
LayoutKeepsApart == route = "builder" => LaidOutIsTidy

\* The wizard makes one Tree, sends documents that hold together, and keeps a
\* valid Tree that is opened and saved unchanged.
WizardMakesOneTree ==
  route = "wizard" => /\ Wizard!OneTreePerWizard /\ Wizard!WizardSendsHierarchy
                      /\ Wizard!WizardKeepsValidTrees

\* "Connected" is said of the setup that was tested, a form makes one Tool,
\* and a finished form leaves the Tool as the form had it.
ToolIsAsTested ==
  route = "tools" => /\ ToolForms!ConnectedIsProven /\ ToolForms!FormMakesOneTool
                     /\ ToolForms!FinishedFormIsServed

\* A browser shows the account of the session it holds, and that a new
\* password is due, whoever signs in, resets or deletes meanwhile, with the two
\* exceptions of People!AccountIsKnown, and shows only links that lead somewhere.
AccountIsKnown == route = "people" => People!AccountIsKnown /\ People!LinksLead

\* A Secret in use is never removed, and the dialog that removes one knows
\* which and what the server said.
SecretsAreSafe == route = "vault" => Vault!UsedSecretsStay /\ Vault!DialogKnowsItsSecret

\* What a page shows at rest is what the server has, for the query asked: the
\* lists of users, Secrets, Trees, templates, keys, webhooks, destinations,
\* Runs, security events, models and capabilities, and the set-up of a Tree,
\* which is called completed only when it is.  Each part names its exceptions:
\* a load or an answer that never came, requests that overlapped, and the rows
\* another user changed behind a list that does not ask again.
PagesShowTheServer ==
  /\ route = "setup" => Setup!SetupShowsServer /\ Setup!SetupFinishIsReady
  /\ route = "people" => People!UsersPageIsTrue
  /\ route = "vault" => Vault!SecretsAreListed
  /\ route = "shelf" => Shelves!ShelfIsTrue
  /\ route = "panels" => Panels!RowsAreServed /\ Panels!ShownSecretIsLive
  /\ route = "lookups" => Views!ShownIsAsked /\ Views!FiltersAreKept

\* The Playground draws the version its Run is pinned to, and starts one Run
\* at a time.
PlaygroundFollowsItsRun ==
  route = "playground" => Playground!GraphIsOfItsRun /\ Playground!OneRunAtATime
=============================================================================
