---- MODULE Accounts ----
(***************************************************************************)
(* Signing in and out of the Studio (auth.tsx, auth-pages.tsx, the account *)
(* menu, the 401 rule of lib/api.ts), the guards of the router and the     *)
(* links of the side bar, and the Users page with which an administrator   *)
(* changes the same accounts from another browser.                         *)
(*                                                                         *)
(* A request is asked, served and answered in three steps.  A sign-in is   *)
(* served in two: the password is checked, the session is committed later. *)
(* Other administrators change the accounts at any time.  An account is    *)
(* known by its name: one made again after a deletion counts as the same.  *)
(***************************************************************************)
EXTENDS Integers, FiniteSets

CONSTANTS
    Accounts,      \* the accounts that are not the primary administrator
    Known,         \* the accounts the server has at the start
    Grants,        \* the permissions an account may be given here
    MaxLogins,     \* bound: sessions opened
    MaxCalls,      \* bound: requests of the browser on their way at once
    MaxSteps       \* bound: sign-ins, and administrators' changes counted twice, together

VARIABLES
    acUsers,       \* the server's accounts
    acSessions,    \* the server's session rows: whose each one is, or Anonymous's
    acShell,       \* the browser of one person: cookie, shown user, requests
    acDesk,        \* the Users page of the administrator
    acTorn         \* accounts a row of the Users page may be wrong about

acVars == <<acUsers, acSessions, acShell, acDesk, acTorn>>

Anonymous == "nobody"
Row == [active : BOOLEAN, must : BOOLEAN, grants : SUBSET Grants]
Absent == [active |-> FALSE, must |-> FALSE, grants |-> {"absent"}]
There(u) == acUsers[u] # Absent

NoUser == [name |-> Anonymous, must |-> FALSE, grants |-> {}]
Read(u) == [name |-> u, must |-> acUsers[u].must, grants |-> acUsers[u].grants]

\* session_user: a session serves its account as long as the account is active.
Serves(s) == s # 0 /\ acSessions[s] # Anonymous /\ There(acSessions[s]) /\ acUsers[acSessions[s]].active

--------------------------------------------------------------------------
(* The browser. *)

\* One request of a kind at a time: the forms' busy flags see to that for a sign-in and
\* a new password, and it is a bound for the other kinds.
MoreMayCome(cost) == acShell.opened + 2 * acDesk.edits + cost <= MaxSteps
CanAsk(op) == ~(\E c \in acShell.calls : c.op = op) /\ Cardinality(acShell.calls) < MaxCalls
Ask(op, who) == [op |-> op, at |-> "asked", as |-> acShell.cookie, who |-> who, seen |-> NoUser]
Served(c, seen, session) == [c EXCEPT !.at = "served", !.seen = seen, !.as = session]
Send(c) == acShell.calls \cup {c}
Replace(c, d) == (acShell.calls \ {c}) \cup {d}

AccountsInit ==
    /\ acUsers = [u \in Accounts |->
                    IF u \in Known THEN [active |-> TRUE, must |-> FALSE, grants |-> {}] ELSE Absent]
    /\ acSessions = [s \in 1..MaxLogins |-> Anonymous]
    /\ acShell = [cookie |-> 0, user |-> NoUser, loading |-> TRUE, opened |-> 0, raced |-> FALSE,
                  slipped |-> {},
                  calls |-> {[op |-> "me", at |-> "asked", as |-> 0, who |-> Anonymous, seen |-> NoUser]}]
    /\ acDesk = [rows |-> {}, loading |-> TRUE, list |-> {}, listRead |-> FALSE, sel |-> Anonymous,
                 job |-> "none", who |-> Anonymous, form |-> Absent, pass |-> FALSE, edits |-> 0,
                 failed |-> FALSE]
    /\ acTorn = {}

\* The tab is opened anew: refresh() asks who is signed in.
Reload ==
    /\ acShell.calls = {} /\ ~acShell.loading
    /\ acShell' = [acShell EXCEPT !.user = NoUser, !.loading = TRUE, !.calls = Send(Ask("me", Anonymous)),
                                  !.raced = FALSE, !.slipped = {}]
    /\ UNCHANGED <<acUsers, acSessions, acDesk, acTorn>>

\* The sign-in page is shown to nobody in particular, also while refresh() runs.
LoginSubmit(u) ==
    /\ acShell.user = NoUser /\ CanAsk("login") /\ acShell.opened < MaxLogins /\ MoreMayCome(1)
    /\ acShell' = [acShell EXCEPT !.calls = Send(Ask("login", u)), !.opened = @ + 1]
    /\ UNCHANGED <<acUsers, acSessions, acDesk, acTorn>>

\* Every other page asks for its own data.
PageAsks ==
    /\ acShell.user # NoUser /\ ~acShell.user.must /\ CanAsk("page")
    /\ acShell' = [acShell EXCEPT !.calls = Send(Ask("page", Anonymous))]
    /\ UNCHANGED <<acUsers, acSessions, acDesk, acTorn>>

signOut ==
    /\ acShell.user # NoUser /\ ~acShell.user.must /\ CanAsk("logout")
    /\ acShell' = [acShell EXCEPT !.calls = Send(Ask("logout", Anonymous))]
    /\ UNCHANGED <<acUsers, acSessions, acDesk, acTorn>>

ChangeSubmit ==
    /\ acShell.user # NoUser /\ CanAsk("change")
    /\ acShell' = [acShell EXCEPT !.calls = Send(Ask("change", Anonymous))]
    /\ UNCHANGED <<acUsers, acSessions, acDesk, acTorn>>

\* The server: the middleware refuses a dead session, the routes do the rest.
MeServed(c) ==
    /\ c.op = "me" /\ c.at = "asked"
    /\ acShell' = [acShell EXCEPT !.calls =
                      Replace(c, Served(c, IF Serves(c.as) THEN Read(acSessions[c.as]) ELSE NoUser, c.as))]
    /\ UNCHANGED <<acUsers, acSessions, acDesk, acTorn>>

\* login reads the account's row once, to check the password.
LoginChecked(c) ==
    /\ c.op = "login" /\ c.at = "asked" /\ There(c.who) /\ acUsers[c.who].active
    /\ acShell' = [acShell EXCEPT !.calls = Replace(c, [c EXCEPT !.at = "checked", !.seen = Read(c.who)])]
    /\ UNCHANGED <<acUsers, acSessions, acDesk, acTorn>>

\* A password reset that came since then ended the sessions of before, and not this one.
Slips(c) == IF acUsers[c.who].must /\ ~c.seen.must THEN {acShell.opened} ELSE {}

\* The session is committed.  The row is not read again: the answer says "must change" as
\* it was read for the check; the grants are read now.
LoginCommitted(c) ==
    /\ c.op = "login" /\ c.at = "checked" /\ There(c.who)
    /\ acSessions' = [acSessions EXCEPT ![acShell.opened] = c.who]
    /\ acShell' = [acShell EXCEPT
          !.calls = Replace(c, Served(c, [Read(c.who) EXCEPT !.must = c.seen.must], acShell.opened)),
          !.slipped = @ \cup Slips(c)]
    /\ UNCHANGED <<acUsers, acDesk, acTorn>>

LogoutServed(c) ==
    /\ c.op = "logout" /\ c.at = "asked"
    /\ acSessions' = IF Serves(c.as) THEN [acSessions EXCEPT ![c.as] = Anonymous] ELSE acSessions
    /\ acShell' = [acShell EXCEPT !.calls =
                      Replace(c, Served(c, IF Serves(c.as) THEN Read(acSessions[c.as]) ELSE NoUser, c.as))]
    /\ UNCHANGED <<acUsers, acDesk, acTorn>>

\* change_password: the other sessions of the account end.
ChangeServed(c) ==
    /\ c.op = "change" /\ c.at = "asked" /\ Serves(c.as)
    /\ LET u == acSessions[c.as] IN
         /\ acUsers' = [acUsers EXCEPT ![u].must = FALSE]
         /\ acSessions' = [s \in DOMAIN acSessions |->
                              IF acSessions[s] = u /\ s # c.as THEN Anonymous ELSE acSessions[s]]
         /\ acShell' = [acShell EXCEPT !.calls = Replace(c, Served(c, [Read(u) EXCEPT !.must = FALSE], c.as))]
    /\ UNCHANGED <<acDesk, acTorn>>

\* A refused sign-in says so; a refused password change is a 401 like any other.
Refused(c) ==
    /\ \/ c.op = "login" /\ c.at = "asked" /\ ~(There(c.who) /\ acUsers[c.who].active)
       \/ c.op = "login" /\ c.at = "checked" /\ ~There(c.who)
       \/ c.op = "change" /\ c.at = "asked" /\ ~Serves(c.as)
    /\ acShell' = [acShell EXCEPT !.calls = @ \ {c}, !.user = IF c.op = "login" THEN @ ELSE NoUser]
    /\ UNCHANGED <<acUsers, acSessions, acDesk, acTorn>>

\* "studio-auth-expired": the answer of a page's request matters here when it is a 401.
expired(c) ==
    /\ c.op = "page"
    /\ acShell' = [acShell EXCEPT !.calls = @ \ {c}, !.user = IF Serves(c.as) THEN @ ELSE NoUser]
    /\ UNCHANGED <<acUsers, acSessions, acDesk, acTorn>>

\* refresh: any failure of the request counts as "nobody".
refresh(c, seen) ==
    /\ c.op = "me" /\ c.at = "served"
    /\ acShell' = [acShell EXCEPT !.calls = @ \ {c}, !.user = seen, !.loading = FALSE]
    /\ UNCHANGED <<acUsers, acSessions, acDesk, acTorn>>

\* setUser after a sign-in or a new password; a sign-in also brings its cookie.
SignedIn(c) ==
    /\ c.op \in {"login", "change"} /\ c.at = "served"
    /\ acShell' = [acShell EXCEPT
          !.calls = @ \ {c}, !.user = c.seen,
          !.cookie = IF c.op = "login" THEN c.as ELSE @,
          !.raced = @ \/ (c.op = "login" /\ \E d \in acShell.calls : d.op \in {"me", "change"})]
    /\ UNCHANGED <<acUsers, acSessions, acDesk, acTorn>>

\* finally: the page forgets the user whether or not the request got through.
SignedOut(c) ==
    /\ c.op = "logout"
    /\ acShell' = [acShell EXCEPT !.calls = @ \ {c}, !.user = NoUser,
                                  !.cookie = IF c.at = "served" /\ c.seen # NoUser THEN 0 ELSE @]
    /\ UNCHANGED <<acUsers, acSessions, acDesk, acTorn>>

--------------------------------------------------------------------------
(* The Users page. *)

Listed == {[name |-> u, active |-> acUsers[u].active, grants |-> acUsers[u].grants] :
             u \in {v \in Accounts : There(v)}}
Others(rows, u) == {r \in rows : r.name # u}
Chosen(u) == IF \E r \in acDesk.rows : r.name = u
             THEN LET r == CHOOSE r \in acDesk.rows : r.name = u
                  IN [active |-> r.active, must |-> FALSE, grants |-> r.grants]
             ELSE [active |-> TRUE, must |-> FALSE, grants |-> {}]

UsersRead ==
    /\ acDesk.loading /\ ~acDesk.listRead
    /\ acDesk' = [acDesk EXCEPT !.list = Listed, !.listRead = TRUE]
    /\ UNCHANGED <<acUsers, acSessions, acShell, acTorn>>

UsersShown ==
    /\ acDesk.loading /\ acDesk.listRead
    /\ acDesk' = [acDesk EXCEPT !.rows = acDesk.list, !.loading = FALSE, !.list = {}]
    /\ UNCHANGED <<acUsers, acSessions, acShell, acTorn>>

\* Promise.all of the users and the Trees: either may fail, and then nothing is shown.
UsersFail ==
    /\ acDesk.loading
    /\ acDesk' = [acDesk EXCEPT !.loading = FALSE, !.list = {}, !.failed = TRUE]
    /\ UNCHANGED <<acUsers, acSessions, acShell, acTorn>>

\* choose: a row, or Anonymous for the form of a new account.  It is not disabled by busy.
choose(u) ==
    /\ u = Anonymous \/ \E r \in acDesk.rows : r.name = u
    /\ acDesk.sel # u
    /\ acDesk' = [acDesk EXCEPT !.sel = u]
    /\ UNCHANGED <<acUsers, acSessions, acShell, acTorn>>

\* save: what was chosen and typed goes with the request.
save(u, form, pass) ==
    /\ acDesk.job = "none" /\ MoreMayCome(2)
    /\ IF acDesk.sel = Anonymous THEN form.active /\ pass ELSE u = acDesk.sel
    /\ acDesk' = [acDesk EXCEPT !.job = IF acDesk.sel = Anonymous THEN "create" ELSE "update",
                                !.who = u, !.form = form, !.pass = pass, !.edits = @ + 1]
    /\ UNCHANGED <<acUsers, acSessions, acShell, acTorn>>

remove ==
    /\ acDesk.job = "none" /\ acDesk.sel # Anonymous /\ MoreMayCome(2)
    /\ acDesk' = [acDesk EXCEPT !.job = "delete", !.who = acDesk.sel, !.edits = @ + 1]
    /\ UNCHANGED <<acUsers, acSessions, acShell, acTorn>>

\* A change the list on its way has not seen leaves the page wrong about u.
Unseen(u) == IF acDesk.listRead /\ acDesk.loading THEN acTorn \cup {u} ELSE acTorn

Put(u, row) == acUsers' = [acUsers EXCEPT ![u] = row]
EndSessions(u) ==
    acSessions' = [s \in DOMAIN acSessions |-> IF acSessions[s] = u THEN Anonymous ELSE acSessions[s]]

create_user ==
    /\ acDesk.job = "create" /\ ~There(acDesk.who)
    /\ Put(acDesk.who, [acDesk.form EXCEPT !.must = TRUE])
    /\ acDesk' = [acDesk EXCEPT !.job = "saved"]
    /\ acTorn' = Unseen(acDesk.who)
    /\ UNCHANGED <<acSessions, acShell>>

update_user ==
    /\ acDesk.job = "update" /\ There(acDesk.who)
    /\ Put(acDesk.who, [acDesk.form EXCEPT !.must = acUsers[acDesk.who].must])
    /\ acDesk' = [acDesk EXCEPT !.job = IF acDesk.pass THEN "reset" ELSE "saved"]
    /\ acTorn' = Unseen(acDesk.who)
    /\ UNCHANGED <<acSessions, acShell>>

\* Variant with a mistake: the sessions of the account go on.
ResetKeepingSessions ==
    /\ acDesk.job = "reset" /\ There(acDesk.who)
    /\ Put(acDesk.who, [acUsers[acDesk.who] EXCEPT !.must = TRUE])
    /\ acDesk' = [acDesk EXCEPT !.job = "saved"]
    /\ UNCHANGED <<acSessions, acShell, acTorn>>

\* reset_password: every session of the account ends.
reset_password ==
    /\ acDesk.job = "reset" /\ There(acDesk.who)
    /\ Put(acDesk.who, [acUsers[acDesk.who] EXCEPT !.must = TRUE]) /\ EndSessions(acDesk.who)
    /\ acDesk' = [acDesk EXCEPT !.job = "saved"]
    /\ UNCHANGED <<acShell, acTorn>>

delete_user ==
    /\ acDesk.job = "delete" /\ There(acDesk.who)
    /\ Put(acDesk.who, Absent) /\ EndSessions(acDesk.who)
    /\ acDesk' = [acDesk EXCEPT !.job = "deleted"]
    /\ acTorn' = Unseen(acDesk.who)
    /\ UNCHANGED acShell

\* Another administrator creates, changes, resets or deletes an account.  The page does
\* not learn of it, unless its list is still to be read and will bring the row first.
StillToLearn(u) ==
    acDesk.loading /\ ~acDesk.listRead /\ u # acDesk.who /\ \A r \in acDesk.rows : r.name # u

AnotherAdmin(u, row) ==
    /\ MoreMayCome(2)
    /\ \/ ~There(u) /\ row.active /\ Put(u, [row EXCEPT !.must = TRUE]) /\ UNCHANGED acSessions
       \/ There(u) /\ Put(u, [row EXCEPT !.must = acUsers[u].must]) /\ UNCHANGED acSessions
       \/ There(u) /\ Put(u, [acUsers[u] EXCEPT !.must = TRUE]) /\ EndSessions(u)
       \/ There(u) /\ Put(u, Absent) /\ EndSessions(u)
    /\ acDesk' = [acDesk EXCEPT !.edits = @ + 1]
    /\ acTorn' = IF StillToLearn(u) THEN acTorn ELSE acTorn \cup {u}
    /\ UNCHANGED acShell

\* The row the server answered with; choose(null) whatever is chosen by now.
Saved ==
    /\ acDesk.job \in {"saved", "deleted"}
    /\ LET u == acDesk.who
           row == [name |-> u, active |-> acDesk.form.active, grants |-> acDesk.form.grants]
       IN acDesk' = [acDesk EXCEPT !.job = "none", !.sel = Anonymous, !.who = Anonymous, !.form = Absent,
                        !.rows = Others(@, u) \cup (IF acDesk.job = "saved" THEN {row} ELSE {})]
    /\ UNCHANGED <<acUsers, acSessions, acShell, acTorn>>

\* Refused, or the answer never came: the rows stay as they were.
SaveFails ==
    /\ acDesk.job # "none"
    /\ acDesk' = [acDesk EXCEPT !.job = "none", !.who = Anonymous, !.form = Absent]
    /\ acTorn' = IF acDesk.job \in {"reset", "saved", "deleted"} THEN acTorn \cup {acDesk.who} ELSE acTorn
    /\ UNCHANGED <<acUsers, acSessions, acShell>>

AccountsNext ==
    \/ Reload \/ PageAsks \/ signOut \/ ChangeSubmit
    \/ \E u \in Accounts : LoginSubmit(u)
    \/ \E c \in acShell.calls :
         \/ MeServed(c) \/ LoginChecked(c) \/ LoginCommitted(c) \/ LogoutServed(c) \/ ChangeServed(c)
         \/ Refused(c) \/ expired(c) \/ refresh(c, c.seen) \/ refresh(c, NoUser) \/ SignedIn(c) \/ SignedOut(c)
    \/ UsersRead \/ UsersShown \/ UsersFail \/ remove \/ create_user \/ update_user
    \/ reset_password \/ delete_user \/ Saved \/ SaveFails
    \/ \E u \in Accounts \cup {Anonymous} : choose(u)
    \/ \E u \in Accounts, pass \in BOOLEAN, a \in BOOLEAN, g \in SUBSET Grants :
         save(u, [active |-> a, must |-> FALSE, grants |-> g], pass)
    \/ \E u \in Accounts, row \in Row : AnotherAdmin(u, row)

AccountsSpec == AccountsInit /\ [][AccountsNext]_acVars

--------------------------------------------------------------------------
(* Pages, their guards and the links to them. *)

Pages == {"dashboard", "trees", "executions", "templates", "providers", "tools", "secrets", "learning",
          "trace", "security", "users", "settings"}

\* navigation of sidebar.tsx: what a link asks of the user before it is shown.
LinkNeeds == [p \in Pages |->
    CASE p \in {"trees", "templates"} -> {"manage_trees_agents"}
      [] p \in {"executions", "trace"} -> {"view_executions"}
      [] p = "providers" -> {"manage_providers_models"}
      [] p = "tools" -> {"manage_tools_mcp"}
      [] p = "secrets" -> {"manage_secrets"}
      [] p \in {"security", "users", "settings"} -> {"admin"}
      [] OTHER -> {}]

\* The ProtectedRoutes around each page in router.tsx.
RouteNeeds == [p \in Pages |->
    CASE p \in {"users", "security", "settings"} -> {"admin"}
      [] p \in {"trees", "templates", "learning"} -> {"manage_trees_agents"}
      [] p \in {"executions", "trace"} -> {"view_executions"}
      [] p = "providers" -> {"manage_providers_models"}
      [] p = "tools" -> {"manage_tools_mcp"}
      [] p = "secrets" -> {"manage_secrets"}
      [] p = "dashboard" -> {}]

ShownLinks == {p \in Pages : LinkNeeds[p] \subseteq acShell.user.grants}
Opens(p) == ~acShell.loading /\ acShell.user # NoUser /\ ~acShell.user.must
            /\ RouteNeeds[p] \subseteq acShell.user.grants

--------------------------------------------------------------------------
(* Properties. *)

AccountsTypeOK ==
    /\ acUsers \in [Accounts -> Row \cup {Absent}]
    /\ acSessions \in [1..MaxLogins -> Accounts \cup {Anonymous}]
    /\ acShell.cookie \in 0..MaxLogins /\ acShell.opened \in 0..MaxLogins
    /\ acShell.user = NoUser \/ acShell.user.name \in Accounts
    /\ acDesk.job \in {"none", "create", "update", "reset", "delete", "saved", "deleted"}
    /\ acTorn \subseteq Accounts

\* While a signed-in browser holds a session that still works, it shows the
\* account of that session, and shows that a new password is due whenever the
\* server would refuse everything else.  Not claimed when a "who am I" or a
\* password change was still unanswered at the sign-in (auth.tsx:20, :30;
\* auth_service reset_password and change_password end the other sessions).
\* That a new password is due is not known, until the tab is opened anew, of a
\* session committed after a reset of the password it was checked with: such a
\* session outlives the reset, and the answer says what the check read
\* (auth_service login 137-149, expire_on_commit=False).
AccountIsKnown ==
    LET s == acShell.cookie IN
    (acShell.user # NoUser /\ Serves(s) /\ ~acShell.raced) =>
        /\ acShell.user.name = acSessions[s]
        /\ acUsers[acSessions[s]].must => acShell.user.must \/ s \in acShell.slipped

\* A row of the Users page is the server's account, and an account the server
\* has is listed, unless the list could not be loaded.  Not claimed while a
\* save of the account runs, nor of an account that another administrator
\* changed, or that a failed or half failed save, or a list that was under
\* way, left wrong (users.tsx:32-36, save).
UsersPageIsTrue ==
    \A u \in Accounts \ (acTorn \cup {acDesk.who}) : ~acDesk.loading =>
        LET shown == {r \in acDesk.rows : r.name = u} IN
        shown = {r \in Listed : r.name = u} \/ (acDesk.failed /\ shown = {})

\* Every link of the side bar leads a signed-in user to a page that opens; the
\* Learning link is the one exception the code has (sidebar.tsx, router.tsx).
LinksLead ==
    (acShell.user # NoUser /\ ~acShell.user.must /\ ~acShell.loading) =>
        \A p \in ShownLinks \ {"learning"} : Opens(p)
====
