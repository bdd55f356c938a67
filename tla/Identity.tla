------------------------------ MODULE Identity ------------------------------
(***************************************************************************)
(* Identity administration and authentication.  Operators run the CLI, one *)
(* transaction per command: it reads rows, changes them in its session,    *)
(* reads the version of an aggregate without a lock, locks the head of the *)
(* owner's SYSTEM stream to append the catalog event, and writes the rows  *)
(* at its commit.  Requests authenticate in a transaction of their own,    *)
(* and use what they were given afterwards.                                *)
(*                                                                         *)
(* A user is an owner with its tenant and its SYSTEM stream.  Secrets are  *)
(* left out: a request presents a credential it knows.  Expiry is a        *)
(* decision of the clock.  Audit records are written with the event and    *)
(* stand or fall with it.                                                  *)
(***************************************************************************)
EXTENDS AggregateVersions

CONSTANTS
    Operator,     \* sessions of the operator CLI
    Request,      \* request threads of the HTTP service
    Scope,        \* permission scopes
    MaxCommands,  \* bound: CLI commands in a behaviour
    MaxRequests   \* bound: requests in a behaviour

ASSUME IdentityBounds == MaxCommands \in Nat /\ MaxRequests \in Nat

VARIABLES
    users,   \* user rows
    apps,    \* application rows, by id
    creds,   \* credential rows, by id
    log,     \* identity events of the SYSTEM streams, in commit order
    next,    \* the next fresh identifier
    pc, cmd, seen, holds, \* of each operator: control, command, rows read, stream locked
    at, ctx, \* of each request: control, what it presented and was given
    served,  \* requests served
    commands, arrivals    \* how many of each there have been

rows == <<users, apps, creds>>
cli == <<pc, cmd, seen, holds>>
http == <<at, ctx, served, arrivals>>
vars == <<users, apps, creds, log, next, pc, cmd, seen, holds, at, ctx, served, commands, arrivals>>

None == 0
Application == [owner : Nat, status : {"ACTIVE", "DISABLED"}, disabled : BOOLEAN, scopes : SUBSET Scope]
Credential == [app : Nat, status : {"ACTIVE", "REVOKED"}, used : BOOLEAN]
Kind == {"UserRegistered", "ApplicationRegistered", "CredentialCreated", "CredentialRotated",
         "CredentialRevoked", "PermissionGranted", "PermissionRevoked"}
Event == [kind : Kind, agg : Nat, ver : Nat, app : Nat, old : Nat, scopes : SUBSET Scope]

Columns == [status |-> "ACTIVE", disabled |-> FALSE, scopes |-> {}]
NothingSeen == [scopes |-> {}, loaded |-> Columns, ver |-> 0]
NoContext == [cred |-> None, app |-> None, scopes |-> {}, since |-> 0]

Ask(op, on, scopes) == [op |-> op, on |-> on, scopes |-> scopes]

\* What an operator can ask about rows that exist: unknown ids are refused unread.
Command ==
    {Ask("bootstrap", None, {})}
    \cup {Ask("register", u, {}) : u \in users}
    \cup {Ask(op, a, {}) : op \in {"enable", "disable", "create"}, a \in DOMAIN apps}
    \cup {Ask(op, c, {}) : op \in {"rotate", "revoke"}, c \in DOMAIN creds}
    \cup {Ask("grant", a, {s}) : a \in DOMAIN apps, s \in Scope}
    \cup {Ask("withdraw", a, {s}) : a \in DOMAIN apps, s \in Scope}

NoCommand == Ask("none", None, {})

\* The owner whose SYSTEM stream takes the event.
OwnerOf(c) ==
    CASE c.op = "register" -> c.on
      [] c.op \in {"rotate", "revoke"} -> apps[creds[c.on].app].owner
      [] c.op \in {"create", "grant", "withdraw"} -> apps[c.on].owner
      [] OTHER -> None

\* get_latest_aggregate_version.
LatestVersion(agg) == Latest(log, agg)

\* Commands about an aggregate that exists: the others create theirs, at version 1.
Versioned(c) == c.op \in {"revoke", "grant", "withdraw"}

Init ==
    /\ users = {} /\ apps = <<>> /\ creds = <<>> /\ log = <<>> /\ next = 1
    /\ pc = [o \in Operator |-> "idle"] /\ cmd = [o \in Operator |-> NoCommand]
    /\ seen = [o \in Operator |-> NothingSeen] /\ holds = [o \in Operator |-> None]
    /\ at = [r \in Request |-> "idle"] /\ ctx = [r \in Request |-> NoContext]
    /\ served = {} /\ commands = 0 /\ arrivals = 0

-----------------------------------------------------------------------------
Goto(o, l) == pc' = [pc EXCEPT ![o] = l]

\* The transaction ends: its session and its lock are gone.
End(o) ==
    /\ Goto(o, "idle")
    /\ cmd' = [cmd EXCEPT ![o] = NoCommand]
    /\ seen' = [seen EXCEPT ![o] = NothingSeen]
    /\ holds' = [holds EXCEPT ![o] = None]

Invoke(o, c) ==
    /\ pc[o] = "idle" /\ commands < MaxCommands
    /\ commands' = commands + 1
    /\ cmd' = [cmd EXCEPT ![o] = c]
    /\ Goto(o, "read")
    /\ UNCHANGED <<rows, log, next, seen, holds, http>>

\* Where a command goes once its rows are read: those that change an application
\* load its row again to set the columns.
AfterRead(c) ==
    IF c.op \in {"enable", "disable", "grant", "withdraw"} THEN "load"
    ELSE IF Versioned(c) THEN "version" ELSE "lock"

\* The scopes a change starts from are read here.
ReadRows(o) ==
    LET c == cmd[o] IN
    /\ pc[o] = "read"
    /\ c.op = "bootstrap" => users = {}
    /\ seen' = IF c.op \in {"grant", "withdraw"} THEN [seen EXCEPT ![o].scopes = apps[c.on].scopes] ELSE seen
    /\ Goto(o, AfterRead(c))
    /\ UNCHANGED <<rows, log, next, cmd, holds, http, commands>>

\* The row whose columns are set, as it was loaded: it stays in the session.  Only
\* set_application_status appends no event.
LoadRow(o) ==
    LET row == apps[cmd[o].on] IN
    /\ pc[o] = "load"
    /\ seen' = [seen EXCEPT ![o].loaded =
                    [status |-> row.status, disabled |-> row.disabled, scopes |-> row.scopes]]
    /\ Goto(o, IF Versioned(cmd[o]) THEN "version" ELSE "commit")
    /\ UNCHANGED <<rows, log, next, cmd, holds, http, commands>>

\* "owner is already bootstrapped".
RefuseBootstrap(o) ==
    /\ pc[o] = "read" /\ cmd[o].op = "bootstrap" /\ users # {}
    /\ End(o)
    /\ UNCHANGED <<rows, log, next, http, commands>>

ReadVersion(o) ==
    /\ pc[o] = "version"
    /\ seen' = [seen EXCEPT ![o].ver = LatestVersion(cmd[o].on)]
    /\ Goto(o, "lock")
    /\ UNCHANGED <<rows, log, next, cmd, holds, http, commands>>

\* The stream of an owner that is being created is locked by nobody else.
Free(owner) == owner = None \/ \A p \in Operator : holds[p] # owner

\* Under the lock, another event of the aggregate has come since.
Stale(o) == Versioned(cmd[o]) /\ LatestVersion(cmd[o].on) # seen[o].ver

LockStream(o) ==
    /\ pc[o] = "lock" /\ Free(OwnerOf(cmd[o])) /\ ~Stale(o)
    /\ holds' = [holds EXCEPT ![o] = OwnerOf(cmd[o])]
    /\ Goto(o, "commit")
    /\ UNCHANGED <<rows, log, next, cmd, seen, http, commands>>

\* ConcurrencyConflictError: rolled back.
Conflict(o) ==
    /\ pc[o] = "lock" /\ Free(OwnerOf(cmd[o])) /\ Stale(o)
    /\ End(o)
    /\ UNCHANGED <<rows, log, next, http, commands>>

Crash(o) ==
    /\ pc[o] # "idle"
    /\ End(o)
    /\ UNCHANGED <<rows, log, next, http, commands>>

-----------------------------------------------------------------------------
NewEvent(kind, id, app, old) ==
    [kind |-> kind, agg |-> id, ver |-> 1, app |-> app, old |-> old, scopes |-> {}]

\* What every commit does.
Commits(o, events) ==
    /\ pc[o] = "commit"
    /\ log' = log \o events
    /\ End(o)
    /\ UNCHANGED <<http, commands>>

\* A table with a new row, at the next identifier.
Insert(table, row) == [x \in DOMAIN table \cup {next} |-> IF x = next THEN row ELSE table[x]]

CommitBootstrap(o) ==
    /\ cmd[o].op = "bootstrap"
    /\ users' = users \cup {next} /\ next' = next + 1
    /\ Commits(o, <<NewEvent("UserRegistered", next, None, None)>>)
    /\ UNCHANGED <<apps, creds>>

CommitRegister(o) ==
    /\ cmd[o].op = "register"
    /\ apps' = Insert(apps, [owner |-> cmd[o].on, status |-> "ACTIVE", disabled |-> FALSE, scopes |-> {}])
    /\ next' = next + 1
    /\ Commits(o, <<NewEvent("ApplicationRegistered", next, next, None)>>)
    /\ UNCHANGED <<users, creds>>

\* A column is written only if the session changed the value it had loaded.
Written(now, read, value) == IF value = read THEN now ELSE value

\* set_application_status: disabled_at is the time, or NULL.
CommitStatus(o) ==
    LET a == cmd[o].on
        off == cmd[o].op = "disable" IN
    /\ cmd[o].op \in {"enable", "disable"}
    /\ apps' = [apps EXCEPT
          ![a].status = Written(@, seen[o].loaded.status, IF off THEN "DISABLED" ELSE "ACTIVE"),
          ![a].disabled = IF off THEN TRUE ELSE Written(@, seen[o].loaded.disabled, FALSE)]
    /\ Commits(o, <<>>)
    /\ UNCHANGED <<users, creds, next>>

\* Mutant: last_used_at is left out of the row.
FreshCredentialUnused(app) == [app |-> app, status |-> "ACTIVE"]

FreshCredential(app) == [app |-> app, status |-> "ACTIVE", used |-> FALSE]

CommitCreate(o) ==
    /\ cmd[o].op = "create"
    /\ creds' = Insert(creds, FreshCredential(cmd[o].on))
    /\ next' = next + 1
    /\ Commits(o, <<NewEvent("CredentialCreated", next, cmd[o].on, None)>>)
    /\ UNCHANGED <<users, apps>>

\* The old credential is revoked whatever its status; the event is about the new one.
CommitRotate(o) ==
    LET old == cmd[o].on
        app == creds[old].app IN
    /\ cmd[o].op = "rotate"
    /\ creds' = Insert([creds EXCEPT ![old].status = "REVOKED"], FreshCredential(app))
    /\ next' = next + 1
    /\ Commits(o, <<NewEvent("CredentialRotated", next, app, old)>>)
    /\ UNCHANGED <<users, apps>>

\* An event about the aggregate the command names, at the version after the one read.
NextEvent(o, kind, app, scopes) ==
    [kind |-> kind, agg |-> cmd[o].on, ver |-> seen[o].ver + 1, app |-> app, old |-> None, scopes |-> scopes]

CommitRevoke(o) ==
    /\ cmd[o].op = "revoke"
    /\ creds' = [creds EXCEPT ![cmd[o].on].status = "REVOKED"]
    /\ Commits(o, <<NextEvent(o, "CredentialRevoked", creds[cmd[o].on].app, {})>>)
    /\ UNCHANGED <<users, apps, next>>

\* _change_scope: the list is the one read, with or without the scope; the list
\* there is now is overwritten.
CommitScope(o) ==
    LET c == cmd[o]
        list == IF c.op = "grant" THEN seen[o].scopes \cup c.scopes ELSE seen[o].scopes \ c.scopes IN
    /\ c.op \in {"grant", "withdraw"}
    /\ apps' = [apps EXCEPT ![c.on].scopes = Written(@, seen[o].loaded.scopes, list)]
    /\ Commits(o, <<NextEvent(o, IF c.op = "grant" THEN "PermissionGranted" ELSE "PermissionRevoked",
                              c.on, c.scopes)>>)
    /\ UNCHANGED <<users, creds, next>>

-----------------------------------------------------------------------------
\* A request arrives; "since" is the history there was by then.
Arrive(r, c) ==
    /\ at[r] = "idle" /\ arrivals < MaxRequests
    /\ arrivals' = arrivals + 1
    /\ at' = [at EXCEPT ![r] = "credential"]
    /\ ctx' = [ctx EXCEPT ![r] = [NoContext EXCEPT !.cred = c, !.since = Len(log)]]
    /\ UNCHANGED <<rows, log, next, cli, served, commands>>

Deny(r) ==
    /\ at' = [at EXCEPT ![r] = "idle"]
    /\ ctx' = [ctx EXCEPT ![r] = NoContext]
    /\ UNCHANGED <<rows, log, next, cli, served, commands, arrivals>>

\* Mutant: the status of a rotated credential is not looked at.
UsableAlways(c) == TRUE

\* The hash matches; what is left is the status.
Usable(c) == creds[c].status = "ACTIVE"

CheckCredential(r) ==
    /\ at[r] = "credential" /\ Usable(ctx[r].cred)
    /\ at' = [at EXCEPT ![r] = "application"]
    /\ ctx' = [ctx EXCEPT ![r].app = creds[ctx[r].cred].app]
    /\ UNCHANGED <<rows, log, next, cli, served, commands, arrivals>>

\* Revoked, or expired by now.
RejectCredential(r) == at[r] = "credential" /\ Deny(r)

CheckApplication(r) ==
    /\ at[r] = "application" /\ apps[ctx[r].app].status = "ACTIVE"
    /\ at' = [at EXCEPT ![r] = "scopes"]
    /\ UNCHANGED <<rows, log, next, cli, ctx, served, commands, arrivals>>

\* get_application_scopes, a statement of its own.
ReadScopes(r) ==
    /\ at[r] = "scopes"
    /\ at' = [at EXCEPT ![r] = "touch"]
    /\ ctx' = [ctx EXCEPT ![r].scopes = apps[ctx[r].app].scopes]
    /\ UNCHANGED <<rows, log, next, cli, served, commands, arrivals>>

RejectApplication(r) == at[r] = "application" /\ apps[ctx[r].app].status # "ACTIVE" /\ Deny(r)

\* Mutant: the row is written back as it was read.
TouchedWhole(row) == [row EXCEPT !.used = TRUE, !.status = "ACTIVE"]

\* touch_credential changes last_used_at alone.
Touched(row) == [row EXCEPT !.used = TRUE]

\* The authentication commits before the route runs.
Authenticate(r) ==
    /\ at[r] = "touch"
    /\ creds' = [creds EXCEPT ![ctx[r].cred] = Touched(@)]
    /\ at' = [at EXCEPT ![r] = "serve"]
    /\ UNCHANGED <<users, apps, log, next, cli, ctx, served, commands, arrivals>>

\* require_scope, on the context: the tables are not read again.
Serve(r, s) ==
    /\ at[r] = "serve" /\ s \in ctx[r].scopes
    /\ served' = served \cup {[cred |-> ctx[r].cred, app |-> ctx[r].app, scope |-> s, since |-> ctx[r].since]}
    /\ at' = [at EXCEPT ![r] = "idle"]
    /\ ctx' = [ctx EXCEPT ![r] = NoContext]
    /\ UNCHANGED <<rows, log, next, cli, commands, arrivals>>

\* PermissionDeniedError, or the thread dies.
Forbid(r) == at[r] \in {"scopes", "touch", "serve"} /\ Deny(r)

CommandStep(o) ==
    \/ ReadRows(o) \/ LoadRow(o) \/ RefuseBootstrap(o) \/ ReadVersion(o) \/ LockStream(o) \/ Conflict(o)
    \/ CommitBootstrap(o) \/ CommitRegister(o) \/ CommitStatus(o) \/ CommitCreate(o)
    \/ CommitRotate(o) \/ CommitRevoke(o) \/ CommitScope(o)

RequestStep(r) ==
    \/ CheckCredential(r) \/ RejectCredential(r) \/ CheckApplication(r) \/ RejectApplication(r) \/ ReadScopes(r)
    \/ Authenticate(r) \/ (\E s \in Scope : Serve(r, s)) \/ Forbid(r)

\* Every command was answered, and no other need come.
Quiescent ==
    /\ \A o \in Operator : pc[o] = "idle"
    /\ \A r \in Request : at[r] = "idle"
    /\ UNCHANGED vars

Next ==
    \/ \E o \in Operator : (\E c \in Command : Invoke(o, c)) \/ CommandStep(o) \/ Crash(o)
    \/ \E r \in Request : (\E c \in DOMAIN creds : Arrive(r, c)) \/ RequestStep(r)
    \/ Quiescent

Spec == Init /\ [][Next]_vars

-----------------------------------------------------------------------------
CommandForm == [op : {"none", "bootstrap", "register", "enable", "disable", "create",
                      "rotate", "revoke", "grant", "withdraw"},
                on : Nat, scopes : SUBSET Scope]
Loaded == [status : {"ACTIVE", "DISABLED"}, disabled : BOOLEAN, scopes : SUBSET Scope]
Sight == [scopes : SUBSET Scope, ver : Nat, loaded : Loaded]
Context == [cred : Nat, app : Nat, scopes : SUBSET Scope, since : Nat]

RowTypes ==
    /\ next \in Nat \ {0} /\ users \subseteq 1..(next - 1)
    /\ apps \in [DOMAIN apps -> Application] /\ DOMAIN apps \subseteq 1..(next - 1)
    /\ creds \in [DOMAIN creds -> Credential] /\ DOMAIN creds \subseteq 1..(next - 1)
    /\ \A a \in DOMAIN apps : apps[a].owner \in users
    /\ \A c \in DOMAIN creds : creds[c].app \in DOMAIN apps
    /\ log \in Seq(Event)

SessionTypes ==
    /\ pc \in [Operator -> {"idle", "read", "load", "version", "lock", "commit"}]
    /\ cmd \in [Operator -> CommandForm]
    /\ seen \in [Operator -> Sight]
    /\ holds \in [Operator -> users \cup {None}]

RequestTypes ==
    /\ at \in [Request -> {"idle", "credential", "application", "scopes", "touch", "serve"}]
    /\ ctx \in [Request -> Context]
    /\ served \subseteq [cred : Nat, app : Nat, scope : Scope, since : Nat]

TypeOK == RowTypes /\ SessionTypes /\ RequestTypes

\* The i-th event makes credential c, bound to application a.
Issues(i, c, a) ==
    log[i].kind \in {"CredentialCreated", "CredentialRotated"} /\ log[i].agg = c /\ log[i].app = a

\* The i-th event takes credential c back, by name or by rotation.
Withdraws(i, c) ==
    \/ log[i].kind = "CredentialRevoked" /\ log[i].agg = c
    \/ log[i].kind = "CredentialRotated" /\ log[i].old = c

\* The i-th event grants scope s to application a.
Grants(i, a, s) == log[i].kind = "PermissionGranted" /\ log[i].agg = a /\ s \in log[i].scopes

\* The credential rows and the ledger tell the same story: a row exists iff an event
\* issued it, for the application of that event, and is REVOKED iff an event withdrew
\* it, whoever rotates, revokes and uses it at the same time ("Every action appends
\* catalog events", identity_admin.py:4, and touch_credential beside a revocation).
CredentialsFollowLedger ==
    /\ \A c \in DOMAIN creds :
          /\ \E i \in DOMAIN log : Issues(i, c, creds[c].app)
          /\ creds[c].status = "REVOKED" <=> \E i \in DOMAIN log : Withdraws(i, c)
    /\ \A i \in DOMAIN log : log[i].kind = "CredentialCreated" => log[i].agg \in DOMAIN creds

\* What a request was served with had been given on the record: its credential was
\* issued for the application it acted as and not withdrawn before it arrived, and the
\* scope was granted to that application.  About scope lists written back stale, and
\* about a context that outlives the rows it was made from.
AuthorityIsRecorded ==
    \A x \in served :
        /\ \E i \in DOMAIN log : Issues(i, x.cred, x.app)
        /\ \A i \in 1..x.since : ~Withdraws(i, x.cred)
        /\ \E i \in DOMAIN log : Grants(i, x.app, x.scope)

\* The events of an aggregate are numbered 1, 2, 3, ... in commit order, although the
\* number is read before the stream is locked.
VersionsContiguous == Contiguous(log)

=============================================================================
