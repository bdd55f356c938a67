--------------------------- MODULE IdentityProofs ---------------------------
(***************************************************************************)
(* For any operators, requests and scopes: the credential rows agree with  *)
(* the ledger, what a request is served with is on the record, and the     *)
(* events of an aggregate are numbered without gaps.                       *)
(***************************************************************************)
EXTENDS Identity, AggregateVersionsProofs

\* What a command names exists.
Names(c) ==
    /\ c.op # "none"
    /\ c.op = "register" => c.on \in users
    /\ c.op \in {"enable", "disable", "create", "grant", "withdraw"} => c.on \in DOMAIN apps
    /\ c.op \in {"rotate", "revoke"} => c.on \in DOMAIN creds

\* A command under way names rows that exist, and it is where its kind can be.
CommandsRefer ==
    \A o \in Operator :
        /\ pc[o] # "idle" => Names(cmd[o])
        /\ pc[o] = "load" => cmd[o].op \in {"enable", "disable", "grant", "withdraw"}
        /\ pc[o] = "version" => Versioned(cmd[o])

\* Identifiers are used once, and the ledger names none that is yet to come.
IdsUnique ==
    /\ DOMAIN apps \cap DOMAIN creds = {}
    /\ \A i \in DOMAIN log : log[i].agg < next /\ log[i].old < next

\* A stream has one holder, and who is about to commit to an aggregate that exists
\* holds its stream and has read its latest version.
LocksHeld ==
    /\ \A o, p \in Operator : o # p /\ holds[o] # None => holds[o] # holds[p]
    /\ \A o \in Operator : pc[o] = "commit" /\ Versioned(cmd[o]) =>
          holds[o] = OwnerOf(cmd[o]) /\ seen[o].ver = LatestVersion(cmd[o].on)

\* The scopes of an application, and those a change of them starts from, were granted.
ScopesGranted ==
    /\ \A a \in DOMAIN apps, s \in Scope :
          s \in apps[a].scopes => \E i \in DOMAIN log : Grants(i, a, s)
    /\ \A o \in Operator, s \in Scope :
          s \in seen[o].scopes => pc[o] # "idle" /\ \E i \in DOMAIN log : Grants(i, cmd[o].on, s)

\* What a request knows about itself is on the record.
ContextsRecorded ==
    \A r \in Request :
        /\ at[r] # "idle" => ctx[r].cred \in DOMAIN creds /\ ctx[r].since <= Len(log)
        /\ at[r] = "credential" => ctx[r].scopes = {}
        /\ at[r] \notin {"idle", "credential"} =>
              /\ ctx[r].app = creds[ctx[r].cred].app
              /\ \A i \in 1..ctx[r].since : ~Withdraws(i, ctx[r].cred)
        /\ \A s \in Scope : at[r] # "idle" /\ s \in ctx[r].scopes =>
              \E i \in DOMAIN log : Grants(i, ctx[r].app, s)

\* No request was served in a history that is yet to come.
ServedInHistory == \A x \in served : x.since <= Len(log)

IInv ==
    /\ TypeOK /\ CommandsRefer /\ IdsUnique /\ LocksHeld /\ VersionsContiguous
    /\ CredentialsFollowLedger /\ ScopesGranted /\ ContextsRecorded
    /\ ServedInHistory /\ AuthorityIsRecorded

-----------------------------------------------------------------------------
\* Nothing is taken out of the ledger or of the tables; an application keeps its owner
\* and a credential its application.
Growth ==
    /\ Len(log) <= Len(log') /\ \A i \in DOMAIN log : i \in DOMAIN log' /\ log'[i] = log[i]
    /\ users \subseteq users' /\ next <= next'
    /\ \A a \in DOMAIN apps : a \in DOMAIN apps' /\ apps'[a].owner = apps[a].owner
    /\ \A c \in DOMAIN creds : c \in DOMAIN creds' /\ creds'[c].app = creds[c].app

\* The actions by what they leave alone.
Quiet == UNCHANGED <<users, apps, creds, log, next>>
Work(o) ==
    \/ \E c \in Command : Invoke(o, c)
    \/ ReadRows(o) \/ LoadRow(o) \/ RefuseBootstrap(o) \/ ReadVersion(o)
    \/ LockStream(o) \/ Conflict(o) \/ Crash(o)
Commit(o) ==
    \/ CommitBootstrap(o) \/ CommitRegister(o) \/ CommitStatus(o) \/ CommitCreate(o)
    \/ CommitRotate(o) \/ CommitRevoke(o) \/ CommitScope(o)
Request1(r) == (\E c \in DOMAIN creds : Arrive(r, c)) \/ RequestStep(r)

\* Every step works, commits, is of a request or stutters.
LEMMA StepCases ==
    ASSUME [Next]_vars
    PROVE  \/ \E o \in Operator : Work(o)
           \/ \E o \in Operator : Commit(o)
           \/ \E r \in Request : Request1(r)
           \/ UNCHANGED vars
  BY Zenon DEF Next, Work, Commit, Request1, CommandStep, Quiescent

\* What a command names is there when it comes.
LEMMA CommandNames ==
    ASSUME RowTypes, NEW command \in Command
    PROVE  command \in CommandForm /\ Names(command)
  <1>1. users \subseteq Nat /\ DOMAIN apps \subseteq Nat /\ DOMAIN creds \subseteq Nat
    BY DEF RowTypes
  <1>. QED
    BY <1>1 DEF Command, Ask, CommandForm, Names, None

\* What an operator has left after its transaction.
LEMMA EndTypes ==
    ASSUME SessionTypes, NEW o \in Operator, End(o)
    PROVE  /\ pc' \in [Operator -> {"idle", "read", "load", "version", "lock", "commit"}]
           /\ cmd' \in [Operator -> CommandForm]
           /\ seen' \in [Operator -> Sight]
           /\ holds' \in [Operator -> users \cup {None}]
  <1>1. NoCommand \in CommandForm /\ NothingSeen \in Sight
    BY DEF NoCommand, Ask, NothingSeen, CommandForm, Sight, Loaded, Columns, None
  <1>. QED
    BY <1>1 DEF SessionTypes, End, Goto, None

\* A step of an operator before its commit keeps the types.
LEMMA WorkTypes ==
    ASSUME IInv, NEW o \in Operator, Work(o)
    PROVE  TypeOK'
  <1>1. RowTypes /\ SessionTypes /\ RequestTypes /\ VersionsContiguous /\ CommandsRefer
    BY DEF IInv, TypeOK
  <1>2. RowTypes' /\ RequestTypes'
    BY <1>1, Zenon DEF RowTypes, RequestTypes, Work, Invoke, ReadRows, LoadRow, RefuseBootstrap, ReadVersion,
       LockStream, Conflict, Crash, rows, http
  <1>3. UNCHANGED users
    BY Zenon DEF Work, Invoke, ReadRows, LoadRow, RefuseBootstrap, ReadVersion,
       LockStream, Conflict, Crash, rows
  <1> SUFFICES SessionTypes'
    BY <1>2 DEF TypeOK
  <1>4. ASSUME NEW c \in Command, Invoke(o, c) PROVE SessionTypes'
    BY <1>1, <1>3, <1>4, CommandNames DEF SessionTypes, Invoke, Goto
  <1>5. CASE ReadRows(o)
    <2>1. AfterRead(cmd[o]) \in {"load", "version", "lock"}
      BY DEF AfterRead
    <2>2. ASSUME cmd[o].op \in {"grant", "withdraw"}
          PROVE [seen[o] EXCEPT !.scopes = apps[cmd[o].on].scopes] \in Sight
      <3>1. apps[cmd[o].on] \in Application
        BY <1>1, <1>5, <2>2 DEF RowTypes, CommandsRefer, Names, ReadRows
      <3>. QED
        BY <3>1, <1>1 DEF SessionTypes, Sight, Application
    <2>. QED
      BY <1>1, <1>3, <1>5, <2>1, <2>2 DEF SessionTypes, ReadRows, Goto, rows, http
  <1>6. CASE LoadRow(o)
    <2> DEFINE row == apps[cmd[o].on]
               loaded == [status |-> row.status, disabled |-> row.disabled, scopes |-> row.scopes]
    <2>1. loaded \in Loaded
      <3>1. row \in Application
        BY <1>1, <1>6 DEF RowTypes, CommandsRefer, Names, LoadRow
      <3>. QED
        BY <3>1 DEF Application, Loaded
    <2>2. [seen[o] EXCEPT !.loaded = loaded] \in Sight
      <3> HIDE DEF loaded
      <3>. QED
        BY <1>1, <2>1 DEF SessionTypes, Sight
    <2>3. (IF Versioned(cmd[o]) THEN "version" ELSE "commit") \in {"version", "commit"}
      OBVIOUS
    <2>4. seen' = [seen EXCEPT ![o] = [seen[o] EXCEPT !.loaded = loaded]]
      BY <1>6 DEF LoadRow
    <2>5. seen' \in [Operator -> Sight]
      BY <1>1, <2>2, <2>4 DEF SessionTypes
    <2>. QED
      BY <1>1, <1>3, <1>6, <2>3, <2>5 DEF SessionTypes, LoadRow, Goto, rows, http
  <1>7. CASE RefuseBootstrap(o) \/ Conflict(o) \/ Crash(o)
    <2>1. End(o)
      BY <1>7 DEF RefuseBootstrap, Conflict, Crash
    <2>. QED
      BY <1>1, <1>3, <2>1, EndTypes DEF RefuseBootstrap, Conflict, Crash, SessionTypes
  <1>8. CASE ReadVersion(o)
    <2>1. LatestVersion(cmd[o].on) \in Nat
      BY <1>1, LatestIsCount DEF RowTypes, LatestVersion, VersionsContiguous
    <2>2. [seen[o] EXCEPT !.ver = LatestVersion(cmd[o].on)] \in Sight
      BY <1>1, <2>1 DEF SessionTypes, Sight
    <2>. QED
      BY <1>1, <1>3, <1>8, <2>2 DEF SessionTypes, ReadVersion, Goto, rows, http
  <1>9. CASE LockStream(o)
    <2>1. OwnerOf(cmd[o]) \in users \cup {None}
      BY <1>1, <1>9 DEF RowTypes, LockStream, OwnerOf, CommandsRefer, Names
    <2>. QED
      BY <1>1, <1>3, <1>9, <2>1 DEF SessionTypes, LockStream, Goto, rows, http
  <1>. QED
    BY <1>2, <1>4, <1>5, <1>6, <1>7, <1>8, <1>9 DEF Work

\* A step of a request keeps the types.
LEMMA RequestTypesKept ==
    ASSUME IInv, NEW r \in Request, Request1(r)
    PROVE  TypeOK'
  <1>1. RowTypes /\ SessionTypes /\ RequestTypes /\ ContextsRecorded
    BY DEF IInv, TypeOK
  <1>2. UNCHANGED <<users, apps, log, next, pc, cmd, seen, holds>>
    BY Zenon DEF Request1, Arrive, RequestStep, CheckCredential, RejectCredential, CheckApplication,
       RejectApplication, ReadScopes, Authenticate, Serve, Forbid, Deny, rows, cli
  <1>3. SessionTypes'
    BY <1>1, <1>2 DEF SessionTypes
  <1>4. CASE UNCHANGED creds
    <2>1. RowTypes'
      BY <1>1, <1>2, <1>4 DEF RowTypes
    <2>2. ASSUME NEW c \in DOMAIN creds, Arrive(r, c) PROVE RequestTypes'
      <3>1. [NoContext EXCEPT !.cred = c, !.since = Len(log)] \in Context
        <4>1. c \in Nat /\ Len(log) \in Nat
          BY <1>1 DEF RowTypes
        <4>. QED
          BY <4>1 DEF NoContext, Context, None
      <3>. QED
        BY <1>1, <2>2, <3>1 DEF RequestTypes, Arrive
    <2>3. ASSUME Deny(r) PROVE RequestTypes'
      BY <1>1, <2>3 DEF RequestTypes, Deny, NoContext, Context, None
    <2>4. CASE CheckCredential(r)
      <3>1. [ctx[r] EXCEPT !.app = creds[ctx[r].cred].app] \in Context
        <4>1. ctx[r].cred \in DOMAIN creds
          BY <1>1, <2>4 DEF ContextsRecorded, CheckCredential
        <4>2. creds[ctx[r].cred].app \in Nat
          BY <1>1, <4>1 DEF RowTypes, Credential
        <4>. QED
          BY <1>1, <4>2 DEF RequestTypes, Context
      <3>2. RequestTypes'
        BY <1>1, <2>4, <3>1 DEF RequestTypes, CheckCredential
      <3>. QED
        BY <1>3, <2>1, <3>2 DEF TypeOK
    <2>5. CASE CheckApplication(r)
      BY <1>1, <1>3, <2>1, <2>5 DEF TypeOK, RequestTypes, CheckApplication
    <2>6. CASE ReadScopes(r)
      <3>1. ctx[r].app \in DOMAIN apps
        BY <1>1, <2>6 DEF RowTypes, ContextsRecorded, ReadScopes
      <3>2. [ctx[r] EXCEPT !.scopes = apps[ctx[r].app].scopes] \in Context
        <4>1. apps[ctx[r].app].scopes \in SUBSET Scope
          BY <1>1, <3>1 DEF RowTypes, Application
        <4>. QED
          BY <1>1, <4>1 DEF RequestTypes, Context
      <3>3. RequestTypes'
        <4>1. ctx' = [ctx EXCEPT ![r] = [ctx[r] EXCEPT !.scopes = apps[ctx[r].app].scopes]]
          BY <2>6 DEF ReadScopes
        <4>2. ctx' \in [Request -> Context]
          BY <1>1, <3>2, <4>1 DEF RequestTypes
        <4>. QED
          BY <1>1, <2>6, <4>2 DEF RequestTypes, ReadScopes
      <3>. QED
        BY <1>3, <2>1, <3>3 DEF TypeOK
    <2>7. ASSUME NEW s \in Scope, Serve(r, s) PROVE RequestTypes'
      <3>1. ctx[r] \in Context /\ NoContext \in Context
        BY <1>1 DEF RequestTypes, NoContext, Context, None
      <3>2. [cred |-> ctx[r].cred, app |-> ctx[r].app, scope |-> s, since |-> ctx[r].since]
            \in [cred : Nat, app : Nat, scope : Scope, since : Nat]
        BY <3>1 DEF Context
      <3>3. ctx' \in [Request -> Context]
        BY <1>1, <2>7, <3>1 DEF RequestTypes, Serve
      <3>. QED
        BY <1>1, <2>7, <3>2, <3>3 DEF RequestTypes, Serve
    <2>8. CASE Authenticate(r)
      BY <1>1, <1>3, <2>1, <2>8 DEF TypeOK, RequestTypes, Authenticate
    <2>. QED
      BY <1>3, <2>1, <2>2, <2>3, <2>4, <2>5, <2>6, <2>7, <2>8
      DEF TypeOK, Request1, RequestStep, RejectCredential, RejectApplication, Forbid
  <1>5. CASE Authenticate(r)
    <2>1. ctx[r].cred \in DOMAIN creds
      BY <1>1, <1>5 DEF ContextsRecorded, Authenticate
    <2>2. Touched(creds[ctx[r].cred]) \in Credential /\ Touched(creds[ctx[r].cred]).app = creds[ctx[r].cred].app
      BY <1>1, <2>1 DEF RowTypes, Credential, Touched
    <2>3. RowTypes'
      BY <1>1, <1>2, <1>5, <2>1, <2>2 DEF RowTypes, Authenticate
    <2>4. RequestTypes'
      BY <1>1, <1>5 DEF RequestTypes, Authenticate
    <2>. QED
      BY <1>3, <2>3, <2>4 DEF TypeOK
  <1>. QED
    BY <1>4, <1>5 DEF Request1, Arrive, RequestStep, CheckCredential, RejectCredential, CheckApplication,
       RejectApplication, ReadScopes, Serve, Forbid, Deny, rows

-----------------------------------------------------------------------------
\* What appending one event, or none, does to the ledger.
LEMMA LogGrows ==
    ASSUME log \in Seq(Event), NEW e \in Event, log' = log \o <<e>>
    PROVE  /\ log' = Append(log, e) /\ log' \in Seq(Event)
           /\ Len(log) \in Nat /\ DOMAIN log = 1..Len(log)
           /\ Len(log') = Len(log) + 1 /\ DOMAIN log' = 1..(Len(log) + 1)
           /\ log'[Len(log) + 1] = e /\ \A i \in DOMAIN log : log'[i] = log[i]
  <1>1. log \o <<e>> = Append(log, e)
    BY AppendIsConcat
  <1>. QED
    BY <1>1, AppendProperties

\* A commit without an event leaves the ledger as it is.
LEMMA LogStays ==
    ASSUME log \in Seq(Event)
    PROVE  log \o <<>> = log
  BY ConcatEmptySeq

\* A new row has an identifier of its own.
LEMMA InsertProperties ==
    ASSUME NEW table, NEW row, next \notin DOMAIN table
    PROVE  /\ DOMAIN Insert(table, row) = DOMAIN table \cup {next}
           /\ Insert(table, row)[next] = row
           /\ \A x \in DOMAIN table : Insert(table, row)[x] = table[x]
  BY DEF Insert

\* The event a commit appends, if it appends one.
CommitEvent(o) ==
    LET c == cmd[o] IN
    CASE c.op = "bootstrap" -> NewEvent("UserRegistered", next, None, None)
      [] c.op = "register" -> NewEvent("ApplicationRegistered", next, next, None)
      [] c.op = "create" -> NewEvent("CredentialCreated", next, c.on, None)
      [] c.op = "rotate" -> NewEvent("CredentialRotated", next, creds[c.on].app, c.on)
      [] c.op = "revoke" -> NextEvent(o, "CredentialRevoked", creds[c.on].app, {})
      [] c.op = "grant" -> NextEvent(o, "PermissionGranted", c.on, c.scopes)
      [] c.op = "withdraw" -> NextEvent(o, "PermissionRevoked", c.on, c.scopes)
      [] OTHER -> NewEvent("UserRegistered", next, None, None)

\* What every commit has in common.
LEMMA CommitShape ==
    ASSUME IInv, NEW o \in Operator, Commit(o)
    PROVE  /\ End(o) /\ pc[o] = "commit" /\ UNCHANGED <<http, commands>> /\ Names(cmd[o])
           /\ CommitEvent(o) \in Event /\ next' \in {next, next + 1}
           /\ \/ cmd[o].op \in {"enable", "disable"} /\ log' = log
              \/ cmd[o].op \notin {"enable", "disable"} /\ log' = log \o <<CommitEvent(o)>>
  <1>1. RowTypes /\ SessionTypes /\ CommandsRefer
    BY DEF IInv, TypeOK
  <1>2. pc[o] = "commit" /\ Names(cmd[o]) /\ cmd[o].op # "none"
    BY <1>1, Zenon DEF CommandsRefer, Commit, CommitBootstrap, CommitRegister, CommitStatus, CommitCreate,
       CommitRotate, CommitRevoke, CommitScope, Commits, Names
  <1>3. End(o) /\ UNCHANGED <<http, commands>>
    BY Zenon DEF Commit, CommitBootstrap, CommitRegister, CommitStatus, CommitCreate,
       CommitRotate, CommitRevoke, CommitScope, Commits
  <1>4. next' \in {next, next + 1}
    BY DEF Commit, CommitBootstrap, CommitRegister, CommitStatus, CommitCreate,
       CommitRotate, CommitRevoke, CommitScope
  <1>5. CommitEvent(o) \in Event
    <2>1. next \in Nat /\ cmd[o].on \in Nat /\ seen[o].ver + 1 \in Nat /\ cmd[o].scopes \in SUBSET Scope
      BY <1>1 DEF RowTypes, SessionTypes, CommandForm, Sight
    <2>2. cmd[o].op \in {"rotate", "revoke"} => creds[cmd[o].on].app \in Nat
      BY <1>1, <1>2 DEF RowTypes, Credential, Names
    <2>. QED
      BY <2>1, <2>2 DEF CommitEvent, NewEvent, NextEvent, Event, Kind, None
  <1>6. \/ cmd[o].op \in {"enable", "disable"} /\ log' = log
        \/ cmd[o].op \notin {"enable", "disable"} /\ log' = log \o <<CommitEvent(o)>>
    <2>1. CASE CommitBootstrap(o)
      BY <2>1 DEF CommitBootstrap, Commits, CommitEvent
    <2>2. CASE CommitRegister(o)
      BY <2>2 DEF CommitRegister, Commits, CommitEvent
    <2>3. CASE CommitStatus(o)
      BY <1>1, <2>3, LogStays DEF RowTypes, CommitStatus, Commits
    <2>4. CASE CommitCreate(o)
      BY <2>4 DEF CommitCreate, Commits, CommitEvent
    <2>5. CASE CommitRotate(o)
      BY <2>5 DEF CommitRotate, Commits, CommitEvent
    <2>6. CASE CommitRevoke(o)
      BY <2>6 DEF CommitRevoke, Commits, CommitEvent
    <2>7. CASE CommitScope(o)
      BY <2>7 DEF CommitScope, Commits, CommitEvent
    <2>. QED
      BY <2>1, <2>2, <2>3, <2>4, <2>5, <2>6, <2>7 DEF Commit
  <1>. QED
    BY <1>2, <1>3, <1>4, <1>5, <1>6

\* A commit keeps the types and takes nothing back.
LEMMA CommitTypes ==
    ASSUME IInv, NEW o \in Operator, Commit(o)
    PROVE  TypeOK' /\ Growth
  <1>1. RowTypes /\ SessionTypes /\ RequestTypes /\ CommandsRefer
    BY DEF IInv, TypeOK
  <1>2. /\ End(o) /\ UNCHANGED <<at, ctx, served>> /\ Names(cmd[o])
        /\ CommitEvent(o) \in Event /\ next' \in {next, next + 1}
    BY CommitShape DEF http
  <1>3. log' \in Seq(Event) /\ Len(log) <= Len(log') /\ \A i \in DOMAIN log : i \in DOMAIN log' /\ log'[i] = log[i]
    <2>1. log \in Seq(Event) /\ Len(log) \in Nat
      BY <1>1 DEF RowTypes
    <2>2. CASE log' = log
      BY <2>1, <2>2
    <2>3. CASE log' = log \o <<CommitEvent(o)>>
      BY <1>2, <2>1, <2>3, LogGrows
    <2>. QED
      BY <2>2, <2>3, CommitShape
  <1>4. RequestTypes'
    BY <1>1, <1>2 DEF RequestTypes
  <1> SUFFICES RowTypes' /\ Growth
    <2>1. users \subseteq users'
      BY DEF Growth
    <2>2. SessionTypes'
      BY <1>1, <1>2, <2>1, EndTypes DEF SessionTypes
    <2>. QED
      BY <1>4, <2>2 DEF TypeOK
  <1>5. /\ next \in Nat /\ next' \in Nat \ {0} /\ next <= next' /\ 1..(next - 1) \subseteq 1..(next' - 1)
        /\ next \notin DOMAIN apps /\ next \notin DOMAIN creds
    BY <1>1, <1>2 DEF RowTypes
  <1>6. CASE CommitBootstrap(o)
    BY <1>1, <1>3, <1>5, <1>6 DEF CommitBootstrap, RowTypes, Growth
  <1>7. CASE CommitRegister(o)
    <2> DEFINE row == [owner |-> cmd[o].on, status |-> "ACTIVE", disabled |-> FALSE, scopes |-> {}]
    <2>1. row \in Application /\ row.owner \in users
      BY <1>1, <1>2, <1>7 DEF CommitRegister, SessionTypes, CommandForm, Application, Names
    <2>2. apps' = Insert(apps, row) /\ next' = next + 1 /\ UNCHANGED <<users, creds>>
      BY <1>7 DEF CommitRegister
    <2> HIDE DEF row
    <2>3. /\ DOMAIN apps' = DOMAIN apps \cup {next} /\ apps'[next] = row
          /\ \A x \in DOMAIN apps : apps'[x] = apps[x]
      BY <1>5, <2>2, InsertProperties
    <2>4. apps' \in [DOMAIN apps' -> Application]
      <3>1. apps' = [x \in DOMAIN apps' |-> apps'[x]]
        BY <2>2 DEF Insert
      <3>. QED
        BY <1>1, <2>1, <2>3, <3>1 DEF RowTypes
    <2>5. DOMAIN apps' \subseteq 1..(next' - 1)
      BY <1>1, <1>5, <2>2, <2>3 DEF RowTypes
    <2>6. /\ \A a \in DOMAIN apps' : apps'[a].owner \in users
          /\ \A a \in DOMAIN apps : a \in DOMAIN apps' /\ apps'[a].owner = apps[a].owner
      BY <1>1, <2>1, <2>3 DEF RowTypes
    <2>. QED
      BY <1>1, <1>3, <1>5, <2>2, <2>4, <2>5, <2>6 DEF RowTypes, Growth
  <1>8. CASE CommitStatus(o) \/ CommitScope(o)
    <2> DEFINE a == cmd[o].on
    <2>1. a \in DOMAIN apps
      BY <1>2, <1>8 DEF CommitStatus, CommitScope, Names
    <2>2. UNCHANGED <<users, creds, next>>
      BY <1>8 DEF CommitStatus, CommitScope
    <2>3. \E row \in Application : row.owner = apps[a].owner /\ apps' = [apps EXCEPT ![a] = row]
      <3>1. apps[a] \in Application /\ seen[o] \in Sight /\ cmd[o] \in CommandForm
        BY <1>1, <2>1 DEF RowTypes, SessionTypes
      <3>2. CASE CommitStatus(o)
        <4> DEFINE off == cmd[o].op = "disable"
                   status == Written(apps[a].status, seen[o].loaded.status, IF off THEN "DISABLED" ELSE "ACTIVE")
                   disabled == IF off THEN TRUE ELSE Written(apps[a].disabled, seen[o].loaded.disabled, FALSE)
                   row == [apps[a] EXCEPT !.status = status, !.disabled = disabled]
        <4>1. status \in {"ACTIVE", "DISABLED"} /\ disabled \in BOOLEAN
          BY <3>1 DEF Application, Written
        <4>2. row \in Application /\ row.owner = apps[a].owner
          BY <3>1, <4>1 DEF Application
        <4>3. apps' = [apps EXCEPT ![a] = row]
          BY <2>1, <3>2 DEF CommitStatus
        <4>. QED
          BY <4>2, <4>3
      <3>3. CASE CommitScope(o)
        <4> DEFINE c == cmd[o]
                   list == IF c.op = "grant" THEN seen[o].scopes \cup c.scopes ELSE seen[o].scopes \ c.scopes
                   row == [apps[a] EXCEPT !.scopes = Written(apps[a].scopes, seen[o].loaded.scopes, list)]
        <4>1. Written(apps[a].scopes, seen[o].loaded.scopes, list) \in SUBSET Scope
          BY <3>1 DEF Application, Written, Sight, CommandForm
        <4>2. row \in Application /\ row.owner = apps[a].owner
          BY <3>1, <4>1 DEF Application
        <4>3. apps' = [apps EXCEPT ![a] = row]
          BY <2>1, <3>3 DEF CommitScope
        <4>. QED
          BY <4>2, <4>3
      <3>. QED
        BY <1>8, <3>2, <3>3
    <2>. QED
      BY <1>1, <1>3, <1>5, <2>1, <2>2, <2>3 DEF RowTypes, Growth
  <1>9. CASE CommitCreate(o) \/ CommitRotate(o)
    <2> DEFINE table == IF cmd[o].op = "create" THEN creds ELSE [creds EXCEPT ![cmd[o].on].status = "REVOKED"]
               app == IF cmd[o].op = "create" THEN cmd[o].on ELSE creds[cmd[o].on].app
               row == FreshCredential(app)
    <2>1. creds' = Insert(table, row) /\ next' = next + 1 /\ UNCHANGED <<users, apps>>
      BY <1>9 DEF CommitCreate, CommitRotate
    <2>2. /\ table \in [DOMAIN creds -> Credential] /\ app \in DOMAIN apps
          /\ \A c \in DOMAIN creds : table[c].app = creds[c].app
      <3>1. CASE cmd[o].op = "create"
        BY <1>1, <1>2, <3>1 DEF RowTypes, Names
      <3>2. CASE cmd[o].op = "rotate"
        BY <1>1, <1>2, <3>2 DEF RowTypes, Names, Credential
      <3>. QED
        BY <1>9, <3>1, <3>2 DEF CommitCreate, CommitRotate
    <2>3. row \in Credential /\ row.app = app
      BY <1>1, <2>2 DEF FreshCredential, Credential, RowTypes
    <2> HIDE DEF row, table, app
    <2>4. /\ DOMAIN creds' = DOMAIN creds \cup {next} /\ creds'[next] = row
          /\ \A x \in DOMAIN creds : creds'[x] = table[x]
      <3>1. DOMAIN table = DOMAIN creds /\ next \notin DOMAIN table
        BY <1>5, <2>2
      <3>. QED
        BY <2>1, <3>1 DEF Insert
    <2>5. creds' \in [DOMAIN creds' -> Credential]
      <3>1. creds' = [x \in DOMAIN creds' |-> creds'[x]]
        BY <2>1 DEF Insert
      <3>. QED
        BY <2>2, <2>3, <2>4, <3>1
    <2>6. DOMAIN creds' \subseteq 1..(next' - 1)
      BY <1>1, <1>5, <2>1, <2>4 DEF RowTypes
    <2>7. /\ \A c \in DOMAIN creds' : creds'[c].app \in DOMAIN apps
          /\ \A c \in DOMAIN creds : c \in DOMAIN creds' /\ creds'[c].app = creds[c].app
      BY <1>1, <2>2, <2>3, <2>4 DEF RowTypes
    <2>. QED
      BY <1>1, <1>3, <1>5, <2>1, <2>5, <2>6, <2>7 DEF RowTypes, Growth
  <1>10. CASE CommitRevoke(o)
    <2>1. cmd[o].on \in DOMAIN creds /\ creds' = [creds EXCEPT ![cmd[o].on].status = "REVOKED"]
          /\ UNCHANGED <<users, apps, next>>
      BY <1>2, <1>10 DEF CommitRevoke, Names
    <2>2. [creds[cmd[o].on] EXCEPT !.status = "REVOKED"] \in Credential
      BY <1>1, <2>1 DEF RowTypes, Credential
    <2>3. /\ creds' \in [DOMAIN creds -> Credential] /\ DOMAIN creds' = DOMAIN creds
          /\ \A c \in DOMAIN creds : creds'[c].app = creds[c].app
      BY <1>1, <2>1, <2>2 DEF RowTypes, Credential
    <2>. QED
      BY <1>1, <1>3, <1>5, <2>1, <2>3 DEF RowTypes, Growth
  <1>. QED
    BY <1>6, <1>7, <1>8, <1>9, <1>10 DEF Commit

\* Every step keeps the types and takes nothing back.
LEMMA StepTypes ==
    ASSUME IInv, [Next]_vars
    PROVE  TypeOK' /\ Growth
  <1>1. CASE \E o \in Operator : Work(o)
    <2>1. Quiet
      BY <1>1, Zenon DEF Quiet, Work, Invoke, ReadRows, LoadRow, RefuseBootstrap, ReadVersion,
         LockStream, Conflict, Crash, rows
    <2>2. Growth
      BY <2>1 DEF Quiet, Growth, IInv, TypeOK, RowTypes
    <2>. QED
      BY <1>1, <2>2, WorkTypes
  <1>2. CASE \E o \in Operator : Commit(o)
    BY <1>2, CommitTypes
  <1>3. CASE \E r \in Request : Request1(r)
    <2>1. PICK r \in Request : Request1(r)
      BY <1>3
    <2>2. UNCHANGED <<users, apps, log, next>>
      BY <2>1, Zenon DEF Request1, Arrive, RequestStep, CheckCredential, RejectCredential, CheckApplication,
         RejectApplication, ReadScopes, Authenticate, Serve, Forbid, Deny, rows
    <2>3. \A c \in DOMAIN creds : c \in DOMAIN creds' /\ creds'[c].app = creds[c].app
      <3>1. CASE UNCHANGED creds
        BY <3>1
      <3>2. CASE Authenticate(r)
        BY <3>2 DEF IInv, TypeOK, RowTypes, Credential, Authenticate, Touched
      <3>. QED
        BY <2>1, <3>1, <3>2, Zenon DEF Request1, Arrive, RequestStep, CheckCredential, RejectCredential,
           CheckApplication, RejectApplication, ReadScopes, Serve, Forbid, Deny, rows
    <2>4. Growth
      BY <2>2, <2>3 DEF Growth, IInv, TypeOK, RowTypes
    <2>. QED
      BY <2>1, <2>4, RequestTypesKept
  <1>4. CASE UNCHANGED vars
    BY <1>4 DEF vars, IInv, TypeOK, RowTypes, SessionTypes, RequestTypes, Growth
  <1>. QED
    BY <1>1, <1>2, <1>3, <1>4, StepCases

\* What a request does to the sessions: nothing.
LEMMA RequestQuiet ==
    ASSUME NEW r \in Request, Request1(r)
    PROVE  UNCHANGED <<users, apps, log, next, pc, cmd, seen, holds>>
  BY Zenon DEF Request1, Arrive, RequestStep, CheckCredential, RejectCredential, CheckApplication,
     RejectApplication, ReadScopes, Authenticate, Serve, Forbid, Deny, rows, cli

\* What work before the commit leaves alone.
LEMMA WorkQuiet ==
    ASSUME NEW o \in Operator, Work(o)
    PROVE  Quiet /\ UNCHANGED <<at, ctx, served>>
  BY Zenon DEF Quiet, Work, Invoke, ReadRows, LoadRow, RefuseBootstrap, ReadVersion,
     LockStream, Conflict, Crash, rows, http

-----------------------------------------------------------------------------
\* Commands keep referring to rows that exist: rows are not deleted.
LEMMA RefersKept ==
    ASSUME IInv, [Next]_vars
    PROVE  CommandsRefer'
  <1>1. RowTypes /\ SessionTypes /\ CommandsRefer /\ Growth
    BY StepTypes DEF IInv, TypeOK
  <1>2. \A p \in Operator : cmd'[p] = cmd[p] /\ Names(cmd[p]) => Names(cmd[p])'
    BY <1>1 DEF Growth, Names
  <1>3. ASSUME NEW o \in Operator, End(o) PROVE CommandsRefer'
    <2>1. \A p \in Operator : p # o => pc'[p] = pc[p] /\ cmd'[p] = cmd[p]
      BY <1>1, <1>3 DEF SessionTypes, End, Goto
    <2>2. pc'[o] = "idle"
      BY <1>1, <1>3 DEF SessionTypes, End, Goto
    <2>. QED
      BY <1>1, <1>2, <2>1, <2>2 DEF CommandsRefer, Versioned
  <1>4. ASSUME NEW o \in Operator, NEW l, Goto(o, l), UNCHANGED cmd, Names(cmd[o]),
               l = "load" => cmd[o].op \in {"enable", "disable", "grant", "withdraw"},
               l = "version" => Versioned(cmd[o])
        PROVE  CommandsRefer'
    BY <1>1, <1>2, <1>4 DEF SessionTypes, CommandsRefer, Versioned, Goto
  <1>5. ASSUME NEW o \in Operator, Work(o) PROVE CommandsRefer'
    <2>1. ASSUME NEW c \in Command, Invoke(o, c) PROVE CommandsRefer'
      <3>1. Names(c) /\ UNCHANGED <<users, apps, creds>>
        BY <1>1, <2>1, CommandNames DEF Invoke, rows
      <3>2. /\ pc' = [pc EXCEPT ![o] = "read"] /\ cmd' = [cmd EXCEPT ![o] = c]
        BY <2>1 DEF Invoke, Goto
      <3>3. Names(cmd[o])'
        BY <1>1, <3>1, <3>2 DEF SessionTypes, Names
      <3>. QED
        BY <1>1, <1>2, <3>2, <3>3 DEF SessionTypes, CommandsRefer, Versioned
    <2>2. CASE ReadRows(o)
      BY <1>1, <1>4, <2>2 DEF ReadRows, CommandsRefer, AfterRead
    <2>3. CASE LoadRow(o)
      <3>1. Goto(o, IF Versioned(cmd[o]) THEN "version" ELSE "commit") /\ UNCHANGED cmd /\ Names(cmd[o])
        BY <1>1, <2>3 DEF LoadRow, CommandsRefer
      <3>. QED
        BY <1>4, <3>1
    <2>4. CASE ReadVersion(o)
      <3>1. Goto(o, "lock") /\ UNCHANGED cmd /\ Names(cmd[o])
        BY <1>1, <2>4 DEF ReadVersion, CommandsRefer
      <3>. QED
        BY <1>4, <3>1
    <2>5. CASE LockStream(o)
      <3>1. Goto(o, "commit") /\ UNCHANGED cmd /\ Names(cmd[o])
        BY <1>1, <2>5 DEF LockStream, CommandsRefer
      <3>. QED
        BY <1>4, <3>1
    <2>6. CASE RefuseBootstrap(o) \/ Conflict(o) \/ Crash(o)
      BY <1>3, <2>6 DEF RefuseBootstrap, Conflict, Crash
    <2>. QED
      BY <1>5, <2>1, <2>2, <2>3, <2>4, <2>5, <2>6 DEF Work
  <1>6. ASSUME NEW o \in Operator, Commit(o) PROVE CommandsRefer'
    BY <1>3, <1>6, CommitShape
  <1>7. ASSUME UNCHANGED <<pc, cmd>> PROVE CommandsRefer'
    BY <1>1, <1>2, <1>7 DEF CommandsRefer, Versioned
  <1>. QED
    BY <1>5, <1>6, <1>7, StepCases, RequestQuiet DEF vars

\* The ledger names no identifier that is yet to come, and a new row takes one that
\* no row has.
LEMMA IdsKept ==
    ASSUME IInv, [Next]_vars
    PROVE  IdsUnique'
  <1>1. RowTypes /\ RowTypes' /\ SessionTypes /\ CommandsRefer /\ IdsUnique /\ Growth
    BY StepTypes DEF IInv, TypeOK
  <1>2. ASSUME NEW o \in Operator, Commit(o) PROVE IdsUnique'
    <2>1. Names(cmd[o]) /\ CommitEvent(o) \in Event
      BY <1>2, CommitShape
    <2>2. DOMAIN apps' \cap DOMAIN creds' = {}
      BY <1>1, <1>2 DEF IdsUnique, RowTypes, Commit, CommitBootstrap, CommitRegister, CommitStatus,
         CommitCreate, CommitRotate, CommitRevoke, CommitScope, Insert
    <2>3. /\ CommitEvent(o).agg <= next /\ CommitEvent(o).old < next
          /\ CommitEvent(o).agg = next => cmd[o].op \notin {"revoke", "grant", "withdraw"}
      <3>1. /\ next \in Nat \ {0} /\ next \notin DOMAIN apps /\ next \notin DOMAIN creds
            /\ cmd[o].op \in {"rotate", "revoke", "grant", "withdraw"} => cmd[o].on \in Nat /\ cmd[o].on < next
        BY <1>1, <2>1 DEF RowTypes, Names
      <3>. QED
        <4>1. CASE cmd[o].op \in {"revoke", "grant", "withdraw"}
          <5>1. CommitEvent(o).agg = cmd[o].on /\ CommitEvent(o).old = 0
            BY <4>1 DEF CommitEvent, NextEvent, None
          <5>. QED
            BY <2>1, <3>1, <4>1, <5>1 DEF Names
        <4>2. CASE cmd[o].op \notin {"revoke", "grant", "withdraw"}
          <5>1. /\ CommitEvent(o).agg = next /\ CommitEvent(o).old \in {0, cmd[o].on}
                /\ (CommitEvent(o).old = cmd[o].on => cmd[o].op = "rotate" \/ cmd[o].on = 0)
            BY <4>2 DEF CommitEvent, NewEvent, None
          <5>. QED
            BY <2>1, <3>1, <4>2, <5>1 DEF Names
        <4>. QED
          BY <4>1, <4>2
    <2>4. cmd[o].op \notin {"revoke", "grant", "withdraw", "enable", "disable"} => next' = next + 1
      BY <1>2 DEF Commit, CommitBootstrap, CommitRegister, CommitStatus,
         CommitCreate, CommitRotate, CommitRevoke, CommitScope
    <2> \A i \in DOMAIN log : log[i].agg < next' /\ log[i].old < next'
      <3>1. \A i \in DOMAIN log : log[i] \in Event
        BY <1>1 DEF RowTypes
      <3>2. next \in Nat /\ next' \in Nat /\ next <= next'
        BY <1>1 DEF RowTypes, Growth
      <3>. QED
        BY <1>1, <3>1, <3>2 DEF IdsUnique, Event
    <2>5. CASE log' = log
      BY <2>2, <2>5 DEF IdsUnique
    <2>6. CASE cmd[o].op \notin {"enable", "disable"} /\ log' = log \o <<CommitEvent(o)>>
      <3>1. DOMAIN log' = DOMAIN log \cup {Len(log) + 1} /\ log'[Len(log) + 1] = CommitEvent(o)
            /\ \A i \in DOMAIN log : log'[i] = log[i]
        BY <1>1, <2>1, <2>6, LogGrows DEF RowTypes
      <3>2. \A i \in DOMAIN log : log'[i].agg < next' /\ log'[i].old < next'
        BY <3>1
      <3>3. CommitEvent(o).agg < next' /\ CommitEvent(o).old < next'
        <4>1. /\ next \in Nat /\ next' \in Nat /\ next <= next'
              /\ CommitEvent(o).agg \in Nat /\ CommitEvent(o).old \in Nat
          BY <1>1, <2>1 DEF RowTypes, Growth, Event
        <4>2. CommitEvent(o).agg = next => next' = next + 1
          BY <2>3, <2>4, <2>6
        <4>. QED
          BY <2>3, <4>1, <4>2
      <3>. QED
        BY <2>2, <3>1, <3>2, <3>3 DEF IdsUnique
    <2>. QED
      BY <1>2, <2>5, <2>6, CommitShape
  <1>3. ASSUME UNCHANGED <<apps, log, next>>, DOMAIN creds' = DOMAIN creds PROVE IdsUnique'
    BY <1>1, <1>3 DEF IdsUnique
  <1>4. ASSUME NEW r \in Request, Request1(r) PROVE DOMAIN creds' = DOMAIN creds
    BY <1>4 DEF Request1, Arrive, RequestStep, CheckCredential, RejectCredential, CheckApplication,
       RejectApplication, ReadScopes, Authenticate, Serve, Forbid, Deny, rows
  <1>. QED
    BY <1>2, <1>3, <1>4, StepCases, RequestQuiet, WorkQuiet DEF vars, Quiet

\* Commands about the same aggregate lock the same stream.
LEMMA OwnersAgree ==
    ASSUME IInv, NEW o \in Operator, Versioned(cmd[o]), Names(cmd[o])
    PROVE  /\ OwnerOf(cmd[o]) \in users /\ OwnerOf(cmd[o]) # None /\ cmd[o].on < next
           /\ \A p \in Operator : Versioned(cmd[p]) /\ Names(cmd[p]) /\ cmd[p].on = cmd[o].on =>
                 OwnerOf(cmd[p]) = OwnerOf(cmd[o])
           /\ Growth /\ cmd'[o] = cmd[o] => OwnerOf(cmd[o])' = OwnerOf(cmd[o])
  <1>1. RowTypes /\ SessionTypes /\ IdsUnique
    BY DEF IInv, TypeOK
  <1>2. CASE cmd[o].op = "revoke"
    <2>1. OwnerOf(cmd[o]) = apps[creds[cmd[o].on].app].owner /\ cmd[o].on \in DOMAIN creds
          /\ creds[cmd[o].on].app \in DOMAIN apps
      BY <1>1, <1>2 DEF OwnerOf, Names, RowTypes
    <2>2. \A p \in Operator : Versioned(cmd[p]) /\ Names(cmd[p]) /\ cmd[p].on = cmd[o].on => cmd[p].op = "revoke"
      BY <1>1, <2>1 DEF Versioned, Names, IdsUnique
    <2>3. Growth /\ cmd'[o] = cmd[o] => OwnerOf(cmd[o])' = OwnerOf(cmd[o])
      BY <1>2, <2>1 DEF OwnerOf, Growth
    <2>. QED
      BY <1>1, <2>1, <2>2, <2>3 DEF OwnerOf, RowTypes, None
  <1>3. CASE cmd[o].op \in {"grant", "withdraw"}
    <2>1. OwnerOf(cmd[o]) = apps[cmd[o].on].owner /\ cmd[o].on \in DOMAIN apps
      BY <1>3 DEF OwnerOf, Names
    <2>2. \A p \in Operator : Versioned(cmd[p]) /\ Names(cmd[p]) /\ cmd[p].on = cmd[o].on =>
             cmd[p].op \in {"grant", "withdraw"}
      BY <1>1, <2>1 DEF Versioned, Names, IdsUnique
    <2>3. Growth /\ cmd'[o] = cmd[o] => OwnerOf(cmd[o])' = OwnerOf(cmd[o])
      BY <1>3, <2>1 DEF OwnerOf, Growth
    <2>. QED
      BY <1>1, <2>1, <2>2, <2>3 DEF OwnerOf, RowTypes, None
  <1>. QED
    BY <1>2, <1>3 DEF Versioned

\* The event of a commit carries the version after the latest of its aggregate.
LEMMA CommitVersion ==
    ASSUME IInv, NEW o \in Operator, Commit(o)
    PROVE  /\ CommitEvent(o).ver = Latest(log, CommitEvent(o).agg) + 1
           /\ Versioned(cmd[o]) => CommitEvent(o).agg = cmd[o].on
           /\ ~Versioned(cmd[o]) => CommitEvent(o).agg = next
  <1>1. RowTypes /\ IdsUnique /\ LocksHeld /\ pc[o] = "commit"
    BY CommitShape DEF IInv, TypeOK
  <1>2. CASE Versioned(cmd[o])
    <2>1. CommitEvent(o).agg = cmd[o].on /\ CommitEvent(o).ver = seen[o].ver + 1
      BY <1>2 DEF Versioned, CommitEvent, NextEvent
    <2>. QED
      BY <1>1, <1>2, <2>1 DEF LocksHeld, LatestVersion
  <1>3. CASE ~Versioned(cmd[o])
    <2>1. CommitEvent(o).agg = next /\ CommitEvent(o).ver = 1
      BY <1>3 DEF Versioned, CommitEvent, NewEvent
    <2>2. \A j \in DOMAIN log : log[j].agg # next
      BY <1>1 DEF IdsUnique, RowTypes
    <2>3. Latest(log, next) = 0
      BY <1>1, <2>2, LatestOfNew DEF RowTypes
    <2>. QED
      BY <1>3, <2>1, <2>3
  <1>. QED
    BY <1>2, <1>3

\* Every step keeps the numbering: the version is compared again under the lock.
LEMMA VersionsKept ==
    ASSUME IInv, [Next]_vars
    PROVE  VersionsContiguous'
  <1>1. RowTypes /\ VersionsContiguous
    BY DEF IInv, TypeOK
  <1>2. CASE UNCHANGED log
    BY <1>1, <1>2 DEF VersionsContiguous, Contiguous, Earlier
  <1>3. ASSUME NEW o \in Operator, Commit(o) PROVE VersionsContiguous'
    <2>1. CASE log' = log \o <<CommitEvent(o)>>
      <3>1. log' = Append(log, CommitEvent(o)) /\ CommitEvent(o) \in Event
        BY <1>1, <1>3, <2>1, CommitShape, LogGrows DEF RowTypes
      <3>2. Contiguous(Append(log, CommitEvent(o)))
        BY <1>1, <1>3, <3>1, CommitVersion, AppendContiguous DEF RowTypes, VersionsContiguous
      <3>. QED
        BY <3>1, <3>2 DEF VersionsContiguous
    <2>. QED
      BY <1>2, <1>3, <2>1, CommitShape
  <1>. QED
    BY <1>2, <1>3, StepCases, RequestQuiet, WorkQuiet DEF vars, Quiet

\* The version that was read is still the latest when the event is written, because
\* whoever else could write one about the aggregate needs the same lock.
LEMMA LocksKept ==
    ASSUME IInv, [Next]_vars
    PROVE  LocksHeld'
  <1>1. RowTypes /\ SessionTypes /\ CommandsRefer /\ IdsUnique /\ LocksHeld /\ Growth
    BY StepTypes DEF IInv, TypeOK
  <1>2. ASSUME NEW o \in Operator, End(o),
               \A q \in Operator : q # o /\ pc[q] = "commit" /\ Versioned(cmd[q]) =>
                  LatestVersion(cmd[q].on)' = LatestVersion(cmd[q].on)
        PROVE  LocksHeld'
    <2>1. /\ pc'[o] = "idle" /\ holds'[o] = None
          /\ \A q \in Operator : q # o => /\ pc'[q] = pc[q] /\ cmd'[q] = cmd[q]
                                          /\ seen'[q] = seen[q] /\ holds'[q] = holds[q]
      BY <1>1, <1>2 DEF SessionTypes, End, Goto
    <2>2. \A q \in Operator : q # o /\ pc[q] = "commit" /\ Versioned(cmd[q]) =>
             OwnerOf(cmd[q])' = OwnerOf(cmd[q])
      BY <1>1, <2>1, OwnersAgree DEF CommandsRefer
    <2>3. \A p, q \in Operator : p # q /\ holds'[p] # None => holds'[p] # holds'[q]
      BY <1>1, <2>1 DEF LocksHeld
    <2>4. ASSUME NEW q \in Operator, pc'[q] = "commit", Versioned(cmd'[q])
          PROVE  holds'[q] = OwnerOf(cmd[q])' /\ seen'[q].ver = LatestVersion(cmd[q].on)'
      <3>1. q # o /\ pc[q] = "commit" /\ Versioned(cmd[q])
        BY <2>1, <2>4 DEF Versioned
      <3>. QED
        BY <1>1, <1>2, <2>1, <2>2, <3>1 DEF LocksHeld
    <2>. QED
      BY <2>3, <2>4 DEF LocksHeld, Versioned
  <1>3. ASSUME Quiet PROVE \A q \in Operator : cmd'[q] = cmd[q] =>
           LatestVersion(cmd[q].on)' = LatestVersion(cmd[q].on) /\ OwnerOf(cmd[q])' = OwnerOf(cmd[q])
    BY <1>3 DEF Quiet, LatestVersion, OwnerOf
  <1>4. ASSUME NEW o \in Operator, Quiet, UNCHANGED <<cmd, holds>>,
               \A q \in Operator : pc'[q] = "commit" /\ Versioned(cmd[q]) => pc[q] = "commit" /\ seen'[q] = seen[q]
        PROVE  LocksHeld'
    BY <1>1, <1>3, <1>4 DEF LocksHeld, Versioned
  <1>5. ASSUME NEW o \in Operator, Work(o) PROVE LocksHeld'
    <2>1. Quiet
      BY <1>5, WorkQuiet
    <2>2. CASE RefuseBootstrap(o) \/ Conflict(o) \/ Crash(o)
      <3>1. End(o) /\ \A q \in Operator : LatestVersion(cmd[q].on)' = LatestVersion(cmd'[q].on)
        BY <2>1, <2>2 DEF RefuseBootstrap, Conflict, Crash, Quiet, LatestVersion
      <3>2. \A q \in Operator : q # o => cmd'[q] = cmd[q]
        BY <1>1, <3>1 DEF SessionTypes, End
      <3>. QED
        BY <1>2, <1>3, <2>1, <3>1, <3>2
    <2>3. ASSUME NEW c \in Command, Invoke(o, c) PROVE LocksHeld'
      <3>1. UNCHANGED <<seen, holds>> /\ pc' = [pc EXCEPT ![o] = "read"] /\ cmd' = [cmd EXCEPT ![o] = c]
        BY <2>3 DEF Invoke, Goto
      <3>2. \A q \in Operator : pc'[q] = "commit" => pc[q] = "commit" /\ cmd'[q] = cmd[q]
        BY <1>1, <3>1 DEF SessionTypes
      <3>. QED
        BY <1>1, <1>3, <2>1, <3>1, <3>2 DEF LocksHeld, Versioned
    <2>4. CASE ReadRows(o) \/ ReadVersion(o)
      <3>1. UNCHANGED <<cmd, holds>> /\ \E l \in {"load", "version", "lock"} : pc' = [pc EXCEPT ![o] = l]
        BY <2>4 DEF ReadRows, ReadVersion, Goto, AfterRead
      <3>2. \A q \in Operator : q # o => seen'[q] = seen[q]
        BY <1>1, <2>4 DEF SessionTypes, ReadRows, ReadVersion
      <3>. QED
        BY <1>1, <1>4, <2>1, <3>1, <3>2 DEF SessionTypes
    <2>5. CASE LoadRow(o)
      <3>1. UNCHANGED <<cmd, holds>> /\ pc' = [pc EXCEPT ![o] = IF Versioned(cmd[o]) THEN "version" ELSE "commit"]
        BY <2>5 DEF LoadRow, Goto
      <3>2. \A q \in Operator : q # o => seen'[q] = seen[q] /\ pc'[q] = pc[q]
        BY <1>1, <2>5, <3>1 DEF SessionTypes, LoadRow
      <3>3. Versioned(cmd[o]) => pc'[o] = "version"
        BY <1>1, <3>1 DEF SessionTypes
      <3>. QED
        BY <1>4, <2>1, <3>1, <3>2, <3>3
    <2>6. CASE LockStream(o)
      <3>1. /\ UNCHANGED <<cmd, seen>> /\ Free(OwnerOf(cmd[o])) /\ ~Stale(o)
            /\ holds' = [holds EXCEPT ![o] = OwnerOf(cmd[o])] /\ pc' = [pc EXCEPT ![o] = "commit"]
        BY <2>6 DEF LockStream, Goto
      <3>2. \A p, q \in Operator : p # q /\ holds'[p] # None => holds'[p] # holds'[q]
        BY <1>1, <3>1 DEF LocksHeld, Free, SessionTypes
      <3>3. ASSUME NEW q \in Operator, pc'[q] = "commit", Versioned(cmd[q])
            PROVE  holds'[q] = OwnerOf(cmd[q])' /\ seen'[q].ver = LatestVersion(cmd[q].on)'
        <4>1. CASE q = o
          BY <1>1, <1>3, <2>1, <3>1, <3>3, <4>1 DEF SessionTypes, Stale
        <4>2. CASE q # o
          BY <1>1, <1>3, <2>1, <3>1, <3>3, <4>2 DEF SessionTypes, LocksHeld
        <4>. QED
          BY <4>1, <4>2
      <3>. QED
        BY <3>1, <3>2, <3>3 DEF LocksHeld, Versioned
    <2>. QED
      BY <1>5, <2>2, <2>3, <2>4, <2>5, <2>6 DEF Work
  <1>6. ASSUME NEW o \in Operator, Commit(o) PROVE LocksHeld'
    <2>1. End(o) /\ pc[o] = "commit" /\ Names(cmd[o]) /\ CommitEvent(o) \in Event /\ log \in Seq(Event)
      BY <1>1, <1>6, CommitShape DEF RowTypes
    <2>2. ASSUME NEW q \in Operator, q # o, pc[q] = "commit", Versioned(cmd[q])
          PROVE  LatestVersion(cmd[q].on)' = LatestVersion(cmd[q].on)
      <3>1. cmd'[q] = cmd[q]
        BY <1>1, <2>1, <2>2 DEF SessionTypes, End
      <3>2. CASE log' = log
        BY <3>1, <3>2 DEF LatestVersion
      <3>3. CASE log' = log \o <<CommitEvent(o)>>
        <4>1. OwnerOf(cmd[q]) # None /\ cmd[q].on < next /\ holds[q] = OwnerOf(cmd[q]) /\ Names(cmd[q])
          BY <1>1, <2>2, OwnersAgree DEF CommandsRefer, LocksHeld
        <4>2. CommitEvent(o).agg # cmd[q].on
          <5>1. CASE Versioned(cmd[o])
            <6>1. holds[o] = OwnerOf(cmd[o]) /\ CommitEvent(o).agg = cmd[o].on
              BY <1>1, <1>6, <2>1, <5>1, CommitVersion DEF LocksHeld
            <6>2. cmd[o].on = cmd[q].on => OwnerOf(cmd[o]) = OwnerOf(cmd[q])
              BY <2>1, <2>2, <4>1, <5>1, OwnersAgree
            <6>. QED
              BY <1>1, <2>2, <4>1, <6>1, <6>2 DEF LocksHeld
          <5>2. CASE ~Versioned(cmd[o])
            BY <1>1, <1>6, <4>1, <5>2, CommitVersion DEF RowTypes
          <5>. QED
            BY <5>1, <5>2
        <4>3. Latest(Append(log, CommitEvent(o)), cmd[q].on) = Latest(log, cmd[q].on)
          BY <2>1, <4>2, LatestAfterOther
        <4>4. log' = Append(log, CommitEvent(o))
          BY <2>1, <3>3, LogGrows
        <4>. QED
          BY <3>1, <4>3, <4>4 DEF LatestVersion
      <3>. QED
        BY <1>6, <3>2, <3>3, CommitShape
    <2>. QED
      BY <1>2, <2>1, <2>2
  <1>7. ASSUME UNCHANGED <<log, apps, pc, cmd, seen, holds>> PROVE LocksHeld'
    <2>1. \A q \in Operator : pc[q] = "commit" /\ Versioned(cmd[q]) => OwnerOf(cmd[q])' = OwnerOf(cmd[q])
      BY <1>1, <1>7, OwnersAgree DEF CommandsRefer
    <2>. QED
      BY <1>1, <1>7, <2>1 DEF LocksHeld, LatestVersion, Versioned
  <1>. QED
    BY <1>5, <1>6, <1>7, StepCases, RequestQuiet DEF vars

-----------------------------------------------------------------------------
\* The rows of the credentials after a commit, and what its event says of them.
LEMMA CredentialsKept ==
    ASSUME IInv, [Next]_vars
    PROVE  CredentialsFollowLedger'
  <1> DEFINE Issued(l, i, c, a) ==
                 l[i].kind \in {"CredentialCreated", "CredentialRotated"} /\ l[i].agg = c /\ l[i].app = a
             Withdrawn(l, i, c) ==
                 \/ l[i].kind = "CredentialRevoked" /\ l[i].agg = c
                 \/ l[i].kind = "CredentialRotated" /\ l[i].old = c
  <1>1. RowTypes /\ SessionTypes /\ IdsUnique /\ CredentialsFollowLedger /\ Growth
    BY StepTypes DEF IInv, TypeOK
  <1>2. \A i \in DOMAIN log : i \in DOMAIN log' /\ log'[i] = log[i]
    BY <1>1 DEF Growth
  <1>3. ASSUME UNCHANGED log, DOMAIN creds' = DOMAIN creds,
               \A c \in DOMAIN creds : creds'[c].app = creds[c].app /\ creds'[c].status = creds[c].status
        PROVE  CredentialsFollowLedger'
    BY <1>1, <1>3 DEF CredentialsFollowLedger, Issues, Withdraws
  <1>4. ASSUME NEW o \in Operator, Commit(o) PROVE CredentialsFollowLedger'
    <2> DEFINE e == CommitEvent(o)
               n == Len(log) + 1
    <2>1. Names(cmd[o]) /\ e \in Event /\ log \in Seq(Event)
      <3>1. log \in Seq(Event)
        BY <1>1 DEF RowTypes
      <3>. QED
        BY <1>4, <3>1, CommitShape
    <2>2. CASE CommitStatus(o)
      <3>1. UNCHANGED <<creds, log>>
        BY <2>1, <2>2, LogStays DEF CommitStatus, Commits
      <3>. QED
        BY <1>3, <3>1
    <2>3. CASE ~CommitStatus(o)
      <3>1. log' = log \o <<e>>
        BY <1>4, <2>3, CommitShape DEF Commit, CommitBootstrap, CommitRegister, CommitCreate,
           CommitRotate, CommitRevoke, CommitScope
      <3>2. DOMAIN log' = DOMAIN log \cup {n} /\ log'[n] = e
        BY <2>1, <3>1, LogGrows
      <3> HIDE DEF n
      <3>3. CASE CommitBootstrap(o) \/ CommitRegister(o) \/ CommitScope(o)
        <4>1. UNCHANGED creds
          BY <3>3 DEF CommitBootstrap, CommitRegister, CommitScope
        <4>2. e.kind \notin {"CredentialCreated", "CredentialRotated", "CredentialRevoked"}
          BY <3>3 DEF CommitBootstrap, CommitRegister, CommitScope, CommitEvent, NewEvent, NextEvent
        <4>. QED
          BY <1>1, <1>2, <3>2, <4>1, <4>2 DEF CredentialsFollowLedger, Issues, Withdraws
      <3>4. CASE CommitCreate(o)
        <4>1. /\ DOMAIN creds' = DOMAIN creds \cup {next} /\ next \notin DOMAIN creds
              /\ creds'[next] = FreshCredential(cmd[o].on)
              /\ \A c \in DOMAIN creds : creds'[c] = creds[c]
          BY <1>1, <3>4 DEF CommitCreate, Insert, RowTypes
        <4>2. e.kind = "CredentialCreated" /\ e.agg = next /\ e.app = cmd[o].on
          BY <3>4 DEF CommitCreate, CommitEvent, NewEvent
        <4>3. \A i \in DOMAIN log : ~Withdraws(i, next)
          BY <1>1 DEF IdsUnique, RowTypes, Withdraws
        <4>4. \A c : ~Withdrawn(log', n, c) /\ (Issued(log', n, c, cmd[o].on) <=> c = next)
          BY <3>2, <4>2
        <4>. QED
          BY <1>1, <1>2, <3>2, <4>1, <4>2, <4>3, <4>4
          DEF CredentialsFollowLedger, Issues, Withdraws, FreshCredential
      <3>5. CASE CommitRotate(o)
        <4> DEFINE old == cmd[o].on
        <4>1. /\ DOMAIN creds' = DOMAIN creds \cup {next} /\ next \notin DOMAIN creds
              /\ creds'[next] = FreshCredential(creds[old].app)
              /\ old \in DOMAIN creds
              /\ \A c \in DOMAIN creds : creds'[c] = IF c = old THEN [creds[c] EXCEPT !.status = "REVOKED"] ELSE creds[c]
          <5> DEFINE table == [creds EXCEPT ![old].status = "REVOKED"]
          <5>1. creds' = Insert(table, FreshCredential(creds[old].app)) /\ old \in DOMAIN creds
            BY <2>1, <3>5 DEF CommitRotate, Names
          <5>2. next \notin DOMAIN creds
            BY <1>1 DEF RowTypes
          <5>3. /\ DOMAIN table = DOMAIN creds
                /\ \A c \in DOMAIN creds : table[c] = IF c = old THEN [creds[c] EXCEPT !.status = "REVOKED"] ELSE creds[c]
            OBVIOUS
          <5> HIDE DEF table, old
          <5>. QED
            BY <5>1, <5>2, <5>3 DEF Insert
        <4>2. e.kind = "CredentialRotated" /\ e.agg = next /\ e.app = creds[old].app /\ e.old = old
          BY <3>5 DEF CommitRotate, CommitEvent, NewEvent
        <4>3. \A i \in DOMAIN log : ~Withdraws(i, next)
          BY <1>1 DEF IdsUnique, RowTypes, Withdraws
        <4>4. \A c : Withdrawn(log', n, c) <=> c = old
          BY <3>2, <4>2
        <4>5. Issued(log', n, next, creds[old].app)
          BY <3>2, <4>2
        <4>6. \A c \in DOMAIN creds : creds[c] \in Credential
          BY <1>1 DEF RowTypes
        <4>7. /\ creds'[next].app = creds[old].app /\ creds'[next].status = "ACTIVE"
              /\ \A c \in DOMAIN creds : /\ creds'[c].app = creds[c].app
                                         /\ creds'[c].status = IF c = old THEN "REVOKED" ELSE creds[c].status
          BY <4>1, <4>6 DEF FreshCredential, Credential
        <4>8. next # old
          BY <4>1
        <4> HIDE DEF e, old
        <4>. QED
          BY <1>1, <1>2, <3>2, <4>1, <4>2, <4>3, <4>4, <4>5, <4>7, <4>8
          DEF CredentialsFollowLedger, Issues, Withdraws
      <3>6. CASE CommitRevoke(o)
        <4> DEFINE c0 == cmd[o].on
        <4>1. c0 \in DOMAIN creds /\ creds' = [creds EXCEPT ![c0].status = "REVOKED"]
          BY <2>1, <3>6 DEF CommitRevoke, Names
        <4>2. e.kind = "CredentialRevoked" /\ e.agg = c0
          BY <3>6 DEF CommitRevoke, CommitEvent, NextEvent
        <4>3. \A c : Withdrawn(log', n, c) <=> c = c0
          BY <3>2, <4>2
        <4>4. /\ DOMAIN creds' = DOMAIN creds
              /\ \A c \in DOMAIN creds : /\ creds'[c].app = creds[c].app
                                         /\ creds'[c].status = IF c = c0 THEN "REVOKED" ELSE creds[c].status
          BY <1>1, <4>1 DEF RowTypes, Credential
        <4> HIDE DEF e, c0
        <4>. QED
          BY <1>1, <1>2, <3>2, <4>1, <4>2, <4>3, <4>4 DEF CredentialsFollowLedger, Issues, Withdraws
      <3>. QED
        BY <1>4, <2>3, <3>3, <3>4, <3>5, <3>6 DEF Commit
    <2>. QED
      BY <2>2, <2>3
  <1>5. ASSUME NEW r \in Request, Request1(r) PROVE CredentialsFollowLedger'
    <2>1. CASE UNCHANGED creds
      BY <1>3, <1>5, <2>1, RequestQuiet
    <2>2. CASE Authenticate(r)
      BY <1>1, <1>3, <1>5, <2>2, RequestQuiet DEF Authenticate, Touched, RowTypes, Credential
    <2>. QED
      BY <1>5, <2>1, <2>2, Zenon DEF Request1, Arrive, RequestStep, CheckCredential, RejectCredential,
         CheckApplication, RejectApplication, ReadScopes, Serve, Forbid, Deny, rows
  <1>. QED
    BY <1>3, <1>4, <1>5, StepCases, WorkQuiet DEF vars, Quiet

\* A scope list is what was granted before, or that and what this event grants,
\* however old the list it starts from is.
LEMMA ScopesKept ==
    ASSUME IInv, [Next]_vars
    PROVE  ScopesGranted'
  <1>1. RowTypes /\ SessionTypes /\ CommandsRefer /\ ScopesGranted /\ Growth
    BY StepTypes DEF IInv, TypeOK
  <1> DEFINE Given(l, a, s) ==
             \E i \in DOMAIN l : l[i].kind = "PermissionGranted" /\ l[i].agg = a /\ s \in l[i].scopes
  <1>2. \A a, s : Given(log, a, s) => Given(log', a, s)
    BY <1>1 DEF Growth
  <1> HIDE DEF Given
  <1>3. /\ \A a \in DOMAIN apps, s \in Scope : s \in apps[a].scopes => Given(log, a, s)
        /\ \A o \in Operator, s \in Scope : s \in seen[o].scopes => pc[o] # "idle" /\ Given(log, cmd[o].on, s)
    BY <1>1 DEF ScopesGranted, Given, Grants
  <1> SUFFICES
        /\ \A a \in DOMAIN apps', s \in Scope : s \in apps'[a].scopes => Given(log', a, s)
        /\ \A o \in Operator, s \in Scope : s \in seen'[o].scopes => pc'[o] # "idle" /\ Given(log', cmd'[o].on, s)
    BY DEF ScopesGranted, Given, Grants
  <1>4. ASSUME NEW o \in Operator, End(o)
        PROVE  \A p \in Operator, s \in Scope : s \in seen'[p].scopes => pc'[p] # "idle" /\ Given(log', cmd'[p].on, s)
    <2>1. /\ seen'[o] = NothingSeen
          /\ \A q \in Operator : q # o => pc'[q] = pc[q] /\ cmd'[q] = cmd[q] /\ seen'[q] = seen[q]
      BY <1>1, <1>4 DEF SessionTypes, End, Goto
    <2>. QED
      BY <1>2, <1>3, <2>1 DEF NothingSeen
  <1>5. ASSUME NEW o \in Operator, Work(o)
        PROVE  \A p \in Operator, s \in Scope : s \in seen'[p].scopes => pc'[p] # "idle" /\ Given(log', cmd'[p].on, s)
    <2>1. ASSUME NEW c \in Command, Invoke(o, c) PROVE seen'[o].scopes \cap Scope = {}
      BY <1>1, <1>3, <2>1 DEF Invoke, SessionTypes
    <2>2. ASSUME NEW l, l # "idle", Goto(o, l), UNCHANGED cmd,
                 \A q \in Operator : q # o => seen'[q] = seen[q],
                 \A s \in Scope : s \in seen'[o].scopes => Given(log, cmd[o].on, s)
          PROVE  \A p \in Operator, s \in Scope : s \in seen'[p].scopes => pc'[p] # "idle" /\ Given(log', cmd'[p].on, s)
      <3>1. pc'[o] = l /\ \A q \in Operator : q # o => pc'[q] = pc[q]
        BY <1>1, <2>2 DEF SessionTypes, Goto
      <3>. QED
        BY <1>2, <1>3, <2>2, <3>1
    <2>3. ASSUME NEW c \in Command, Invoke(o, c)
          PROVE  \A p \in Operator, s \in Scope : s \in seen'[p].scopes => pc'[p] # "idle" /\ Given(log', cmd'[p].on, s)
      <3>1. \A q \in Operator : q # o => pc'[q] = pc[q] /\ cmd'[q] = cmd[q] /\ seen'[q] = seen[q]
        BY <1>1, <2>3 DEF SessionTypes, Invoke, Goto
      <3>. QED
        BY <1>2, <1>3, <2>1, <2>3, <3>1
    <2>4. CASE ReadRows(o)
      <3>1. UNCHANGED cmd /\ \E l \in {"load", "version", "lock"} : Goto(o, l)
        BY <2>4 DEF ReadRows, AfterRead
      <3>2. \A q \in Operator : q # o => seen'[q] = seen[q]
        BY <1>1, <2>4 DEF SessionTypes, ReadRows
      <3>3. \A s \in Scope : s \in seen'[o].scopes => Given(log, cmd[o].on, s)
        <4>1. CASE cmd[o].op \in {"grant", "withdraw"}
          <5>1. seen'[o].scopes = apps[cmd[o].on].scopes /\ cmd[o].on \in DOMAIN apps
            BY <1>1, <2>4, <4>1 DEF SessionTypes, Sight, ReadRows, CommandsRefer, Names
          <5>. QED
            BY <1>3, <5>1
        <4>2. CASE cmd[o].op \notin {"grant", "withdraw"}
          BY <1>3, <2>4, <4>2 DEF ReadRows
        <4>. QED
          BY <4>1, <4>2
      <3>. QED
        BY <2>2, <3>1, <3>2, <3>3
    <2>5. CASE LoadRow(o) \/ ReadVersion(o) \/ LockStream(o)
      <3>1. UNCHANGED cmd /\ \E l \in {"version", "lock", "commit"} : Goto(o, l)
        BY <2>5 DEF LoadRow, ReadVersion, LockStream
      <3>2. \A q \in Operator : q # o => seen'[q] = seen[q]
        BY <1>1, <2>5 DEF SessionTypes, LoadRow, ReadVersion, LockStream
      <3>3. seen'[o].scopes = seen[o].scopes
        BY <1>1, <2>5 DEF SessionTypes, Sight, LoadRow, ReadVersion, LockStream
      <3>. QED
        BY <1>3, <2>2, <3>1, <3>2, <3>3
    <2>6. CASE RefuseBootstrap(o) \/ Conflict(o) \/ Crash(o)
      BY <1>4, <2>6 DEF RefuseBootstrap, Conflict, Crash
    <2>. QED
      BY <1>5, <2>3, <2>4, <2>5, <2>6 DEF Work
  <1>6. ASSUME NEW o \in Operator, Commit(o)
        PROVE  \A a \in DOMAIN apps', s \in Scope : s \in apps'[a].scopes => Given(log', a, s)
    <2> DEFINE a0 == cmd[o].on
    <2>1. Names(cmd[o])
      BY <1>6, CommitShape
    <2>2. CASE CommitRegister(o)
      <3>1. DOMAIN apps' = DOMAIN apps \cup {next} /\ apps'[next].scopes = {}
            /\ \A a \in DOMAIN apps : a # next => apps'[a] = apps[a]
        BY <2>2 DEF CommitRegister, Insert
      <3>. QED
        BY <1>2, <1>3, <3>1
    <2>3. CASE CommitScope(o)
      <3> DEFINE granted == cmd[o].op = "grant"
                 list == IF granted THEN seen[o].scopes \cup cmd[o].scopes ELSE seen[o].scopes \ cmd[o].scopes
      <3>1. /\ a0 \in DOMAIN apps
            /\ apps' = [apps EXCEPT ![a0].scopes = Written(apps[a0].scopes, seen[o].loaded.scopes, list)]
        BY <2>1, <2>3 DEF CommitScope, Names
      <3>2. DOMAIN apps' = DOMAIN apps /\ apps'[a0].scopes \in {apps[a0].scopes, list}
            /\ \A a \in DOMAIN apps : a # a0 => apps'[a] = apps[a]
        <4>1. apps[a0] \in Application
          BY <1>1, <3>1 DEF RowTypes
        <4>. QED
          BY <1>1, <3>1, <4>1 DEF RowTypes, Application, Written
      <3>3. \A s \in Scope : s \in list => Given(log', a0, s)
        <4>1. CASE granted
          <5>1. log' = log \o <<CommitEvent(o)>> /\ CommitEvent(o) \in Event /\ log \in Seq(Event)
            BY <1>1, <1>6, <4>1, CommitShape DEF RowTypes
          <5>2. Len(log) + 1 \in DOMAIN log' /\ log'[Len(log) + 1] = CommitEvent(o)
            BY <5>1, LogGrows
          <5>3. /\ CommitEvent(o).kind = "PermissionGranted" /\ CommitEvent(o).agg = a0
                /\ CommitEvent(o).scopes = cmd[o].scopes
            BY <4>1 DEF CommitEvent, NextEvent
          <5>4. \A s \in cmd[o].scopes : Given(log', a0, s)
            BY <5>2, <5>3 DEF Given
          <5>. QED
            BY <1>2, <1>3, <4>1, <5>4
        <4>2. CASE ~granted
          BY <1>2, <1>3, <4>2
        <4>. QED
          BY <4>1, <4>2
      <3> HIDE DEF list
      <3>. QED
        BY <1>2, <1>3, <3>1, <3>2, <3>3
    <2>4. CASE CommitStatus(o)
      <3>1. DOMAIN apps' = DOMAIN apps /\ \A a \in DOMAIN apps : apps'[a].scopes = apps[a].scopes
        BY <1>1, <2>1, <2>4 DEF CommitStatus, Names, RowTypes, Application
      <3>. QED
        BY <1>2, <1>3, <3>1
    <2>5. CASE UNCHANGED apps
      BY <1>2, <1>3, <2>5
    <2>. QED
      BY <1>6, <2>2, <2>3, <2>4, <2>5 DEF Commit, CommitBootstrap, CommitCreate, CommitRotate, CommitRevoke
  <1>7. ASSUME NEW o \in Operator, Commit(o)
        PROVE  \A p \in Operator, s \in Scope : s \in seen'[p].scopes => pc'[p] # "idle" /\ Given(log', cmd'[p].on, s)
    BY <1>4, <1>7, CommitShape
  <1>8. ASSUME UNCHANGED apps PROVE \A a \in DOMAIN apps', s \in Scope : s \in apps'[a].scopes => Given(log', a, s)
    BY <1>2, <1>3, <1>8
  <1>9. ASSUME UNCHANGED <<pc, cmd, seen>>
        PROVE  \A p \in Operator, s \in Scope : s \in seen'[p].scopes => pc'[p] # "idle" /\ Given(log', cmd'[p].on, s)
    BY <1>2, <1>3, <1>9
  <1>. QED
    BY <1>5, <1>6, <1>7, <1>8, <1>9, StepCases, RequestQuiet, WorkQuiet DEF vars, Quiet

-----------------------------------------------------------------------------
\* What a request was told about itself stays on the record while it runs: events are
\* only added, and those it counted from the start are before them.
LEMMA ContextsKept ==
    ASSUME IInv, [Next]_vars
    PROVE  ContextsRecorded'
  <1>1. RowTypes /\ RequestTypes /\ CredentialsFollowLedger /\ ScopesGranted /\ ContextsRecorded /\ Growth /\ RowTypes'
    BY StepTypes DEF IInv, TypeOK
  <1>2. /\ Len(log) \in Nat /\ DOMAIN log = 1..Len(log)
        /\ \A r \in Request : ctx[r].since \in Nat
    BY <1>1 DEF RowTypes, RequestTypes, Context
  <1> DEFINE Given(l, a, s) ==
                 \E i \in DOMAIN l : l[i].kind = "PermissionGranted" /\ l[i].agg = a /\ s \in l[i].scopes
             Untaken(l, n, c) ==
                 \A i \in 1..n : ~(\/ l[i].kind = "CredentialRevoked" /\ l[i].agg = c
                                   \/ l[i].kind = "CredentialRotated" /\ l[i].old = c)
             Fine(control, context, table, l) ==
                 /\ control # "idle" => context.cred \in DOMAIN table /\ context.since <= Len(l)
                 /\ control = "credential" => context.scopes = {}
                 /\ control \notin {"idle", "credential"} =>
                       context.app = table[context.cred].app /\ Untaken(l, context.since, context.cred)
                 /\ \A s \in Scope : control # "idle" /\ s \in context.scopes => Given(l, context.app, s)
  <1>3. \A r \in Request : Fine(at[r], ctx[r], creds, log)
    BY <1>1 DEF ContextsRecorded, Grants, Withdraws
  <1> SUFFICES ASSUME NEW r \in Request PROVE Fine(at'[r], ctx'[r], creds', log')
    BY DEF ContextsRecorded, Grants, Withdraws
  <1>4. \A a, s : Given(log, a, s) => Given(log', a, s)
    BY <1>1 DEF Growth
  <1>5. \A c : \A n \in Nat : n <= Len(log) /\ Untaken(log, n, c) => n <= Len(log') /\ Untaken(log', n, c)
    BY <1>1, <1>2 DEF Growth, RowTypes
  <1>6. CASE at'[r] = at[r] /\ ctx'[r] = ctx[r]
    <2> HIDE DEF Given, Untaken
    <2>1. \A c \in DOMAIN creds : c \in DOMAIN creds' /\ creds'[c].app = creds[c].app
      BY <1>1 DEF Growth
    <2>2. Len(log) <= Len(log') /\ Len(log') \in Nat
      BY <1>1 DEF Growth, RowTypes
    <2>. QED
      BY <1>2, <1>3, <1>4, <1>5, <1>6, <2>1, <2>2
  <1>7. CASE Request1(r)
    <2>1. UNCHANGED <<users, apps, log, next>>
      BY <1>7, RequestQuiet
    <2>2. ASSUME NEW c \in DOMAIN creds, Arrive(r, c) PROVE Fine(at'[r], ctx'[r], creds', log')
      <3>1. /\ at'[r] = "credential" /\ UNCHANGED <<creds, log>>
            /\ ctx'[r] = [NoContext EXCEPT !.cred = c, !.since = Len(log)]
        BY <1>1, <2>2 DEF Arrive, RequestTypes, rows
      <3>. QED
        BY <1>2, <3>1 DEF NoContext
    <2>3. CASE CheckCredential(r)
      <3>1. /\ at[r] = "credential" /\ at'[r] = "application" /\ UNCHANGED <<creds, log>>
            /\ creds[ctx[r].cred].status = "ACTIVE"
            /\ ctx'[r] = [ctx[r] EXCEPT !.app = creds[ctx[r].cred].app]
        BY <1>1, <2>3 DEF CheckCredential, RequestTypes, Usable, rows
      <3>2. ctx[r] \in Context
        BY <1>1 DEF RequestTypes
      <3>3. ctx'[r].cred = ctx[r].cred /\ ctx'[r].since = ctx[r].since /\ ctx'[r].scopes = ctx[r].scopes
            /\ ctx'[r].app = creds[ctx[r].cred].app
        BY <3>1, <3>2 DEF Context
      <3>4. ctx[r].cred \in DOMAIN creds /\ ctx[r].since <= Len(log) /\ ctx[r].scopes = {}
        BY <1>3, <3>1
      <3>5. Untaken(log, ctx[r].since, ctx[r].cred)
        BY <1>1, <1>2, <3>1, <3>4 DEF CredentialsFollowLedger, Withdraws
      <3> HIDE DEF Untaken, Given
      <3>. QED
        BY <3>1, <3>3, <3>4, <3>5
    <2>4. CASE CheckApplication(r)
      <3>1. at[r] = "application" /\ at'[r] = "scopes" /\ UNCHANGED <<creds, log, ctx>>
        BY <1>1, <2>4 DEF CheckApplication, RequestTypes, rows
      <3> HIDE DEF Untaken, Given
      <3>. QED
        BY <1>3, <3>1
    <2>5. CASE ReadScopes(r)
      <3>1. /\ at[r] = "scopes" /\ at'[r] = "touch" /\ UNCHANGED <<creds, log>>
            /\ ctx'[r] = [ctx[r] EXCEPT !.scopes = apps[ctx[r].app].scopes]
        BY <1>1, <2>5 DEF ReadScopes, RequestTypes, rows
      <3>2. ctx[r] \in Context
        BY <1>1 DEF RequestTypes
      <3>3. /\ ctx'[r].cred = ctx[r].cred /\ ctx'[r].since = ctx[r].since /\ ctx'[r].app = ctx[r].app
            /\ ctx'[r].scopes = apps[ctx[r].app].scopes
        BY <3>1, <3>2 DEF Context
      <3>4. /\ ctx[r].cred \in DOMAIN creds /\ ctx[r].since <= Len(log)
            /\ ctx[r].app = creds[ctx[r].cred].app /\ Untaken(log, ctx[r].since, ctx[r].cred)
        BY <1>3, <3>1
      <3>5. \A s \in Scope : s \in apps[ctx[r].app].scopes => Given(log, ctx[r].app, s)
        <4>1. ctx[r].app \in DOMAIN apps
          BY <1>1, <3>4 DEF RowTypes
        <4>. QED
          BY <1>1, <4>1 DEF ScopesGranted, Grants
      <3> HIDE DEF Untaken, Given
      <3>. QED
        BY <3>1, <3>3, <3>4, <3>5
    <2>6. CASE Authenticate(r)
      <3>1. /\ at[r] = "touch" /\ at'[r] = "serve" /\ UNCHANGED <<log, ctx>>
        BY <1>1, <2>6 DEF Authenticate, RequestTypes
      <3>2. \A c \in DOMAIN creds : c \in DOMAIN creds' /\ creds'[c].app = creds[c].app
        BY <1>1 DEF Growth
      <3> HIDE DEF Untaken, Given
      <3>. QED
        BY <1>3, <3>1, <3>2
    <2>7. ASSUME at'[r] = "idle" PROVE Fine(at'[r], ctx'[r], creds', log')
      BY <2>7
    <2>8. ASSUME NEW s \in Scope, Serve(r, s) PROVE at'[r] = "idle"
      BY <1>1, <2>8 DEF Serve, RequestTypes
    <2>9. ASSUME Deny(r) PROVE at'[r] = "idle"
      BY <1>1, <2>9 DEF Deny, RequestTypes
    <2> HIDE DEF Fine
    <2>. QED
      BY <1>7, <2>2, <2>3, <2>4, <2>5, <2>6, <2>7, <2>8, <2>9
      DEF Request1, RequestStep, RejectCredential, RejectApplication, Forbid
  <1>8. ASSUME NEW q \in Request, q # r, Request1(q) PROVE at'[r] = at[r] /\ ctx'[r] = ctx[r]
    BY <1>1, <1>8 DEF RequestTypes, Request1, Arrive, RequestStep, CheckCredential, RejectCredential,
       CheckApplication, RejectApplication, ReadScopes, Authenticate, Serve, Forbid, Deny
  <1>9. ASSUME NEW o \in Operator, Commit(o) PROVE UNCHANGED <<at, ctx>>
    BY <1>9, CommitShape DEF http
  <1> HIDE DEF Fine
  <1>. QED
    BY <1>6, <1>7, <1>8, <1>9, StepCases, WorkQuiet DEF vars

\* A request is served from its context, and its context is on the record.
LEMMA ServedKept ==
    ASSUME IInv, [Next]_vars
    PROVE  ServedInHistory' /\ AuthorityIsRecorded'
  <1>1. RowTypes /\ RowTypes' /\ RequestTypes /\ CredentialsFollowLedger /\ ContextsRecorded /\ ServedInHistory
        /\ AuthorityIsRecorded /\ Growth
    BY StepTypes DEF IInv, TypeOK
  <1> DEFINE Recorded(x, l) ==
                 /\ x.since <= Len(l)
                 /\ \E i \in DOMAIN l : /\ l[i].kind \in {"CredentialCreated", "CredentialRotated"}
                                        /\ l[i].agg = x.cred /\ l[i].app = x.app
                 /\ \A i \in 1..x.since : ~(\/ l[i].kind = "CredentialRevoked" /\ l[i].agg = x.cred
                                            \/ l[i].kind = "CredentialRotated" /\ l[i].old = x.cred)
                 /\ \E i \in DOMAIN l : l[i].kind = "PermissionGranted" /\ l[i].agg = x.app /\ x.scope \in l[i].scopes
  <1>2. \A x \in served : Recorded(x, log) /\ x.since \in Nat
    BY <1>1 DEF ServedInHistory, AuthorityIsRecorded, Issues, Withdraws, Grants, RequestTypes
  <1> SUFFICES \A x \in served' : Recorded(x, log')
    BY DEF ServedInHistory, AuthorityIsRecorded, Issues, Withdraws, Grants
  <1>3. ASSUME NEW x, x.since \in Nat, Recorded(x, log) PROVE Recorded(x, log')
    <2>1. /\ Len(log) \in Nat /\ Len(log') \in Nat /\ DOMAIN log = 1..Len(log) /\ Len(log) <= Len(log')
          /\ \A i \in DOMAIN log : i \in DOMAIN log' /\ log'[i] = log[i]
      BY <1>1 DEF Growth, RowTypes
    <2>2. \A i \in 1..x.since : i \in DOMAIN log
      BY <1>3, <2>1
    <2>. QED
      BY <1>3, <2>1, <2>2
  <1>4. CASE UNCHANGED served
    <2> HIDE DEF Recorded
    <2>. QED
      BY <1>2, <1>3, <1>4
  <1>5. ASSUME NEW r \in Request, NEW s \in Scope, Serve(r, s) PROVE \A x \in served' : Recorded(x, log')
    <2> DEFINE x0 == [cred |-> ctx[r].cred, app |-> ctx[r].app, scope |-> s, since |-> ctx[r].since]
    <2>1. served' = served \cup {x0} /\ s \in ctx[r].scopes /\ at[r] = "serve"
      BY <1>5 DEF Serve
    <2>2. ctx[r].cred \in DOMAIN creds /\ ctx[r].app = creds[ctx[r].cred].app /\ ctx[r].since <= Len(log)
      BY <1>1, <2>1 DEF ContextsRecorded
    <2>3. Recorded(x0, log)
      BY <1>1, <2>1, <2>2 DEF ContextsRecorded, CredentialsFollowLedger, Issues, Withdraws, Grants
    <2>4. x0.since \in Nat
      BY <1>1 DEF RequestTypes, Context
    <2> HIDE DEF Recorded, x0
    <2>. QED
      BY <1>2, <1>3, <2>1, <2>3, <2>4
  <1>6. ASSUME NEW r \in Request, Request1(r), ~(\E s \in Scope : Serve(r, s)) PROVE UNCHANGED served
    BY <1>6, Zenon DEF Request1, Arrive, RequestStep, CheckCredential, RejectCredential, CheckApplication,
       RejectApplication, ReadScopes, Authenticate, Forbid, Deny
  <1>7. ASSUME NEW o \in Operator, Commit(o) PROVE UNCHANGED served
    BY <1>7, CommitShape DEF http
  <1> HIDE DEF Recorded
  <1>. QED
    BY <1>4, <1>5, <1>6, <1>7, StepCases, WorkQuiet DEF vars

-----------------------------------------------------------------------------
\* The inductive invariant holds in every state.
THEOREM Invariant == Spec => []IInv
  <1>1. Init => IInv
    <2> SUFFICES ASSUME Init PROVE IInv
      OBVIOUS
    <2>1. NoCommand \in CommandForm /\ NothingSeen \in Sight /\ NoContext \in Context
      BY DEF NoCommand, Ask, NothingSeen, NoContext, CommandForm, Sight, Loaded, Columns, Context, None
    <2>2. TypeOK
      BY <2>1 DEF Init, TypeOK, RowTypes, SessionTypes, RequestTypes
    <2>3. VersionsContiguous
      BY DEF Init, VersionsContiguous, Contiguous
    <2>. QED
      BY <2>1, <2>2, <2>3 DEF Init, IInv, CommandsRefer, IdsUnique, LocksHeld, CredentialsFollowLedger,
         ScopesGranted, ContextsRecorded, ServedInHistory, AuthorityIsRecorded, NothingSeen
  <1>2. IInv /\ [Next]_vars => IInv'
    BY StepTypes, RefersKept, IdsKept, LocksKept, VersionsKept, CredentialsKept, ScopesKept, ContextsKept,
       ServedKept, Zenon DEF IInv
  <1>. QED
    BY <1>1, <1>2, PTL DEF Spec

\* Every variable keeps to its type.
THEOREM TypeCorrect == Spec => []TypeOK
  <1>1. IInv => TypeOK
    BY DEF IInv
  <1>. QED
    BY <1>1, Invariant, PTL

\* The credential rows and the ledger tell the same story.
THEOREM CredentialsFollow == Spec => []CredentialsFollowLedger
  <1>1. IInv => CredentialsFollowLedger
    BY DEF IInv
  <1>. QED
    BY <1>1, Invariant, PTL

\* What a request is served with had been given on the record.
THEOREM AuthorityRecorded == Spec => []AuthorityIsRecorded
  <1>1. IInv => AuthorityIsRecorded
    BY DEF IInv
  <1>. QED
    BY <1>1, Invariant, PTL

\* The events of every aggregate are numbered without gaps.
THEOREM Numbered == Spec => []VersionsContiguous
  <1>1. IInv => VersionsContiguous
    BY DEF IInv
  <1>. QED
    BY <1>1, Invariant, PTL

\* No row and no event is taken back, and an application keeps its owner, a credential
\* its application.
THEOREM NothingTakenBack == Spec => [][Growth]_vars
  <1>1. IInv /\ [Next]_vars => [Growth]_vars
    BY StepTypes
  <1>. QED
    BY <1>1, Invariant, PTL DEF Spec

=============================================================================
