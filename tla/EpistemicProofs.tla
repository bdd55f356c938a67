-------------------------- MODULE EpistemicProofs --------------------------
(***************************************************************************)
(* For any sessions, target and bounds: what the epistemic commands read   *)
(* before they lock the stream holds when they write, in the numbers of    *)
(* the events, the evidence, the beliefs and the hypothesis rows.          *)
(*                                                                         *)
(* The invariant turns on Settled, the last position that is no longer in  *)
(* flight: nothing that was ever read or stored is beyond it, and whatever *)
(* commits later is.                                                       *)
(*                                                                         *)
(* The second part is about rebuilds beside the commands.  Its invariant,  *)
(* RInv, compares the rows with Told, the replay of the ledger: what is live, *)
(* what a rebuild has read and what a command has looked up is told by the *)
(* events, whichever rows a rebuild has deleted meanwhile.                 *)
(***************************************************************************)
EXTENDS EpistemicProjection, AggregateVersionsProofs

\* The last position that is committed or was given up.
Settled == IF lock = NoSession THEN sequence ELSE seen[lock].base

Facts == [hyp : Nat, exp : Nat, phase : Phase \cup {"none"}, sources : SUBSET Nat, of : Nat, prev : Nat]
LogEvent == [pos : Nat, kind : Kind, agg : Nat, ver : Nat, data : Facts]
Trial == [hyp : Nat, activation : Nat]
Sight == [row : HypothesisRow, ver : Nat, late : BOOLEAN, cutoff : Nat, scanned : SUBSET Nat,
          terminal : BOOLEAN, prior : Nat, base : Nat, exp : Trial]
CommandForm == [op : {"none", "submit", "propose", "activate", "retire", "evaluate"}, on : Nat,
                phase : Phase \cup {"none"}]
Control == {"idle", "read", "version", "cutoff", "scan", "match", "prior", "lock", "commit"}

TableTypes ==
    /\ hypotheses \in [DOMAIN hypotheses -> HypothesisRow]
    /\ experiments \in [DOMAIN experiments -> Trial]
    /\ evidence \subseteq [id : Nat, exp : Nat, phase : Phase, cutoff : Nat, sources : SUBSET Nat]
    /\ beliefs \in [DOMAIN beliefs -> [hyp : Nat, evidence : Nat, prev : Nat]]
    /\ current \subseteq DOMAIN beliefs
    /\ learnings \subseteq [id : Nat, belief : Nat, prior : Nat]
    /\ overdue \subseteq DOMAIN experiments

LedgerTypes == log \in Seq(LogEvent) /\ sequence \in Nat /\ lock \in Session \cup {NoSession}

SessionTypes ==
    /\ pc \in [Session -> Control]
    /\ seen \in [Session -> Sight]
    /\ cmd \in [Session -> CommandForm]
    /\ \A s \in Session : cmd[s] \in Command \cup {NoCommand}

\* Rows refer to rows that exist, and the hypothesis of an experiment was activated.
References ==
    /\ \A e \in DOMAIN experiments :
          /\ experiments[e].hyp \in DOMAIN hypotheses
          /\ hypotheses[experiments[e].hyp].status # "PROPOSED"
    /\ \A x \in evidence : x.exp \in DOMAIN experiments
    /\ \A b \in DOMAIN beliefs :
          beliefs[b].hyp \in DOMAIN hypotheses /\ beliefs[b].prev \in DOMAIN beliefs \cup {None}
    /\ \A x \in learnings : x.belief \in DOMAIN beliefs /\ x.prior \in DOMAIN beliefs \cup {None}
    /\ \A i \in DOMAIN log : log[i].data.sources \subseteq Observations
    /\ DOMAIN experiments # {} => log # <<>>

\* Nothing that is stored, or read, is in flight.
AllSettled ==
    /\ DOMAIN hypotheses \subseteq 1..Settled /\ DOMAIN experiments \subseteq 1..Settled
    /\ DOMAIN beliefs \subseteq 1..Settled
    /\ \A e \in DOMAIN experiments : experiments[e].activation \in 1..Settled
    /\ \A i \in DOMAIN log : log[i].pos <= Settled /\ log[i].agg <= Settled
    /\ \A x \in evidence : x.cutoff <= Settled
    /\ \A s \in Session : seen[s].cutoff <= Settled

\* The stream is locked by the session that is about to commit, which has taken the
\* positions up to the last one handed out.
LockOwned ==
    /\ \A s \in Session : pc[s] = "commit" <=> lock = s
    /\ lock # NoSession => sequence = seen[lock].base + Appends(lock)

\* Where a command of each kind can be, and what it has read by then.
ViewsHold ==
    \A s \in Session :
        /\ pc[s] # "idle" => cmd[s] \in Command
        /\ pc[s] = "read" => cmd[s].op \notin {"submit", "propose"}
        /\ pc[s] = "version" => cmd[s].op \in {"activate", "retire"}
        /\ pc[s] \in {"cutoff", "scan", "match", "prior"} => cmd[s].op = "evaluate"
        /\ seen[s].prior \in DOMAIN beliefs \cup {None}
        /\ pc[s] # "read" /\ cmd[s].op = "evaluate" =>
              /\ seen[s].exp = experiments[cmd[s].on]
              /\ seen[s].row.experiment \in DOMAIN experiments
              /\ experiments[seen[s].row.experiment].hyp = seen[s].exp.hyp
        /\ pc[s] \in {"match", "prior", "lock", "commit"} /\ cmd[s].op = "evaluate" =>
              seen[s].scanned = {o \in Observations : o <= seen[s].cutoff}
        /\ pc[s] = "commit" /\ cmd[s].op \in {"activate", "retire"} =>
              seen[s].ver = LatestVersion(cmd[s].on)

\* A belief is current if and only if its hypothesis has none later.
CurrentIsLatest ==
    \A b \in DOMAIN beliefs :
        b \in current <=> \A c \in DOMAIN beliefs : beliefs[c].hyp = beliefs[b].hyp => c <= b

IInv ==
    /\ TableTypes /\ LedgerTypes /\ SessionTypes /\ References /\ AllSettled /\ LockOwned /\ ViewsHold
    /\ VersionsContiguous /\ LiveHasExperiment /\ EvidenceReproducible /\ EvidenceUnique /\ CurrentIsLatest
-----------------------------------------------------------------------------
\* The steps, by whether they write the tables.
Work(s) ==
    \/ \E c \in Command : Receive(s, c)
    \/ ReadHypothesis(s) \/ Refuse(s) \/ ReadVersion(s) \/ ReadCutoff(s) \/ Scan(s)
    \/ MatchNothing(s) \/ MatchExisting(s) \/ ReadPrior(s) \/ LockHead(s) \/ Conflict(s)
    \/ CommitDuplicate(s) \/ Crash(s)
Commit(s) ==
    \/ CommitSubmit(s) \/ CommitPropose(s) \/ CommitActivate(s) \/ CommitRetire(s) \/ CommitEvaluate(s)
Clock == \E e \in DOMAIN experiments : WindowExpires(e)

\* Every step works, commits, passes a deadline or stutters.
LEMMA StepCases ==
    ASSUME [Next]_vars
    PROVE  \/ \E s \in Session : Work(s)
           \/ \E s \in Session : Commit(s)
           \/ Clock
           \/ UNCHANGED vars
  BY Zenon DEF Next, Work, Commit, Clock, SessionStep, Quiescent

\* Before its commit a session writes no table and no event.
LEMMA WorkQuiet ==
    ASSUME NEW s \in Session, Work(s)
    PROVE  UNCHANGED <<log, hypotheses, experiments, evidence, beliefs, current, learnings, overdue>>
  BY Zenon DEF Work, Receive, ReadHypothesis, Refuse, ReadVersion, ReadCutoff, Scan, MatchNothing,
     MatchExisting, ReadPrior, LockHead, Conflict, CommitDuplicate, Crash, tables, ledger

\* What a command names.
CommandRefers(c) ==
    /\ c.op \in {"submit", "propose", "activate", "retire", "evaluate"}
    /\ c.op \in {"activate", "retire"} => c.on \in DOMAIN hypotheses
    /\ c.op = "evaluate" => c.on \in DOMAIN experiments /\ c.phase \in Phase

\* What a command names is there when it comes.
LEMMA CommandNames ==
    ASSUME IInv, NEW c \in Command
    PROVE  c \in CommandForm /\ CommandRefers(c)
  <1>1. DOMAIN hypotheses \subseteq Nat /\ DOMAIN experiments \subseteq Nat
    BY DEF IInv, AllSettled
  <1>. QED
    BY <1>1 DEF Command, Ask, CommandForm, CommandRefers, Phase, None

\* Commands name rows that exist for good.
LEMMA CommandsStay ==
    ASSUME DOMAIN hypotheses \subseteq DOMAIN hypotheses', DOMAIN experiments \subseteq DOMAIN experiments'
    PROVE  Command \subseteq Command'
  BY DEF Command

\* The session about to commit holds the lock, over positions nobody else has.
LEMMA SettledType ==
    ASSUME IInv
    PROVE  /\ Settled \in Nat /\ Settled <= sequence
           /\ \A s \in Session : pc[s] = "commit" =>
                 /\ lock = s /\ Settled = seen[s].base /\ s # NoSession
                 /\ sequence = seen[s].base + Appends(s)
  <1>1. LedgerTypes /\ SessionTypes /\ LockOwned
    BY DEF IInv
  <1>2. \A s \in Session : seen[s].base \in Nat /\ s # NoSession
    BY <1>1, LabAssumption DEF SessionTypes, Sight
  <1>3. \A s \in Session : Appends(s) \in {1, 2, 3, 4}
    BY DEF Appends
  <1>. QED
    BY <1>1, <1>2, <1>3 DEF LedgerTypes, LockOwned, Settled

\* What is left of a session after its transaction.
LEMMA FinishTypes ==
    ASSUME SessionTypes, NEW s \in Session, Finish(s)
    PROVE  /\ pc' \in [Session -> Control] /\ seen' \in [Session -> Sight]
           /\ cmd' \in [Session -> CommandForm]
           /\ pc'[s] = "idle" /\ cmd'[s] = NoCommand /\ seen'[s] = NothingSeen
           /\ \A q \in Session : q # s => pc'[q] = pc[q] /\ cmd'[q] = cmd[q] /\ seen'[q] = seen[q]
  <1>1. NoCommand \in CommandForm
    BY DEF NoCommand, CommandForm, Ask, None
  <1>2. NothingSeen \in Sight
    BY DEF NothingSeen, Sight, Trial, HypothesisRow, Status, None
  <1>. QED
    BY <1>1, <1>2 DEF SessionTypes, Finish, Control

\* A step of a session before its commit keeps the types.
LEMMA WorkTypes ==
    ASSUME IInv, NEW s \in Session, Work(s)
    PROVE  TableTypes' /\ LedgerTypes' /\ SessionTypes'
  <1>1. TableTypes /\ LedgerTypes /\ SessionTypes /\ References /\ ViewsHold
    BY DEF IInv
  <1>2. TableTypes'
    BY <1>1, WorkQuiet DEF TableTypes
  <1>3. /\ \A q \in Session : Appends(q) \in Nat
        /\ seen[s] \in Sight /\ Command' = Command /\ sequence \in Nat /\ lock \in Session \cup {NoSession}
    BY <1>1, WorkQuiet DEF Appends, SessionTypes, LedgerTypes, Command
  <1>4. LedgerTypes'
    <2>1. sequence' \in {sequence, sequence + Appends(s)} /\ lock' \in {lock, s, NoSession} /\ log' = log
      BY WorkQuiet DEF Work, Receive, ReadHypothesis, Refuse, ReadVersion, ReadCutoff, Scan, MatchNothing,
         MatchExisting, ReadPrior, LockHead, Conflict, CommitDuplicate, Crash, Unlocked, ledger
    <2>. QED
      BY <1>1, <1>3, <2>1 DEF LedgerTypes
  <1> SUFFICES SessionTypes'
    BY <1>2, <1>4
  <1>5. ASSUME Finish(s) PROVE SessionTypes'
    BY <1>1, <1>3, <1>5, FinishTypes DEF SessionTypes
  <1>6. ASSUME UNCHANGED cmd, NEW l \in Control, Goto(s, l), NEW v \in Sight, seen' = [seen EXCEPT ![s] = v]
        PROVE  SessionTypes'
    BY <1>1, <1>3, <1>6 DEF SessionTypes, Goto
  <1>7. CASE \E c \in Command : Receive(s, c)
    <2>1. PICK c \in Command : Receive(s, c)
      BY <1>7
    <2>2. UNCHANGED seen /\ cmd' = [cmd EXCEPT ![s] = c] /\ \E l \in {"read", "lock"} : Goto(s, l)
      BY <2>1 DEF Receive
    <2>3. c \in CommandForm
      BY CommandNames
    <2>. QED
      BY <1>1, <1>3, <2>2, <2>3 DEF SessionTypes, Goto, Control
  <1>8. CASE ReadHypothesis(s)
    <2> DEFINE row == hypotheses[Subject(cmd[s])]
               late == cmd[s].on \in overdue
               exp == IF cmd[s].op = "evaluate" THEN experiments[cmd[s].on] ELSE seen[s].exp
               view == [seen[s] EXCEPT !.row = row, !.late = late, !.exp = exp]
    <2>1. /\ cmd[s].op = "evaluate" => cmd[s].on \in DOMAIN experiments
          /\ Subject(cmd[s]) \in DOMAIN hypotheses
      BY <1>8 DEF ReadHypothesis, Found
    <2>2. row \in HypothesisRow /\ late \in BOOLEAN /\ exp \in Trial
      BY <1>1, <1>3, <2>1 DEF TableTypes, Sight
    <2>3. view \in Sight
      <3> HIDE DEF row, late, exp
      <3>. QED
        BY <1>3, <2>2 DEF Sight
    <2>4. UNCHANGED cmd /\ seen' = [seen EXCEPT ![s] = view] /\ \E l \in {"cutoff", "version"} : Goto(s, l)
      BY <1>8 DEF ReadHypothesis
    <2>. QED
      BY <1>6, <2>3, <2>4 DEF Control
  <1>9. CASE ReadVersion(s)
    <2>1. LatestVersion(cmd[s].on) \in Nat
      BY LatestIsCount DEF LatestVersion, IInv, LedgerTypes, VersionsContiguous
    <2>2. [seen[s] EXCEPT !.ver = LatestVersion(cmd[s].on)] \in Sight
      BY <1>3, <2>1 DEF Sight
    <2>. QED
      BY <1>6, <1>9, <2>2 DEF ReadVersion, Control
  <1>10. CASE ReadCutoff(s)
    <2>1. cmd[s].op = "evaluate" /\ cmd[s] \in Command
      BY <1>1, <1>10 DEF ReadCutoff, ViewsHold
    <2>2. log # <<>>
      BY <1>1, <2>1, CommandNames DEF CommandRefers, References
    <2>3. Last(log).pos \in Nat
      <3>1. Len(log) \in DOMAIN log /\ \A i \in DOMAIN log : log[i] \in LogEvent
        BY <1>1, <2>2 DEF LedgerTypes
      <3>. QED
        BY <3>1 DEF Last, LogEvent
    <2>4. [seen[s] EXCEPT !.cutoff = Last(log).pos] \in Sight
      BY <1>3, <2>3 DEF Sight
    <2>. QED
      BY <1>6, <1>10, <2>4 DEF ReadCutoff, Control
  <1>11. CASE Scan(s)
    <2> DEFINE view == [seen[s] EXCEPT !.scanned = {o \in Observations : o <= seen[s].cutoff}]
    <2>1. Observations \subseteq Nat
      <3>1. \A i \in DOMAIN log : log[i] \in LogEvent
        BY <1>1 DEF LedgerTypes
      <3>. QED
        BY <3>1 DEF Observations, LogEvent, ToSet
    <2>2. view \in Sight
      BY <1>3, <2>1 DEF Sight
    <2>3. PICK t \in MayBeTerminal(cmd[s], view) : seen' = [seen EXCEPT ![s] = [view EXCEPT !.terminal = t]]
      BY <1>11 DEF Scan
    <2>4. t \in BOOLEAN
      BY DEF MayBeTerminal
    <2>5. [view EXCEPT !.terminal = t] \in Sight
      <3> HIDE DEF view
      <3>. QED
        BY <2>2, <2>4 DEF Sight
    <2>6. UNCHANGED cmd /\ Goto(s, "match")
      BY <1>11 DEF Scan
    <2>. QED
      BY <1>6, <2>3, <2>5, <2>6 DEF Control
  <1>12. CASE MatchNothing(s)
    BY <1>1, <1>3, <1>12 DEF MatchNothing, SessionTypes, Goto, Control
  <1>13. CASE ReadPrior(s)
    <2>1. CASE UNCHANGED seen
      BY <1>1, <1>3, <1>13, <2>1 DEF ReadPrior, SessionTypes, Goto, Control
    <2>2. CASE \E b \in current : seen' = [seen EXCEPT ![s].prior = b]
      <3>1. PICK b \in current : seen' = [seen EXCEPT ![s].prior = b]
        BY <2>2
      <3>2. b \in Nat
        BY <1>1 DEF IInv, TableTypes, AllSettled
      <3>3. [seen[s] EXCEPT !.prior = b] \in Sight
        BY <1>3, <3>2 DEF Sight
      <3>. QED
        BY <1>6, <1>13, <3>1, <3>3 DEF ReadPrior, Control
    <2>. QED
      BY <1>13, <2>1, <2>2 DEF ReadPrior
  <1>14. CASE LockHead(s)
    <2>1. [seen[s] EXCEPT !.base = sequence] \in Sight
      BY <1>3 DEF Sight
    <2>. QED
      BY <1>6, <1>14, <2>1 DEF LockHead, Control
  <1>15. CASE Refuse(s) \/ MatchExisting(s) \/ Conflict(s) \/ CommitDuplicate(s) \/ Crash(s)
    BY <1>5, <1>15 DEF Refuse, MatchExisting, Conflict, CommitDuplicate, Crash
  <1>. QED
    BY <1>7, <1>8, <1>9, <1>10, <1>11, <1>12, <1>13, <1>14, <1>15 DEF Work

-----------------------------------------------------------------------------
\* A ledger that continues the one there is, up to position n.
Continues(l, n) ==
    /\ l \in Seq(LogEvent) /\ Contiguous(l) /\ Len(log) <= Len(l)
    /\ \A i \in DOMAIN log : l[i] = log[i]
    /\ \A i \in DOMAIN l : l[i].pos <= n /\ l[i].agg <= n
    /\ \A i \in DOMAIN l \ DOMAIN log : l[i].pos > Settled /\ l[i].data.sources \subseteq Observations

\* The ledger continues itself.
LEMMA ContinuesHere ==
    ASSUME IInv
    PROVE  Continues(log, Settled) /\ Settled \in Nat
  <1>1. LedgerTypes /\ AllSettled /\ VersionsContiguous
    BY DEF IInv
  <1>. QED
    BY <1>1, SettledType DEF Continues, LedgerTypes, AllSettled, VersionsContiguous

\* One more event, about an aggregate at its next version.
LEMMA ContinuesNext ==
    ASSUME IInv, NEW l, NEW n \in Nat, Settled <= n, Continues(l, n),
           NEW e \in LogEvent, e.pos = n + 1, e.agg <= n + 1, e.ver = Latest(l, e.agg) + 1,
           e.data.sources \subseteq Observations
    PROVE  Continues(Append(l, e), n + 1)
  <1>1. l \in Seq(LogEvent) /\ Contiguous(l) /\ Len(log) \in Nat /\ Settled \in Nat /\ log \in Seq(LogEvent)
    BY SettledType DEF Continues, IInv, LedgerTypes
  <1>2. Append(l, e) \in Seq(LogEvent) /\ Contiguous(Append(l, e))
    BY <1>1, AppendContiguous
  <1>3. /\ Len(Append(l, e)) = Len(l) + 1 /\ DOMAIN Append(l, e) = 1..(Len(l) + 1) /\ DOMAIN l = 1..Len(l)
        /\ Append(l, e)[Len(l) + 1] = e /\ \A i \in 1..Len(l) : Append(l, e)[i] = l[i]
    BY <1>1, AppendProperties
  <1>4. Len(l) \in Nat /\ DOMAIN log = 1..Len(log)
    BY <1>1
  <1>5. \A i \in DOMAIN l : l[i] \in LogEvent
    BY <1>1
  <1>6. \A i \in DOMAIN l : l[i].pos \in Nat /\ l[i].agg \in Nat
    BY <1>5 DEF LogEvent
  <1>7. \A i \in DOMAIN Append(l, e) : Append(l, e)[i].pos <= n + 1 /\ Append(l, e)[i].agg <= n + 1
    <2> TAKE i \in DOMAIN Append(l, e)
    <2>1. CASE i = Len(l) + 1
      BY <1>3, <2>1
    <2>2. CASE i \in 1..Len(l)
      BY <1>3, <1>6, <2>2 DEF Continues
    <2>. QED
      BY <1>3, <1>4, <2>1, <2>2
  <1>8. \A i \in DOMAIN Append(l, e) \ DOMAIN log :
           Append(l, e)[i].pos > Settled /\ Append(l, e)[i].data.sources \subseteq Observations
    <2> TAKE i \in DOMAIN Append(l, e) \ DOMAIN log
    <2>1. CASE i = Len(l) + 1
      BY <1>1, <1>3, <2>1
    <2>2. CASE i \in 1..Len(l)
      BY <1>3, <2>2 DEF Continues
    <2>. QED
      BY <1>3, <1>4, <2>1, <2>2
  <1>. QED
    BY <1>1, <1>2, <1>3, <1>4, <1>7, <1>8 DEF Continues

\* An event that starts an aggregate, named by its position.
LEMMA ContinuesNew ==
    ASSUME IInv, NEW l, NEW n \in Nat, Settled <= n, Continues(l, n),
           NEW e \in LogEvent, e.pos = n + 1, e.agg = n + 1, e.ver = 1,
           e.data.sources \subseteq Observations
    PROVE  Continues(Append(l, e), n + 1) /\ Latest(Append(l, e), e.agg) = 1
  <1>1. l \in Seq(LogEvent) /\ Contiguous(l)
    BY DEF Continues
  <1>2. \A j \in DOMAIN l : l[j].agg # e.agg
    BY <1>1 DEF Continues
  <1>3. Latest(l, e.agg) = 0
    BY <1>1, <1>2, LatestOfNew
  <1>4. Latest(Append(l, e), e.agg) = 1
    BY <1>1, <1>3, LatestAfterOwn
  <1>. QED
    BY <1>3, <1>4, ContinuesNext

\* The events a transaction appends, by their columns.
LEMMA EventFacts ==
    ASSUME IInv, NEW s \in Session, NEW i \in Nat, NEW kind \in Kind, NEW agg \in Nat, NEW ver \in Nat,
           NEW data \in Facts
    PROVE  /\ seen[s].base \in Nat
           /\ Event(s, i, kind, agg, ver, data) \in LogEvent
           /\ Event(s, i, kind, agg, ver, data).pos = seen[s].base + i
           /\ Event(s, i, kind, agg, ver, data).agg = agg
           /\ Event(s, i, kind, agg, ver, data).ver = ver
           /\ Event(s, i, kind, agg, ver, data).data = data
  <1>1. seen[s].base \in Nat
    BY DEF IInv, SessionTypes, Sight
  <1>. QED
    BY <1>1 DEF Event, LogEvent

\* The first event of an aggregate that is named by its position.
LEMMA NewEventFacts ==
    ASSUME IInv, NEW s \in Session, NEW i \in Nat, NEW kind \in Kind, NEW data \in Facts
    PROVE  /\ NewEvent(s, i, kind, data) \in LogEvent
           /\ NewEvent(s, i, kind, data).pos = seen[s].base + i
           /\ NewEvent(s, i, kind, data).agg = seen[s].base + i
           /\ NewEvent(s, i, kind, data).ver = 1
           /\ NewEvent(s, i, kind, data).data = data
  <1>1. seen[s].base + i \in Nat
    BY DEF IInv, SessionTypes, Sight
  <1>. QED
    BY <1>1, EventFacts DEF NewEvent

\* An event without data has no sources.
LEMMA NoDataFacts == NoData \in Facts /\ NoData.sources = {}
  BY DEF NoData, Facts, None, Phase

\* What an event says may be filled in without touching its sources.
LEMMA FilledFacts ==
    ASSUME NEW data \in Facts, NEW n \in Nat
    PROVE  /\ [data EXCEPT !.hyp = n] \in Facts /\ [data EXCEPT !.hyp = n].sources = data.sources
           /\ [data EXCEPT !.of = n] \in Facts /\ [data EXCEPT !.of = n].sources = data.sources
           /\ [data EXCEPT !.prev = n] \in Facts /\ [data EXCEPT !.prev = n].sources = data.sources
  BY DEF Facts

\* What every commit does to the ledger: it continues it to the last position handed
\* out, and releases the lock.
LEMMA CommitLog ==
    ASSUME IInv, NEW s \in Session, Commit(s)
    PROVE  /\ pc[s] = "commit" /\ cmd[s] \in Command /\ CommandRefers(cmd[s])
           /\ Finish(s) /\ lock = s /\ lock' = NoSession /\ UNCHANGED <<sequence, overdue>>
           /\ Settled = seen[s].base /\ Settled' = sequence /\ sequence = Settled + Appends(s)
           /\ Continues(log', sequence) /\ log' # <<>>
  <1>1. LedgerTypes /\ SessionTypes /\ AllSettled /\ ViewsHold
    BY DEF IInv
  <1>2. pc[s] = "commit" /\ Finish(s) /\ lock' = Unlocked(s) /\ UNCHANGED <<sequence, overdue>>
    BY Zenon DEF Commit, CommitSubmit, CommitPropose, CommitActivate, CommitRetire, CommitEvaluate, Commits
  <1>3. /\ cmd[s] \in Command /\ CommandRefers(cmd[s])
    BY <1>1, <1>2, CommandNames DEF ViewsHold
  <1>4. lock = s /\ lock' = NoSession /\ Settled' = sequence
    BY <1>2, SettledType DEF Unlocked, Settled
  <1> DEFINE base == seen[s].base
  <1>5. base \in Nat /\ Settled = base /\ sequence = base + Appends(s) /\ Continues(log, base)
    BY <1>2, SettledType, ContinuesHere
  <1>6. seen[s] \in Sight /\ cmd[s] \in CommandForm /\ log \in Seq(LogEvent)
    BY <1>1 DEF SessionTypes, LedgerTypes
  <1>7. cmd[s].on \in Nat /\ seen[s].ver \in Nat /\ seen[s].prior \in Nat /\ seen[s].exp.hyp \in Nat
    BY <1>6 DEF Sight, CommandForm, Trial
  <1> SUFFICES Continues(log', sequence) /\ log' # <<>>
    BY <1>2, <1>3, <1>4, <1>5
  <1>8. CASE CommitSubmit(s) \/ CommitPropose(s)
    <2> DEFINE kind == IF cmd[s].op = "submit" THEN "ObservationAccepted" ELSE "HypothesisProposed"
               e == NewEvent(s, 1, kind, NoData)
    <2>1. log' = log \o <<e>> /\ Appends(s) = 1
      BY <1>8 DEF CommitSubmit, CommitPropose, Commits, Appends
    <2>2. e \in LogEvent /\ e.pos = base + 1 /\ e.agg = base + 1 /\ e.ver = 1 /\ e.data.sources = {}
      <3>1. kind \in Kind
        BY DEF Kind
      <3>. QED
        BY <3>1, NewEventFacts, NoDataFacts
    <2> HIDE DEF e
    <2>3. Continues(Append(log, e), base + 1)
      BY <1>5, <2>2, ContinuesNew
    <2>4. log' = Append(log, e)
      BY <1>6, <2>1, <2>2, ConcatIsAppends
    <2>5. sequence = base + 1
      BY <1>5, <2>1
    <2>6. log' # <<>>
      BY <1>6, <2>2, <2>4
    <2>. QED
      BY <2>3, <2>4, <2>5, <2>6
  <1>9. CASE CommitActivate(s)
    <2> DEFINE h == cmd[s].on
               e1 == Event(s, 1, "HypothesisActivated", h, seen[s].ver + 1, [NoData EXCEPT !.exp = base + 2])
               e2 == NewEvent(s, 2, "ExperimentRegistered", [NoData EXCEPT !.hyp = h])
               e3 == Event(s, 3, "ExperimentObservationWindowOpened", base + 2, 2, NoData)
    <2>1. log' = log \o <<e1, e2, e3>> /\ Appends(s) = 3 /\ cmd[s].op = "activate"
      BY <1>9 DEF CommitActivate, Commits, Appends
    <2>2. h \in DOMAIN hypotheses /\ h \in Nat /\ h <= base /\ seen[s].ver = Latest(log, h)
      BY <1>1, <1>2, <1>3, <1>5, <2>1 DEF CommandRefers, AllSettled, ViewsHold, LatestVersion
    <2>3. /\ e1 \in LogEvent /\ e1.pos = base + 1 /\ e1.agg = h /\ e1.ver = Latest(log, h) + 1
          /\ e1.data.sources = {}
      <3> DEFINE data == [NoData EXCEPT !.exp = base + 2]
      <3>1. data \in Facts /\ data.sources = {}
        BY <1>5 DEF NoData, Facts, None, Phase
      <3>2. "HypothesisActivated" \in Kind /\ h \in Nat /\ seen[s].ver + 1 \in Nat
        BY <1>7 DEF Kind
      <3> HIDE DEF data
      <3>3. e1 = Event(s, 1, "HypothesisActivated", h, seen[s].ver + 1, data)
        BY DEF data
      <3> HIDE DEF h, e1
      <3>4. /\ e1 \in LogEvent /\ e1.pos = seen[s].base + 1 /\ e1.agg = h /\ e1.ver = seen[s].ver + 1
            /\ e1.data = data
        BY <1>5, <3>1, <3>2, <3>3 DEF Event, LogEvent
      <3>. QED
        BY <2>2, <3>1, <3>4
    <2>4. /\ e2 \in LogEvent /\ e2.pos = base + 1 + 1 /\ e2.agg = base + 1 + 1 /\ e2.ver = 1
          /\ e2.data.sources = {}
      <3> DEFINE data == [NoData EXCEPT !.hyp = h]
      <3>1. data \in Facts /\ data.sources = {}
        BY <1>7 DEF NoData, Facts, None, Phase
      <3>2. "ExperimentRegistered" \in Kind
        BY DEF Kind
      <3> HIDE DEF data
      <3>3. e2 = NewEvent(s, 2, "ExperimentRegistered", data)
        BY DEF data
      <3> HIDE DEF h, e2
      <3>4. /\ e2 \in LogEvent /\ e2.pos = base + 2 /\ e2.agg = base + 2 /\ e2.ver = 1 /\ e2.data = data
        BY <3>1, <3>2, <3>3, NewEventFacts
      <3>. QED
        BY <1>5, <3>1, <3>4
    <2>5. /\ e3 \in LogEvent /\ e3.pos = base + 1 + 1 + 1 /\ e3.agg = e2.agg /\ e3.ver = 2
          /\ e3.data.sources = {}
      <3>1. "ExperimentObservationWindowOpened" \in Kind /\ base + 2 \in Nat
        BY <1>5 DEF Kind
      <3>2. /\ e3 \in LogEvent /\ e3.pos = base + 3 /\ e3.agg = base + 2 /\ e3.ver = 2 /\ e3.data = NoData
        BY <1>5, <3>1, NoDataFacts DEF Event, LogEvent
      <3> HIDE DEF e2, e3
      <3>. QED
        BY <1>5, <2>4, <3>2, NoDataFacts
    <2> HIDE DEF e1, e2, e3, h
    <2>6. Continues(Append(log, e1), base + 1)
      BY <1>5, <2>2, <2>3, ContinuesNext
    <2>7. /\ Continues(Append(Append(log, e1), e2), base + 1 + 1)
          /\ Latest(Append(Append(log, e1), e2), e2.agg) = 1
      <3>1. base + 1 \in Nat /\ Settled <= base + 1
        BY <1>5
      <3>. QED
        BY <2>4, <2>6, <3>1, ContinuesNew
    <2>8. Continues(Append(Append(Append(log, e1), e2), e3), base + 1 + 1 + 1)
      <3>1. base + 1 + 1 \in Nat /\ Settled <= base + 1 + 1 /\ e3.agg <= base + 1 + 1 + 1
        BY <1>5, <2>4, <2>5
      <3>. QED
        BY <2>5, <2>7, <3>1, ContinuesNext
    <2>9. log' = Append(Append(Append(log, e1), e2), e3)
      BY <1>6, <2>1, <2>3, <2>4, <2>5, ConcatIsAppends
    <2>10. sequence = base + 1 + 1 + 1
      BY <1>5, <2>1
    <2>11. log' # <<>>
      BY <1>6, <2>3, <2>4, <2>5, <2>9
    <2>. QED
      BY <2>8, <2>9, <2>10, <2>11
  <1>10. CASE CommitRetire(s)
    <2> DEFINE h == cmd[s].on
               e == Event(s, 1, "HypothesisRetired", h, seen[s].ver + 1, NoData)
    <2>1. log' = log \o <<e>> /\ Appends(s) = 1 /\ cmd[s].op = "retire"
      BY <1>10 DEF CommitRetire, Commits, Appends
    <2>2. h \in DOMAIN hypotheses /\ h \in Nat /\ h <= base /\ seen[s].ver = Latest(log, h)
      BY <1>1, <1>2, <1>3, <1>5, <2>1 DEF CommandRefers, AllSettled, ViewsHold, LatestVersion
    <2>3. e \in LogEvent /\ e.pos = base + 1 /\ e.agg = h /\ e.ver = Latest(log, h) + 1 /\ e.data.sources = {}
      <3>1. "HypothesisRetired" \in Kind /\ h \in Nat /\ seen[s].ver + 1 \in Nat
        BY <1>7 DEF Kind
      <3>2. /\ e \in LogEvent /\ e.pos = base + 1 /\ e.agg = h /\ e.ver = seen[s].ver + 1 /\ e.data = NoData
        BY <1>5, <1>7, <3>1, NoDataFacts DEF Event, LogEvent
      <3> HIDE DEF e, h
      <3>. QED
        BY <2>2, <3>2, NoDataFacts
    <2> HIDE DEF e, h
    <2>4. Continues(Append(log, e), base + 1)
      BY <1>5, <2>2, <2>3, ContinuesNext
    <2>5. log' = Append(log, e)
      BY <1>6, <2>1, <2>3, ConcatIsAppends
    <2>6. sequence = base + 1
      BY <1>5, <2>1
    <2>7. log' # <<>>
      BY <1>6, <2>3, <2>5
    <2>. QED
      BY <2>4, <2>5, <2>6, <2>7
  <1>11. CASE CommitEvaluate(s)
    <2> DEFINE h == Hypothesis(s)
               v == seen[s]
               sources == Sources(cmd[s], v)
               kind == IF v.prior = None THEN "BeliefCreated" ELSE "BeliefUpdated"
               e1 == NewEvent(s, 1, "EvidenceEvaluated",
                              [NoData EXCEPT !.hyp = h, !.exp = cmd[s].on, !.phase = cmd[s].phase,
                                             !.sources = sources])
               e2 == NewEvent(s, 2, kind, [NoData EXCEPT !.hyp = h, !.of = base + 1, !.prev = v.prior])
               e3 == NewEvent(s, 3, "OutcomeEvaluated", NoData)
               e4 == NewEvent(s, 4, "LearningRecorded", [NoData EXCEPT !.of = base + 2, !.prev = v.prior])
    <2>1. /\ log' = log \o (<<e1, e2>> \o IF v.terminal THEN <<e3, e4>> ELSE <<>>)
          /\ Appends(s) = IF v.terminal THEN 4 ELSE 2
          /\ cmd[s].op = "evaluate"
      BY <1>11 DEF CommitEvaluate, Commits, Appends
    <2>2. h \in Nat /\ cmd[s].phase \in Phase /\ sources \subseteq Observations /\ Observations \subseteq Nat
      <3>1. v.scanned \subseteq Observations /\ Observations \subseteq Nat
        <4>1. \A i \in DOMAIN log : log[i] \in LogEvent
          BY <1>6
        <4>. QED
          BY <1>1, <1>2, <2>1, <4>1 DEF ViewsHold, Observations, ToSet, LogEvent
      <3>. QED
        BY <1>3, <1>7, <2>1, <3>1 DEF Hypothesis, CommandRefers, Sources, Cohort
    <2>3. /\ e1 \in LogEvent /\ e1.pos = base + 1 /\ e1.agg = base + 1 /\ e1.ver = 1
          /\ e1.data.sources \subseteq Observations
      <3> DEFINE data == [NoData EXCEPT !.hyp = h, !.exp = cmd[s].on, !.phase = cmd[s].phase, !.sources = sources]
      <3>1. data \in Facts /\ data.sources = sources
        BY <1>7, <2>2 DEF NoData, Facts, None, Phase
      <3> HIDE DEF data
      <3>2. e1 = NewEvent(s, 1, "EvidenceEvaluated", data)
        BY DEF data
      <3>3. "EvidenceEvaluated" \in Kind
        BY DEF Kind
      <3> HIDE DEF e1
      <3>. QED
        BY <1>5, <2>2, <3>1, <3>2, <3>3, NewEventFacts
    <2>4. /\ e2 \in LogEvent /\ e2.pos = base + 1 + 1 /\ e2.agg = base + 1 + 1 /\ e2.ver = 1
          /\ e2.data.sources = {}
      <3> DEFINE owner == [NoData EXCEPT !.hyp = h]
                 named == [owner EXCEPT !.of = base + 1]
                 data == [named EXCEPT !.prev = v.prior]
      <3>1. data \in Facts /\ data.sources = {}
        <4>1. owner \in Facts /\ owner.sources = {}
          BY <2>2, NoDataFacts, FilledFacts
        <4> HIDE DEF owner
        <4>2. named \in Facts /\ named.sources = {} /\ v.prior \in Nat
          BY <1>5, <1>7, <4>1 DEF Facts
        <4> HIDE DEF named
        <4>. QED
          BY <4>2, FilledFacts
      <3> HIDE DEF data
      <3>2. e2 = NewEvent(s, 2, kind, data)
        BY DEF data
      <3>3. kind \in Kind
        BY DEF Kind
      <3> HIDE DEF e2
      <3>4. /\ e2 \in LogEvent /\ e2.pos = base + 2 /\ e2.agg = base + 2 /\ e2.ver = 1 /\ e2.data = data
        BY <3>1, <3>2, <3>3, NewEventFacts
      <3>. QED
        BY <1>5, <3>1, <3>4
    <2>5. /\ e3 \in LogEvent /\ e3.pos = base + 1 + 1 + 1 /\ e3.agg = base + 1 + 1 + 1 /\ e3.ver = 1
          /\ e3.data.sources = {}
      <3>1. "OutcomeEvaluated" \in Kind
        BY DEF Kind
      <3>2. /\ e3 \in LogEvent /\ e3.pos = base + 3 /\ e3.agg = base + 3 /\ e3.ver = 1 /\ e3.data = NoData
        BY <3>1, NewEventFacts, NoDataFacts
      <3> HIDE DEF e3
      <3>. QED
        BY <1>5, <3>2, NoDataFacts
    <2>6. /\ e4 \in LogEvent /\ e4.pos = base + 1 + 1 + 1 + 1 /\ e4.agg = base + 1 + 1 + 1 + 1 /\ e4.ver = 1
          /\ e4.data.sources = {}
      <3> DEFINE named == [NoData EXCEPT !.of = base + 2]
                 data == [named EXCEPT !.prev = v.prior]
      <3>1. data \in Facts /\ data.sources = {}
        <4>1. named \in Facts /\ named.sources = {} /\ v.prior \in Nat
          BY <1>5, <1>7 DEF NoData, Facts, None, Phase
        <4> HIDE DEF named
        <4>. QED
          BY <4>1, FilledFacts
      <3> HIDE DEF data
      <3>2. e4 = NewEvent(s, 4, "LearningRecorded", data)
        BY DEF data
      <3>3. "LearningRecorded" \in Kind
        BY DEF Kind
      <3> HIDE DEF e4
      <3>4. /\ e4 \in LogEvent /\ e4.pos = base + 4 /\ e4.agg = base + 4 /\ e4.ver = 1 /\ e4.data = data
        BY <3>1, <3>2, <3>3, NewEventFacts
      <3>. QED
        BY <1>5, <3>1, <3>4
    <2> HIDE DEF e1, e2, e3, e4, h, sources
    <2>7. Continues(Append(log, e1), base + 1)
      BY <1>5, <2>3, ContinuesNew
    <2>8. Continues(Append(Append(log, e1), e2), base + 1 + 1)
      <3>1. base + 1 \in Nat /\ Settled <= base + 1
        BY <1>5
      <3>. QED
        BY <2>4, <2>7, <3>1, ContinuesNew
    <2>9. CASE v.terminal
      <3>1. Continues(Append(Append(Append(log, e1), e2), e3), base + 1 + 1 + 1)
        <4>1. base + 1 + 1 \in Nat /\ Settled <= base + 1 + 1
          BY <1>5
        <4>. QED
          BY <2>5, <2>8, <4>1, ContinuesNew
      <3>2. Continues(Append(Append(Append(Append(log, e1), e2), e3), e4), base + 1 + 1 + 1 + 1)
        <4>1. base + 1 + 1 + 1 \in Nat /\ Settled <= base + 1 + 1 + 1
          BY <1>5
        <4>. QED
          BY <2>6, <3>1, <4>1, ContinuesNew
      <3>3. log' = log \o (<<e1, e2>> \o <<e3, e4>>)
        BY <2>1, <2>9
      <3>4. log' = Append(Append(Append(Append(log, e1), e2), e3), e4)
        BY <1>6, <2>3, <2>4, <2>5, <2>6, <3>3, ConcatIsAppends
      <3>5. sequence = base + 1 + 1 + 1 + 1
        BY <1>5, <2>1, <2>9
      <3>6. log' # <<>>
        BY <1>6, <2>3, <2>4, <2>5, <2>6, <3>4
      <3>. QED
        BY <3>2, <3>4, <3>5, <3>6
    <2>10. CASE ~v.terminal
      <3>1. log' = log \o (<<e1, e2>> \o <<>>)
        BY <2>1, <2>10
      <3>2. log' = Append(Append(log, e1), e2)
        BY <1>6, <2>3, <2>4, <3>1, ConcatIsAppends
      <3>3. sequence = base + 1 + 1
        BY <1>5, <2>1, <2>10
      <3>4. log' # <<>>
        BY <1>6, <2>3, <2>4, <3>2
      <3>. QED
        BY <2>8, <3>2, <3>3, <3>4
    <2>. QED
      BY <2>9, <2>10
  <1>. QED
    BY <1>8, <1>9, <1>10, <1>11 DEF Commit

\* What a commit leaves in the tables: it takes nothing back, and changes no
\* experiment or belief.
Growth ==
    /\ DOMAIN hypotheses \subseteq DOMAIN hypotheses'
    /\ DOMAIN experiments \subseteq DOMAIN experiments' /\ DOMAIN beliefs \subseteq DOMAIN beliefs'
    /\ evidence \subseteq evidence' /\ learnings \subseteq learnings'
    /\ \A h \in DOMAIN hypotheses : hypotheses[h].status # "PROPOSED" => hypotheses'[h].status # "PROPOSED"
    /\ \A e \in DOMAIN experiments : experiments'[e] = experiments[e]
    /\ \A b \in DOMAIN beliefs : beliefs'[b] = beliefs[b]
    /\ Len(log) <= Len(log') /\ \A i \in DOMAIN log : log'[i] = log[i]

\* What an evaluation about to commit has in hand.
LEMMA EvaluationFacts ==
    ASSUME IInv, NEW s \in Session, CommitEvaluate(s)
    PROVE  /\ cmd[s].on \in DOMAIN experiments /\ cmd[s].phase \in Phase
           /\ seen[s].exp = experiments[cmd[s].on] /\ Hypothesis(s) = seen[s].exp.hyp
           /\ Hypothesis(s) \in DOMAIN hypotheses
           /\ hypotheses[Hypothesis(s)].status # "PROPOSED"
           /\ seen[s].row.experiment \in DOMAIN experiments
           /\ experiments[seen[s].row.experiment].hyp = Hypothesis(s)
           /\ seen[s].scanned = {o \in Observations : o <= seen[s].cutoff}
           /\ seen[s].prior \in DOMAIN beliefs \cup {None}
           /\ seen[s].base + 2 \notin DOMAIN beliefs
  <1>1. cmd[s].op = "evaluate" /\ Commit(s)
    BY DEF CommitEvaluate, Commit
  <1>2. /\ pc[s] = "commit" /\ CommandRefers(cmd[s])
        /\ Settled = seen[s].base /\ Settled \in Nat
    BY <1>1, CommitLog, SettledType
  <1>3. ViewsHold /\ References /\ AllSettled
    BY DEF IInv
  <1>. QED
    BY <1>1, <1>2, <1>3 DEF ViewsHold, References, AllSettled, CommandRefers, Hypothesis

\* A commit keeps the types of the tables and takes nothing back.
LEMMA CommitTables ==
    ASSUME IInv, NEW s \in Session, Commit(s)
    PROVE  TableTypes' /\ Growth
  <1>1. TableTypes /\ AllSettled
    BY DEF IInv
  <1> DEFINE base == seen[s].base
  <1>2. /\ pc[s] = "commit" /\ cmd[s] \in Command /\ CommandRefers(cmd[s])
        /\ overdue' = overdue /\ Settled = base /\ base \in Nat
        /\ Len(log) <= Len(log') /\ \A i \in DOMAIN log : log'[i] = log[i]
    BY CommitLog, SettledType DEF Continues
  <1>3. /\ base + 1 \notin DOMAIN hypotheses /\ base + 2 \notin DOMAIN experiments
        /\ base + 2 \notin DOMAIN beliefs
    BY <1>1, <1>2 DEF AllSettled
  <1>10. /\ hypotheses \in [DOMAIN hypotheses -> HypothesisRow]
         /\ experiments \in [DOMAIN experiments -> Trial]
         /\ beliefs \in [DOMAIN beliefs -> [hyp : Nat, evidence : Nat, prev : Nat]]
    BY <1>1 DEF TableTypes
  <1>4. seen[s].row \in HypothesisRow /\ seen[s].cutoff \in Nat /\ seen[s].prior \in Nat /\ cmd[s].on \in Nat
        /\ seen[s].exp \in Trial /\ seen[s].scanned \in SUBSET Nat
    BY DEF IInv, SessionTypes, Sight, CommandForm
  <1>5. CASE CommitSubmit(s)
    BY <1>1, <1>2, <1>5 DEF CommitSubmit, tables, TableTypes, Growth
  <1>6. CASE CommitPropose(s)
    <2>1. [status |-> "PROPOSED", experiment |-> None] \in HypothesisRow
      BY DEF HypothesisRow, Status, None
    <2>2. /\ hypotheses' = Upsert(hypotheses, base + 1, [status |-> "PROPOSED", experiment |-> None])
          /\ UNCHANGED <<experiments, evidence, beliefs, current, learnings>>
      BY <1>6 DEF CommitPropose
    <2>3. /\ DOMAIN hypotheses' = DOMAIN hypotheses \cup {base + 1}
          /\ hypotheses' \in [DOMAIN hypotheses' -> HypothesisRow]
          /\ \A h \in DOMAIN hypotheses : hypotheses'[h] = hypotheses[h]
      BY <1>10, <1>3, <2>1, <2>2 DEF Upsert
    <2>. QED
      BY <1>1, <1>2, <2>2, <2>3 DEF TableTypes, Growth
  <1>7. CASE CommitActivate(s)
    <2> DEFINE row == [status |-> "ACTIVE", experiment |-> base + 2]
               trial == [hyp |-> cmd[s].on, activation |-> base + 1]
    <2>1. row \in HypothesisRow /\ trial \in Trial /\ row.status = "ACTIVE"
      BY <1>2, <1>4 DEF HypothesisRow, Status, Trial
    <2>2. /\ hypotheses' = Upsert(hypotheses, cmd[s].on, row)
          /\ experiments' = Upsert(experiments, base + 2, trial)
          /\ UNCHANGED <<evidence, beliefs, current, learnings>>
      BY <1>7 DEF CommitActivate
    <2> HIDE DEF row, trial
    <2>3. /\ DOMAIN hypotheses \subseteq DOMAIN hypotheses'
          /\ hypotheses' \in [DOMAIN hypotheses' -> HypothesisRow]
          /\ \A h \in DOMAIN hypotheses : hypotheses'[h] \in {hypotheses[h], row}
      BY <1>10, <2>1, <2>2 DEF Upsert
    <2>4. /\ DOMAIN experiments' = DOMAIN experiments \cup {base + 2}
          /\ experiments' \in [DOMAIN experiments' -> Trial]
          /\ \A e \in DOMAIN experiments : experiments'[e] = experiments[e]
      BY <1>10, <1>3, <2>1, <2>2 DEF Upsert
    <2>. QED
      BY <1>1, <1>2, <2>1, <2>2, <2>3, <2>4 DEF TableTypes, Growth
  <1>8. CASE CommitRetire(s)
    <2>1. Retired(seen[s].row) \in HypothesisRow /\ Retired(seen[s].row).status = "RETIRED"
      BY <1>4 DEF Retired, HypothesisRow, Status
    <2>2. /\ hypotheses' = Upsert(hypotheses, cmd[s].on, Retired(seen[s].row))
          /\ UNCHANGED <<experiments, evidence, beliefs, current, learnings>>
      BY <1>8 DEF CommitRetire
    <2>3. /\ DOMAIN hypotheses \subseteq DOMAIN hypotheses'
          /\ hypotheses' \in [DOMAIN hypotheses' -> HypothesisRow]
          /\ \A h \in DOMAIN hypotheses : hypotheses'[h] \in {hypotheses[h], Retired(seen[s].row)}
      BY <1>10, <2>1, <2>2 DEF Upsert
    <2>. QED
      BY <1>1, <1>2, <2>1, <2>2, <2>3 DEF TableTypes, Growth
  <1>9. CASE CommitEvaluate(s)
    <2> DEFINE v == seen[s]
               h == Hypothesis(s)
               row == [v.row EXCEPT !.status = IF v.terminal THEN "EVALUATED" ELSE "OBSERVING"]
               belief == [hyp |-> h, evidence |-> base + 1, prev |-> v.prior]
               found == [id |-> base + 1, exp |-> cmd[s].on, phase |-> cmd[s].phase, cutoff |-> v.cutoff,
                         sources |-> Sources(cmd[s], v)]
               learned == [id |-> base + 4, belief |-> base + 2, prior |-> v.prior]
    <2>1. /\ hypotheses' = Upsert(hypotheses, h, row)
          /\ experiments' = Upsert(experiments, cmd[s].on, v.exp)
          /\ evidence' = evidence \cup {found}
          /\ beliefs' = Upsert(beliefs, base + 2, belief)
          /\ current' = StillCurrent(h, v.prior) \cup {base + 2}
          /\ learnings' \in {learnings, learnings \cup {learned}}
      BY <1>9 DEF CommitEvaluate
    <2>2. /\ cmd[s].on \in DOMAIN experiments /\ cmd[s].phase \in Phase
          /\ v.exp = experiments[cmd[s].on] /\ h \in DOMAIN hypotheses /\ h = v.exp.hyp
      BY <1>9, EvaluationFacts
    <2>3. h \in Nat /\ Sources(cmd[s], v) \subseteq Nat
      BY <1>4, <2>2 DEF Trial, Sources, Cohort
    <2>4. row \in HypothesisRow /\ row.status # "PROPOSED"
      BY <1>4 DEF HypothesisRow, Status
    <2>5. /\ belief \in [hyp : Nat, evidence : Nat, prev : Nat]
          /\ found \in [id : Nat, exp : Nat, phase : Phase, cutoff : Nat, sources : SUBSET Nat]
          /\ learned \in [id : Nat, belief : Nat, prior : Nat]
      <3>1. cmd[s].on \in Nat /\ v.cutoff \in Nat /\ v.prior \in Nat /\ Sources(cmd[s], v) \in SUBSET Nat
        BY <1>4, <2>3
      <3>2. base + 1 \in Nat /\ base + 2 \in Nat /\ base + 4 \in Nat
        BY <1>2
      <3>3. learned \in [id : Nat, belief : Nat, prior : Nat]
        BY <3>1, <3>2
      <3>4. found \in [id : Nat, exp : Nat, phase : Phase, cutoff : Nat, sources : SUBSET Nat]
        BY <2>2, <3>1, <3>2
      <3> HIDE DEF h
      <3>5. belief \in [hyp : Nat, evidence : Nat, prev : Nat]
        BY <2>3, <3>1, <3>2
      <3>. QED
        BY <3>3, <3>4, <3>5
    <2> HIDE DEF row, belief, found, learned, h
    <2>6. /\ DOMAIN hypotheses \subseteq DOMAIN hypotheses'
          /\ hypotheses' \in [DOMAIN hypotheses' -> HypothesisRow]
          /\ \A x \in DOMAIN hypotheses : hypotheses'[x] \in {hypotheses[x], row}
      BY <1>10, <2>1, <2>4 DEF Upsert
    <2>7. /\ DOMAIN experiments' = DOMAIN experiments
          /\ experiments' \in [DOMAIN experiments' -> Trial]
          /\ \A e \in DOMAIN experiments : experiments'[e] = experiments[e]
      BY <1>10, <1>4, <2>1, <2>2 DEF Upsert
    <2>8. /\ DOMAIN beliefs' = DOMAIN beliefs \cup {base + 2}
          /\ beliefs' \in [DOMAIN beliefs' -> [hyp : Nat, evidence : Nat, prev : Nat]]
          /\ \A b \in DOMAIN beliefs : beliefs'[b] = beliefs[b]
      BY <1>10, <1>3, <2>1, <2>5 DEF Upsert
    <2>9. current' \subseteq DOMAIN beliefs'
      BY <1>1, <2>1, <2>8 DEF TableTypes, StillCurrent
    <2>. QED
      BY <1>1, <1>2, <2>1, <2>4, <2>5, <2>6, <2>7, <2>8, <2>9 DEF TableTypes, Growth
  <1>. QED
    BY <1>5, <1>6, <1>7, <1>8, <1>9 DEF Commit

-----------------------------------------------------------------------------
(* What a step of the session leaves of the others, and of the lock. *)

\* A command in progress does not touch what the others know.
LEMMA WorkLocal ==
    ASSUME IInv, NEW s \in Session, Work(s)
    PROVE  /\ \A q \in Session : q # s => pc'[q] = pc[q] /\ cmd'[q] = cmd[q] /\ seen'[q] = seen[q]
           /\ \/ pc[s] # "commit" /\ pc'[s] # "commit" /\ UNCHANGED <<lock, sequence>>
              \/ LockHead(s)
              \/ pc[s] = "commit" /\ Finish(s) /\ lock' = Unlocked(s) /\ UNCHANGED sequence
              \/ pc[s] # "commit" /\ Finish(s) /\ lock' = Unlocked(s) /\ UNCHANGED sequence
  <1>1. SessionTypes
    BY DEF IInv
  <1> USE <1>1 DEF SessionTypes, ledger
  <1>2. CASE \E c \in Command : Receive(s, c)
    BY <1>2 DEF Receive, Goto
  <1>3. CASE ReadHypothesis(s)
    BY <1>3 DEF ReadHypothesis, Goto
  <1>4. CASE ReadVersion(s) \/ ReadCutoff(s) \/ MatchNothing(s)
    BY <1>4 DEF ReadVersion, ReadCutoff, MatchNothing, Goto
  <1>5. CASE Scan(s)
    BY <1>5 DEF Scan, Goto
  <1>6. CASE ReadPrior(s)
    BY <1>6 DEF ReadPrior, Goto
  <1>7. CASE LockHead(s)
    BY <1>7 DEF LockHead, Goto
  <1>8. CASE Refuse(s) \/ MatchExisting(s) \/ Conflict(s)
    BY <1>8, FinishTypes DEF Refuse, MatchExisting, Conflict
  <1>9. CASE CommitDuplicate(s) \/ Crash(s)
    BY <1>9, FinishTypes DEF CommitDuplicate, Crash
  <1>. QED
    BY <1>2, <1>3, <1>4, <1>5, <1>6, <1>7, <1>8, <1>9 DEF Work

\* Before its commit a session takes the lock over what is settled, or leaves it.
LEMMA WorkLock ==
    ASSUME IInv, NEW s \in Session, Work(s)
    PROVE  LockOwned' /\ Settled' \in Nat /\ Settled <= Settled'
  <1>1. LockOwned /\ SessionTypes /\ LedgerTypes
    BY DEF IInv
  <1>2. /\ Settled \in Nat /\ Settled <= sequence /\ sequence \in Nat /\ NoSession # s
        /\ \A q \in Session : q # NoSession
        /\ \A q \in Session : seen[q].base \in Nat
    BY <1>1, SettledType, LabAssumption DEF LedgerTypes, SessionTypes, Sight
  <1>3. \A q \in Session : q # s => pc'[q] = pc[q] /\ cmd'[q] = cmd[q] /\ seen'[q] = seen[q]
    BY WorkLocal
  <1> DEFINE Held == lock # NoSession => sequence = seen[lock].base + Appends(lock)
  <1>5. CASE pc[s] # "commit" /\ pc'[s] # "commit" /\ UNCHANGED <<lock, sequence>>
    <2>1. lock # s
      BY <1>1, <1>5 DEF LockOwned
    <2>2. lock # NoSession => lock \in Session /\ cmd'[lock] = cmd[lock] /\ seen'[lock] = seen[lock]
      BY <1>1, <1>3, <2>1 DEF LedgerTypes
    <2>3. \A q \in Session : pc'[q] = "commit" <=> lock' = q
      BY <1>1, <1>3, <1>5, <2>1 DEF LockOwned
    <2>4. Held'
      BY <1>1, <1>5, <2>2 DEF LockOwned, Appends
    <2>5. Settled' = Settled
      BY <1>5, <2>2 DEF Settled
    <2>. QED
      BY <1>2, <2>3, <2>4, <2>5 DEF LockOwned
  <1>6. CASE LockHead(s)
    <2>1. /\ lock = NoSession /\ lock' = s /\ sequence' = sequence + Appends(s)
          /\ pc' = [pc EXCEPT ![s] = "commit"] /\ cmd' = cmd
          /\ seen' = [seen EXCEPT ![s] = [seen[s] EXCEPT !.base = sequence]]
      BY <1>6 DEF LockHead, Goto
    <2>2. seen'[s].base = sequence /\ seen'[s].terminal = seen[s].terminal
      BY <1>1, <2>1 DEF SessionTypes, Sight
    <2>3. Held'
      BY <2>1, <2>2 DEF Appends
    <2>4. \A q \in Session : pc'[q] = "commit" <=> lock' = q
      BY <1>1, <1>2, <2>1 DEF LockOwned, SessionTypes
    <2>5. Settled' = sequence
      BY <1>2, <2>1, <2>2 DEF Settled
    <2>. QED
      BY <1>2, <2>1, <2>2, <2>3, <2>4, <2>5 DEF LockOwned
  <1>7. CASE pc[s] = "commit" /\ Finish(s) /\ lock' = Unlocked(s) /\ UNCHANGED sequence
    <2>1. lock = s /\ lock' = NoSession
      BY <1>1, <1>7 DEF LockOwned, Unlocked
    <2>2. \A q \in Session : pc'[q] = "commit" <=> lock' = q
      BY <1>1, <1>2, <1>3, <1>7, <2>1, FinishTypes DEF LockOwned
    <2>3. Settled' = sequence
      BY <1>7, <2>1 DEF Settled
    <2>. QED
      BY <1>2, <2>1, <2>2, <2>3 DEF LockOwned
  <1>8. CASE pc[s] # "commit" /\ Finish(s) /\ lock' = Unlocked(s) /\ UNCHANGED sequence
    <2>1. lock # s /\ lock' = lock /\ pc'[s] = "idle"
      BY <1>1, <1>8, FinishTypes DEF LockOwned, Unlocked
    <2>. QED
      BY <1>5, <1>8, <2>1
  <1>. QED
    BY <1>5, <1>6, <1>7, <1>8, WorkLocal

\* Nothing a session reads is in flight.
LEMMA WorkSettled ==
    ASSUME IInv, NEW s \in Session, Work(s)
    PROVE  AllSettled'
  <1>1. AllSettled /\ SessionTypes /\ TableTypes /\ LedgerTypes
    BY DEF IInv
  <1>2. Settled \in Nat /\ Settled' \in Nat /\ Settled <= Settled'
    BY SettledType, WorkLock
  <1>3. \A q \in Session : seen'[q].cutoff <= Settled
    <2>1. \A q \in Session : q # s => seen'[q].cutoff <= Settled
      BY <1>1, WorkLocal DEF AllSettled
    <2>2. seen'[s].cutoff <= Settled
      <3>1. CASE seen'[s].cutoff \in {seen[s].cutoff, 0}
        BY <1>1, <1>2, <3>1 DEF AllSettled
      <3>2. CASE ReadCutoff(s)
        <4>1. log # <<>>
          <5>1. cmd[s] \in Command /\ cmd[s].op = "evaluate"
            BY <3>2 DEF IInv, ViewsHold, ReadCutoff
          <5>. QED
            BY <5>1, CommandNames DEF CommandRefers, IInv, References
        <4>2. Len(log) \in DOMAIN log
          BY <1>1, <4>1 DEF LedgerTypes
        <4>3. seen'[s].cutoff = log[Len(log)].pos
          BY <1>1, <3>2 DEF ReadCutoff, SessionTypes, Sight, Last
        <4>. QED
          BY <1>1, <4>2, <4>3 DEF AllSettled
      <3>3. CASE Finish(s)
        BY <1>1, <3>1, <3>3, FinishTypes DEF NothingSeen
      <3>4. CASE UNCHANGED seen
        BY <3>1, <3>4
      <3>5. CASE ReadHypothesis(s)
        BY <1>1, <3>1, <3>5 DEF ReadHypothesis, SessionTypes, Sight
      <3>6. CASE ReadVersion(s) \/ LockHead(s) \/ ReadPrior(s)
        BY <1>1, <3>1, <3>6 DEF ReadVersion, LockHead, ReadPrior, SessionTypes, Sight
      <3>7. CASE Scan(s)
        BY <1>1, <3>1, <3>7 DEF Scan, SessionTypes, Sight
      <3>. QED
        BY <3>2, <3>3, <3>4, <3>5, <3>6, <3>7 DEF Work, Receive, Refuse, MatchNothing, MatchExisting,
           Conflict, CommitDuplicate, Crash
    <2>. QED
      BY <2>1, <2>2
  <1>4. \A q \in Session : seen'[q].cutoff \in Nat
    BY WorkTypes DEF SessionTypes, Sight
  <1>5. \A n \in Nat : n <= Settled => n <= Settled'
    BY <1>2
  <1>6. \A i \in DOMAIN log : log[i] \in LogEvent
    BY <1>1 DEF LedgerTypes
  <1>7. \A x \in evidence : x.cutoff \in Nat
    BY <1>1 DEF TableTypes
  <1>. QED
    <2>1. 1..Settled \subseteq 1..Settled'
      BY <1>2
    <2>2. /\ DOMAIN hypotheses \subseteq 1..Settled' /\ DOMAIN experiments \subseteq 1..Settled'
          /\ DOMAIN beliefs \subseteq 1..Settled'
          /\ \A e \in DOMAIN experiments : experiments[e].activation \in 1..Settled'
      BY <1>1, <2>1 DEF AllSettled
    <2>3. \A i \in DOMAIN log : log[i].pos <= Settled' /\ log[i].agg <= Settled'
      BY <1>1, <1>5, <1>6 DEF AllSettled, LogEvent
    <2>4. \A x \in evidence : x.cutoff <= Settled'
      BY <1>1, <1>5, <1>7 DEF AllSettled
    <2>5. \A q \in Session : seen'[q].cutoff <= Settled'
      BY <1>3, <1>4, <1>5
    <2>. QED
      BY <2>2, <2>3, <2>4, <2>5, WorkQuiet DEF AllSettled

\* What session q knows, in the terms of ViewsHold.
ViewHolds(q) ==
    /\ pc[q] # "idle" => cmd[q] \in Command
    /\ pc[q] = "read" => cmd[q].op \notin {"submit", "propose"}
    /\ pc[q] = "version" => cmd[q].op \in {"activate", "retire"}
    /\ pc[q] \in {"cutoff", "scan", "match", "prior"} => cmd[q].op = "evaluate"
    /\ seen[q].prior \in DOMAIN beliefs \cup {None}
    /\ pc[q] # "read" /\ cmd[q].op = "evaluate" =>
          /\ seen[q].exp = experiments[cmd[q].on]
          /\ seen[q].row.experiment \in DOMAIN experiments
          /\ experiments[seen[q].row.experiment].hyp = seen[q].exp.hyp
    /\ pc[q] \in {"match", "prior", "lock", "commit"} /\ cmd[q].op = "evaluate" =>
          seen[q].scanned = {o \in Observations : o <= seen[q].cutoff}
    /\ pc[q] = "commit" /\ cmd[q].op \in {"activate", "retire"} =>
          seen[q].ver = LatestVersion(cmd[q].on)

\* Before its commit a session reads what still holds when it commits.
LEMMA WorkViews ==
    ASSUME IInv, NEW s \in Session, Work(s)
    PROVE  ViewsHold'
  <1>1. SessionTypes /\ TableTypes /\ References /\ LiveHasExperiment
    BY DEF IInv
  <1>2. \A q \in Session : ViewHolds(q)
    BY Zenon DEF IInv, ViewsHold, ViewHolds
  <1>3. UNCHANGED <<log, hypotheses, experiments, evidence, beliefs, current, learnings, overdue>>
    BY WorkQuiet
  <1>4. Command' = Command /\ Observations' = Observations
    BY <1>3 DEF Command, Observations
  <1>5. /\ pc \in [Session -> Control] /\ cmd \in [Session -> CommandForm] /\ seen \in [Session -> Sight]
        /\ seen[s] \in Sight
    BY <1>1 DEF SessionTypes
  <1>6. ASSUME NEW q \in Session, q # s PROVE ViewHolds(q)'
    <2>1. pc'[q] = pc[q] /\ cmd'[q] = cmd[q] /\ seen'[q] = seen[q]
      BY <1>6, WorkLocal
    <2>. QED
      BY <1>2, <1>3, <1>4, <2>1 DEF ViewHolds, LatestVersion
  <1>7. ASSUME Finish(s) PROVE ViewHolds(s)'
    BY <1>1, <1>3, <1>4, <1>7, FinishTypes DEF ViewHolds, NoCommand, Ask, NothingSeen
  <1>8. CASE \E c \in Command : Receive(s, c)
    <2>1. PICK c \in Command : Receive(s, c)
      BY <1>8
    <2>2. /\ cmd'[s] = c /\ seen' = seen
          /\ pc'[s] = IF c.op \in {"submit", "propose"} THEN "lock" ELSE "read"
      BY <1>5, <2>1 DEF Receive, Goto
    <2>3. ViewHolds(s)'
      BY <1>2, <1>3, <1>4, <2>2 DEF ViewHolds
    <2>. QED
      BY <1>6, <2>3 DEF ViewsHold, ViewHolds
  <1>9. CASE ReadHypothesis(s)
    <2> DEFINE c == cmd[s]
    <2>1. /\ pc[s] = "read" /\ Found(c) /\ Acceptable(c, hypotheses[Subject(c)].status)
          /\ cmd' = cmd /\ pc'[s] = IF c.op = "evaluate" THEN "cutoff" ELSE "version"
          /\ seen'[s].row = hypotheses[Subject(c)] /\ seen'[s].prior = seen[s].prior
          /\ c.op = "evaluate" => seen'[s].exp = experiments[c.on]
      BY <1>5, <1>9 DEF ReadHypothesis, Goto, Sight
    <2>2. c \in Command /\ CommandRefers(c) /\ c.op \in {"activate", "retire", "evaluate"}
      BY <1>2, <2>1, CommandNames DEF ViewHolds, CommandRefers
    <2>3. ASSUME c.op = "evaluate"
          PROVE  /\ seen'[s].row.experiment \in DOMAIN experiments
                 /\ experiments[seen'[s].row.experiment].hyp = experiments[c.on].hyp
      <3>1. Subject(c) = experiments[c.on].hyp /\ c.on \in DOMAIN experiments
        BY <2>2, <2>3 DEF Subject, CommandRefers
      <3>2. /\ Subject(c) \in DOMAIN hypotheses /\ hypotheses[Subject(c)].status \in Status
            /\ hypotheses[Subject(c)].status # "PROPOSED" /\ hypotheses[Subject(c)].status # "RETIRED"
        BY <1>1, <2>1, <2>3, <3>1 DEF References, Acceptable, TableTypes, HypothesisRow
      <3>3. hypotheses[Subject(c)].status \in {"ACTIVE", "OBSERVING", "EVALUATED"}
        BY <3>2 DEF Status
      <3>. QED
        BY <1>1, <2>1, <3>1, <3>2, <3>3 DEF LiveHasExperiment
    <2>4. ViewHolds(s)'
      BY <1>2, <1>3, <1>4, <2>1, <2>2, <2>3 DEF ViewHolds
    <2>. QED
      BY <1>6, <2>4 DEF ViewsHold, ViewHolds
  <1>10. CASE ReadVersion(s)
    <2>1. /\ pc[s] = "version" /\ pc'[s] = "lock" /\ cmd' = cmd /\ seen'[s].prior = seen[s].prior
      BY <1>5, <1>10 DEF ReadVersion, Goto, Sight
    <2>2. ViewHolds(s)'
      BY <1>2, <1>3, <1>4, <2>1 DEF ViewHolds
    <2>. QED
      BY <1>6, <2>2 DEF ViewsHold, ViewHolds
  <1>11. CASE ReadCutoff(s)
    <2>1. /\ pc[s] = "cutoff" /\ pc'[s] = "scan" /\ cmd' = cmd
          /\ seen'[s].prior = seen[s].prior /\ seen'[s].exp = seen[s].exp /\ seen'[s].row = seen[s].row
      BY <1>5, <1>11 DEF ReadCutoff, Goto, Sight
    <2>2. ViewHolds(s)'
      BY <1>2, <1>3, <1>4, <2>1 DEF ViewHolds
    <2>. QED
      BY <1>6, <2>2 DEF ViewsHold, ViewHolds
  <1>12. CASE Scan(s)
    <2> DEFINE view == [seen[s] EXCEPT !.scanned = {o \in Observations : o <= seen[s].cutoff}]
    <2>1. PICK t \in MayBeTerminal(cmd[s], view) : seen' = [seen EXCEPT ![s] = [view EXCEPT !.terminal = t]]
      BY <1>12 DEF Scan
    <2>2. /\ pc[s] = "scan" /\ pc'[s] = "match" /\ cmd' = cmd
      BY <1>5, <1>12 DEF Scan, Goto
    <2>3. /\ seen'[s].prior = seen[s].prior /\ seen'[s].exp = seen[s].exp /\ seen'[s].row = seen[s].row
          /\ seen'[s].cutoff = seen[s].cutoff
          /\ seen'[s].scanned = {o \in Observations : o <= seen[s].cutoff}
      BY <1>5, <2>1 DEF Sight
    <2>4. ViewHolds(s)'
      BY <1>2, <1>3, <1>4, <2>2, <2>3 DEF ViewHolds
    <2>. QED
      BY <1>6, <2>4 DEF ViewsHold, ViewHolds
  <1>13. CASE MatchNothing(s)
    <2>1. pc[s] = "match" /\ pc'[s] = "prior" /\ cmd' = cmd /\ seen' = seen
      BY <1>5, <1>13 DEF MatchNothing, Goto
    <2>2. ViewHolds(s)'
      BY <1>2, <1>3, <1>4, <2>1 DEF ViewHolds
    <2>. QED
      BY <1>6, <2>2 DEF ViewsHold, ViewHolds
  <1>14. CASE ReadPrior(s)
    <2>1. /\ pc[s] = "prior" /\ pc'[s] = "lock" /\ cmd' = cmd
          /\ seen'[s].prior \in DOMAIN beliefs \cup {None}
          /\ seen'[s].exp = seen[s].exp /\ seen'[s].row = seen[s].row
          /\ seen'[s].cutoff = seen[s].cutoff /\ seen'[s].scanned = seen[s].scanned
      <3>1. current \subseteq DOMAIN beliefs /\ seen[s].prior \in DOMAIN beliefs \cup {None}
        BY <1>1, <1>2 DEF TableTypes, ViewHolds
      <3>. QED
        BY <1>5, <1>14, <3>1 DEF ReadPrior, Goto, Sight
    <2>2. ViewHolds(s)'
      BY <1>2, <1>3, <1>4, <2>1 DEF ViewHolds
    <2>. QED
      BY <1>6, <2>2 DEF ViewsHold, ViewHolds
  <1>15. CASE LockHead(s)
    <2>1. /\ pc[s] = "lock" /\ pc'[s] = "commit" /\ cmd' = cmd
          /\ seen'[s].prior = seen[s].prior /\ seen'[s].ver = seen[s].ver
          /\ seen'[s].exp = seen[s].exp /\ seen'[s].row = seen[s].row
          /\ seen'[s].cutoff = seen[s].cutoff /\ seen'[s].scanned = seen[s].scanned
          /\ cmd[s].op \in {"activate", "retire"} => LatestVersion(cmd[s].on) = seen[s].ver
      BY <1>5, <1>15 DEF LockHead, Goto, Sight, Stale
    <2>2. LatestVersion(cmd[s].on)' = LatestVersion(cmd[s].on)
      BY <1>3, <2>1 DEF LatestVersion
    <2>3. ViewHolds(s)'
      BY <1>2, <1>3, <1>4, <2>1, <2>2 DEF ViewHolds
    <2>. QED
      BY <1>6, <2>3 DEF ViewsHold, ViewHolds
  <1>16. CASE Refuse(s) \/ MatchExisting(s) \/ Conflict(s) \/ CommitDuplicate(s) \/ Crash(s)
    <2>1. ViewHolds(s)'
      BY <1>7, <1>16 DEF Refuse, MatchExisting, Conflict, CommitDuplicate, Crash
    <2>. QED
      BY <1>6, <2>1 DEF ViewsHold, ViewHolds
  <1>. QED
    BY <1>8, <1>9, <1>10, <1>11, <1>12, <1>13, <1>14, <1>15, <1>16 DEF Work

\* A step of a session before its commit keeps the invariant.
LEMMA WorkKeeps ==
    ASSUME IInv, NEW s \in Session, Work(s)
    PROVE  IInv'
  <1>1. UNCHANGED <<log, hypotheses, experiments, evidence, beliefs, current, learnings, overdue>>
    BY WorkQuiet
  <1>2. References' /\ VersionsContiguous' /\ LiveHasExperiment' /\ EvidenceReproducible' /\ EvidenceUnique'
        /\ CurrentIsLatest'
    BY <1>1, Zenon DEF IInv, References, VersionsContiguous, LiveHasExperiment, EvidenceReproducible,
       EvidenceUnique, CurrentIsLatest, Observations
  <1>. QED
    BY <1>2, WorkTypes, WorkLock, WorkSettled, WorkViews DEF IInv

\* A deadline that passes keeps the invariant.
LEMMA ClockKeeps ==
    ASSUME IInv, Clock
    PROVE  IInv'
  <1>1. PICK e \in DOMAIN experiments : WindowExpires(e)
    BY DEF Clock
  <1>2. UNCHANGED <<log, sequence, lock, hypotheses, experiments, evidence, beliefs, current, learnings,
                    pc, cmd, seen>>
    BY <1>1 DEF WindowExpires, ledger, tables
  <1>3. TableTypes'
    BY <1>1, <1>2 DEF IInv, TableTypes, WindowExpires
  <1>4. /\ LedgerTypes' /\ SessionTypes' /\ References' /\ AllSettled' /\ LockOwned' /\ ViewsHold'
        /\ VersionsContiguous' /\ LiveHasExperiment' /\ EvidenceReproducible' /\ EvidenceUnique'
        /\ CurrentIsLatest'
    <2>1. Command' = Command /\ Observations' = Observations /\ Settled' = Settled
      BY <1>2 DEF Command, Observations, Settled
    <2>2. LedgerTypes' /\ SessionTypes' /\ References'
      BY <1>2, <2>1, Zenon DEF IInv, LedgerTypes, SessionTypes, References
    <2>3. AllSettled'
      BY <1>2, <2>1, Zenon DEF IInv, AllSettled
    <2>4. LockOwned'
      BY <1>2 DEF IInv, LockOwned, Appends
    <2>5. ViewsHold'
      BY <1>2, <2>1, Zenon DEF IInv, ViewsHold, LatestVersion
    <2>6. AllSettled' /\ LockOwned' /\ ViewsHold'
      BY <2>3, <2>4, <2>5
    <2>7. /\ VersionsContiguous' /\ LiveHasExperiment' /\ EvidenceReproducible' /\ EvidenceUnique'
          /\ CurrentIsLatest'
      BY <1>2, Zenon DEF IInv, VersionsContiguous, LiveHasExperiment, EvidenceReproducible,
         EvidenceUnique, CurrentIsLatest, Observations
    <2>. QED
      BY <2>2, <2>6, <2>7
  <1>. QED
    BY <1>3, <1>4 DEF IInv

-----------------------------------------------------------------------------
(* What a commit preserves. *)

\* The observations there were are those that are settled; whatever a commit adds is
\* beyond them.
LEMMA CommitObservations ==
    ASSUME IInv, NEW s \in Session, Commit(s)
    PROVE  /\ Observations \subseteq Observations'
           /\ \A n \in Nat : n <= Settled =>
                 {o \in Observations' : o <= n} = {o \in Observations : o <= n}
  <1>1. /\ Continues(log', sequence) /\ Settled \in Nat /\ log \in Seq(LogEvent)
    BY CommitLog, SettledType DEF IInv, LedgerTypes
  <1>2. /\ DOMAIN log \subseteq DOMAIN log' /\ \A i \in DOMAIN log : log'[i] = log[i]
        /\ \A i \in DOMAIN log' \ DOMAIN log : log'[i].pos > Settled
        /\ \A i \in DOMAIN log' : log'[i].pos \in Nat
    <2>1. \A i \in DOMAIN log' : log'[i] \in LogEvent
      BY <1>1 DEF Continues
    <2>2. DOMAIN log \subseteq DOMAIN log'
      BY <1>1 DEF Continues
    <2>. QED
      BY <1>1, <2>1, <2>2 DEF Continues, LogEvent
  <1>3. Observations = {log[i].pos : i \in {j \in DOMAIN log : log[j].kind = "ObservationAccepted"}}
    BY DEF Observations, ToSet
  <1>4. Observations' = {log'[i].pos : i \in {j \in DOMAIN log' : log'[j].kind = "ObservationAccepted"}}
    BY DEF Observations, ToSet
  <1>5. Observations \subseteq Observations'
    BY <1>2, <1>3, <1>4
  <1>6. \A o \in Observations' : o \in Nat /\ (o \in Observations \/ o > Settled)
    BY <1>2, <1>3, <1>4
  <1>7. ASSUME NEW n \in Nat, n <= Settled
        PROVE  {o \in Observations' : o <= n} = {o \in Observations : o <= n}
    BY <1>1, <1>5, <1>6, <1>7
  <1>. QED
    BY <1>5, <1>7

\* A commit leaves the other sessions with what they read.
LEMMA CommitSessions ==
    ASSUME IInv, NEW s \in Session, Commit(s)
    PROVE  LedgerTypes' /\ SessionTypes' /\ LockOwned' /\ ViewsHold'
  <1>1. LedgerTypes /\ SessionTypes /\ LockOwned /\ AllSettled
    BY DEF IInv
  <1>2. /\ pc[s] = "commit" /\ Finish(s) /\ lock = s /\ lock' = NoSession /\ UNCHANGED sequence
        /\ log' \in Seq(LogEvent)
    BY CommitLog DEF Continues
  <1>3. LedgerTypes'
    BY <1>1, <1>2 DEF LedgerTypes
  <1>4. Growth
    BY CommitTables
  <1>5. Command \subseteq Command'
    BY <1>4, CommandsStay DEF Growth
  <1>6. /\ pc' \in [Session -> Control] /\ seen' \in [Session -> Sight] /\ cmd' \in [Session -> CommandForm]
        /\ pc'[s] = "idle" /\ cmd'[s] = NoCommand /\ seen'[s] = NothingSeen
        /\ \A q \in Session : q # s => pc'[q] = pc[q] /\ cmd'[q] = cmd[q] /\ seen'[q] = seen[q]
    BY <1>1, <1>2, FinishTypes
  <1>7. SessionTypes'
    BY <1>1, <1>5, <1>6 DEF SessionTypes
  <1>8. LockOwned'
    BY <1>1, <1>2, <1>6, LabAssumption DEF LockOwned
  <1>9. ViewHolds(s)'
    BY <1>6 DEF ViewHolds, NoCommand, Ask, NothingSeen
  <1>10. ASSUME NEW q \in Session, q # s PROVE ViewHolds(q)'
    <2>1. ViewHolds(q)
      BY Zenon DEF IInv, ViewsHold, ViewHolds
    <2>2. pc'[q] = pc[q] /\ cmd'[q] = cmd[q] /\ seen'[q] = seen[q] /\ pc[q] # "commit"
      BY <1>1, <1>2, <1>6, <1>10 DEF LockOwned
    <2>3. cmd[q].op = "evaluate" => cmd[q].on \in DOMAIN experiments
      <3>1. cmd[q] \in Command \/ cmd[q].op = "none"
        BY <1>1 DEF SessionTypes, NoCommand, Ask
      <3>. QED
        BY <3>1, CommandNames DEF CommandRefers
    <2>4. {o \in Observations' : o <= seen[q].cutoff} = {o \in Observations : o <= seen[q].cutoff}
      <3>1. seen[q].cutoff \in Nat /\ seen[q].cutoff <= Settled
        BY <1>1 DEF SessionTypes, Sight, AllSettled
      <3>. QED
        BY <3>1, CommitObservations
    <2>5. /\ DOMAIN experiments \subseteq DOMAIN experiments' /\ DOMAIN beliefs \subseteq DOMAIN beliefs'
          /\ \A e \in DOMAIN experiments : experiments'[e] = experiments[e]
      BY <1>4 DEF Growth
    <2>. QED
      BY <1>5, <2>1, <2>2, <2>3, <2>4, <2>5 DEF ViewHolds
  <1>11. ViewsHold'
    BY <1>9, <1>10 DEF ViewsHold, ViewHolds
  <1>. QED
    BY <1>3, <1>7, <1>8, <1>11

\* A commit writes nothing beyond what is settled after it.
LEMMA CommitSettled ==
    ASSUME IInv, NEW s \in Session, Commit(s)
    PROVE  AllSettled'
  <1>1. AllSettled /\ SessionTypes /\ TableTypes
    BY DEF IInv
  <1> DEFINE base == seen[s].base
  <1>2. /\ Settled = base /\ base \in Nat /\ Settled' = sequence /\ sequence = base + Appends(s)
        /\ Finish(s) /\ cmd[s] \in Command /\ CommandRefers(cmd[s])
    BY CommitLog, SettledType
  <1>3. Appends(s) \in {1, 2, 3, 4} /\ base < sequence /\ sequence \in Nat /\ 1..base \subseteq 1..sequence
        /\ base + 1 \in 1..sequence
    BY <1>2 DEF Appends
  <1>4. \A i \in DOMAIN log' : log'[i].pos <= sequence /\ log'[i].agg <= sequence
    BY CommitLog DEF Continues
  <1>5. \A q \in Session : seen'[q].cutoff <= sequence
    <2>1. \A q \in Session : seen[q].cutoff \in Nat /\ seen[q].cutoff <= base
      BY <1>1, <1>2 DEF AllSettled, SessionTypes, Sight
    <2>2. seen'[s].cutoff = 0 /\ \A q \in Session : q # s => seen'[q] = seen[q]
      BY <1>1, <1>2, FinishTypes DEF NothingSeen
    <2>. QED
      BY <1>2, <1>3, <2>1, <2>2
  <1>6. /\ DOMAIN hypotheses \subseteq 1..sequence /\ DOMAIN experiments \subseteq 1..sequence
        /\ DOMAIN beliefs \subseteq 1..sequence
        /\ \A e \in DOMAIN experiments : experiments[e].activation \in 1..sequence
    BY <1>1, <1>2, <1>3 DEF AllSettled
  <1>7. \A x \in evidence : x.cutoff <= sequence
    <2>1. \A x \in evidence : x.cutoff \in Nat /\ x.cutoff <= base
      BY <1>1, <1>2 DEF AllSettled, TableTypes
    <2>. QED
      BY <1>2, <1>3, <2>1
  <1> SUFFICES /\ DOMAIN hypotheses' \subseteq 1..sequence /\ DOMAIN experiments' \subseteq 1..sequence
               /\ DOMAIN beliefs' \subseteq 1..sequence
               /\ \A e \in DOMAIN experiments' : experiments'[e].activation \in 1..sequence
               /\ \A x \in evidence' : x.cutoff <= sequence
    BY <1>2, <1>4, <1>5, Zenon DEF AllSettled
  <1>8. CASE CommitSubmit(s)
    BY <1>6, <1>7, <1>8 DEF CommitSubmit, tables
  <1>9. CASE CommitPropose(s)
    BY <1>3, <1>6, <1>7, <1>9 DEF CommitPropose, Upsert
  <1>10. CASE CommitActivate(s)
    <2>1. cmd[s].on \in DOMAIN hypotheses /\ base + 2 \in 1..sequence
      BY <1>2, <1>10 DEF CommitActivate, CommandRefers, Appends
    <2>2. DOMAIN hypotheses' = DOMAIN hypotheses \cup {cmd[s].on}
      BY <1>10 DEF CommitActivate, Upsert
    <2> DEFINE trial == [hyp |-> cmd[s].on, activation |-> base + 1]
    <2>3. experiments' = Upsert(experiments, base + 2, trial) /\ trial.activation \in 1..sequence
      BY <1>3, <1>10 DEF CommitActivate
    <2>4. UNCHANGED <<beliefs, evidence>>
      BY <1>10 DEF CommitActivate
    <2> HIDE DEF trial
    <2>5. /\ DOMAIN experiments' \subseteq 1..sequence
          /\ \A e \in DOMAIN experiments' : experiments'[e].activation \in 1..sequence
      BY <1>6, <2>1, <2>3 DEF Upsert
    <2>. QED
      BY <1>6, <1>7, <2>1, <2>2, <2>4, <2>5
  <1>11. CASE CommitRetire(s)
    <2>1. cmd[s].on \in DOMAIN hypotheses
      BY <1>2, <1>11 DEF CommitRetire, CommandRefers
    <2>2. DOMAIN hypotheses' = DOMAIN hypotheses \cup {cmd[s].on}
          /\ UNCHANGED <<experiments, beliefs, evidence>>
      BY <1>11 DEF CommitRetire, Upsert
    <2>. QED
      BY <1>6, <1>7, <2>1, <2>2
  <1>12. CASE CommitEvaluate(s)
    <2> DEFINE h == Hypothesis(s)
               v == seen[s]
    <2>1. h \in DOMAIN hypotheses /\ cmd[s].on \in DOMAIN experiments /\ v.exp = experiments[cmd[s].on]
      BY <1>12, EvaluationFacts
    <2>2. base + 2 \in 1..sequence
      BY <1>2, <1>12 DEF CommitEvaluate, Appends
    <2>3. /\ DOMAIN hypotheses' = DOMAIN hypotheses \cup {h}
          /\ DOMAIN beliefs' = DOMAIN beliefs \cup {base + 2}
          /\ experiments' = Upsert(experiments, cmd[s].on, v.exp)
      BY <1>12 DEF CommitEvaluate, Upsert
    <2>4. \A x \in evidence' : x \in evidence \/ x.cutoff = v.cutoff
      BY <1>12 DEF CommitEvaluate
    <2>5. v.cutoff <= sequence
      <3>1. v.cutoff \in Nat /\ v.cutoff <= base
        BY <1>1, <1>2 DEF AllSettled, SessionTypes, Sight
      <3>. QED
        BY <1>2, <1>3, <3>1
    <2>6. /\ DOMAIN experiments' \subseteq 1..sequence
          /\ \A e \in DOMAIN experiments' : experiments'[e].activation \in 1..sequence
      BY <1>6, <2>1, <2>3 DEF Upsert
    <2>. QED
      BY <1>6, <1>7, <2>1, <2>2, <2>3, <2>4, <2>5, <2>6
  <1>. QED
    BY <1>8, <1>9, <1>10, <1>11, <1>12 DEF Commit

\* The rows a commit writes refer to rows that exist, and a hypothesis it leaves in
\* progress names an experiment of its own.
LEMMA CommitReferences ==
    ASSUME IInv, NEW s \in Session, Commit(s)
    PROVE  References' /\ LiveHasExperiment'
  <1>1. References /\ LiveHasExperiment /\ TableTypes /\ LedgerTypes
    BY DEF IInv
  <1>2. Growth
    BY CommitTables
  <1>3. cmd[s] \in Command /\ CommandRefers(cmd[s])
    BY CommitLog
  <1> DEFINE base == seen[s].base
             Logged == /\ \A i \in DOMAIN log' : log'[i].data.sources \subseteq Observations'
                       /\ log' # <<>>
             Tested == \A e \in DOMAIN experiments' :
                          /\ experiments'[e].hyp \in DOMAIN hypotheses'
                          /\ hypotheses'[experiments'[e].hyp].status # "PROPOSED"
             Seen == \A x \in evidence' : x.exp \in DOMAIN experiments'
             Believed == \A b \in DOMAIN beliefs' :
                            /\ beliefs'[b].hyp \in DOMAIN hypotheses'
                            /\ beliefs'[b].prev \in DOMAIN beliefs' \cup {None}
             Learned == \A x \in learnings' :
                           x.belief \in DOMAIN beliefs' /\ x.prior \in DOMAIN beliefs' \cup {None}
             Tried == \A h \in DOMAIN hypotheses' :
                         hypotheses'[h].status \in {"ACTIVE", "OBSERVING", "EVALUATED"} =>
                             /\ hypotheses'[h].experiment \in DOMAIN experiments'
                             /\ experiments'[hypotheses'[h].experiment].hyp = h
  <1>4. Logged
    <2>1. Observations \subseteq Observations' /\ Continues(log', sequence) /\ log' # <<>>
      BY CommitObservations, CommitLog
    <2>2. \A i \in DOMAIN log' : log'[i].data.sources \subseteq Observations
      BY <1>1, <2>1 DEF Continues, References
    <2>. QED
      BY <2>1, <2>2
  <1> SUFFICES Tested /\ Seen /\ Believed /\ Learned /\ Tried
    <2> HIDE DEF Logged
    <2>1. Logged => /\ \A i \in DOMAIN log' : log'[i].data.sources \subseteq Observations'
                    /\ log' # <<>>
      BY DEF Logged
    <2>. QED
      BY <1>4, <2>1, Zenon DEF References, LiveHasExperiment
  \* What was there stays as it must be.
  <1>5. /\ \A e \in DOMAIN experiments : /\ experiments'[e].hyp \in DOMAIN hypotheses'
                                         /\ hypotheses'[experiments'[e].hyp].status # "PROPOSED"
        /\ \A x \in evidence : x.exp \in DOMAIN experiments'
        /\ \A b \in DOMAIN beliefs : /\ beliefs'[b].hyp \in DOMAIN hypotheses'
                                     /\ beliefs'[b].prev \in DOMAIN beliefs' \cup {None}
        /\ \A x \in learnings : x.belief \in DOMAIN beliefs' /\ x.prior \in DOMAIN beliefs' \cup {None}
    BY <1>1, <1>2 DEF References, Growth
  <1>6. \A h \in DOMAIN hypotheses :
           hypotheses[h].status \in {"ACTIVE", "OBSERVING", "EVALUATED"} =>
               /\ hypotheses[h].experiment \in DOMAIN experiments'
               /\ experiments'[hypotheses[h].experiment].hyp = h
    BY <1>1, <1>2 DEF LiveHasExperiment, Growth
  <1> HIDE DEF Logged
  <1>7. CASE CommitSubmit(s)
    <2>1. UNCHANGED <<hypotheses, experiments, evidence, beliefs, current, learnings>>
      BY <1>7 DEF CommitSubmit, tables
    <2>. QED
      BY <1>5, <1>6, <2>1
  <1>8. CASE CommitPropose(s)
    <2>1. /\ hypotheses' = Upsert(hypotheses, base + 1, [status |-> "PROPOSED", experiment |-> None])
          /\ UNCHANGED <<experiments, evidence, beliefs, current, learnings>>
      BY <1>8 DEF CommitPropose
    <2>2. \A h \in DOMAIN hypotheses' :
             hypotheses'[h].status = "PROPOSED" \/ (h \in DOMAIN hypotheses /\ hypotheses'[h] = hypotheses[h])
      BY <2>1 DEF Upsert
    <2>. QED
      BY <1>5, <1>6, <2>1, <2>2
  <1>9. CASE CommitActivate(s)
    <2> DEFINE row == [status |-> "ACTIVE", experiment |-> base + 2]
               trial == [hyp |-> cmd[s].on, activation |-> base + 1]
    <2>1. /\ hypotheses' = Upsert(hypotheses, cmd[s].on, row)
          /\ experiments' = Upsert(experiments, base + 2, trial)
          /\ UNCHANGED <<evidence, beliefs, current, learnings>>
          /\ row.status = "ACTIVE" /\ row.experiment = base + 2 /\ trial.hyp = cmd[s].on
      BY <1>9 DEF CommitActivate
    <2> HIDE DEF row, trial
    <2>2. /\ DOMAIN experiments' = DOMAIN experiments \cup {base + 2} /\ experiments'[base + 2] = trial
          /\ cmd[s].on \in DOMAIN hypotheses' /\ hypotheses'[cmd[s].on] = row
          /\ \A h \in DOMAIN hypotheses' :
                h = cmd[s].on \/ (h \in DOMAIN hypotheses /\ hypotheses'[h] = hypotheses[h])
      BY <2>1 DEF Upsert
    <2>3. Tested
      BY <1>5, <2>1, <2>2
    <2>4. Tried
      BY <1>6, <2>1, <2>2
    <2>. QED
      BY <1>5, <2>1, <2>3, <2>4
  <1>10. CASE CommitRetire(s)
    <2>1. /\ hypotheses' = Upsert(hypotheses, cmd[s].on, Retired(seen[s].row))
          /\ UNCHANGED <<experiments, evidence, beliefs, current, learnings>>
      BY <1>10 DEF CommitRetire
    <2>2. Retired(seen[s].row).status = "RETIRED"
      BY DEF IInv, SessionTypes, Sight, HypothesisRow, Retired
    <2>3. \A h \in DOMAIN hypotheses' :
             hypotheses'[h].status = "RETIRED" \/ (h \in DOMAIN hypotheses /\ hypotheses'[h] = hypotheses[h])
      BY <2>1, <2>2 DEF Upsert
    <2>. QED
      BY <1>5, <1>6, <2>1, <2>3
  <1>11. CASE CommitEvaluate(s)
    <2> DEFINE v == seen[s]
               h == Hypothesis(s)
               row == [v.row EXCEPT !.status = IF v.terminal THEN "EVALUATED" ELSE "OBSERVING"]
               belief == [hyp |-> h, evidence |-> base + 1, prev |-> v.prior]
               found == [id |-> base + 1, exp |-> cmd[s].on, phase |-> cmd[s].phase, cutoff |-> v.cutoff,
                         sources |-> Sources(cmd[s], v)]
               learned == [id |-> base + 4, belief |-> base + 2, prior |-> v.prior]
    <2>1. /\ hypotheses' = Upsert(hypotheses, h, row)
          /\ experiments' = Upsert(experiments, cmd[s].on, v.exp)
          /\ evidence' = evidence \cup {found}
          /\ beliefs' = Upsert(beliefs, base + 2, belief)
          /\ learnings' \in {learnings, learnings \cup {learned}}
      BY <1>11 DEF CommitEvaluate
    <2>2. /\ cmd[s].on \in DOMAIN experiments /\ v.exp = experiments[cmd[s].on] /\ h = v.exp.hyp
          /\ h \in DOMAIN hypotheses
          /\ v.row.experiment \in DOMAIN experiments /\ experiments[v.row.experiment].hyp = h
          /\ v.prior \in DOMAIN beliefs \cup {None} /\ base + 2 \notin DOMAIN beliefs
      BY <1>11, EvaluationFacts
    <2>3. row.experiment = v.row.experiment
      BY DEF IInv, SessionTypes, Sight, HypothesisRow
    <2>4. /\ belief.hyp = h /\ belief.prev = v.prior /\ found.exp = cmd[s].on
          /\ learned.belief = base + 2 /\ learned.prior = v.prior
      OBVIOUS
    <2> HIDE DEF row, belief, found, learned, h
    <2>5. /\ DOMAIN beliefs' = DOMAIN beliefs \cup {base + 2} /\ beliefs'[base + 2] = belief
          /\ DOMAIN experiments' = DOMAIN experiments
          /\ h \in DOMAIN hypotheses' /\ hypotheses'[h] = row
          /\ \A x \in DOMAIN hypotheses' : x = h \/ (x \in DOMAIN hypotheses /\ hypotheses'[x] = hypotheses[x])
      BY <2>1, <2>2 DEF Upsert
    <2>6. Tested /\ Seen
      BY <1>5, <2>1, <2>2, <2>4, <2>5
    <2>7. Believed
      BY <1>5, <2>2, <2>4, <2>5
    <2>8. Learned
      BY <1>5, <2>1, <2>2, <2>4, <2>5
    <2>9. Tried
      <3>1. /\ hypotheses'[h].experiment \in DOMAIN experiments'
            /\ experiments'[hypotheses'[h].experiment].hyp = h
        BY <1>2, <2>2, <2>3, <2>5 DEF Growth
      <3>. QED
        BY <1>6, <2>5, <3>1
    <2>. QED
      BY <2>6, <2>7, <2>8, <2>9
  <1>. QED
    BY <1>7, <1>8, <1>9, <1>10, <1>11 DEF Commit

\* Only an evaluation writes evidence, and what it writes is neither missing a source
\* nor there already.
LEMMA CommitEvidence ==
    ASSUME IInv, NEW s \in Session, Commit(s)
    PROVE  EvidenceReproducible' /\ EvidenceUnique'
  <1>1. EvidenceReproducible /\ EvidenceUnique /\ References /\ AllSettled /\ TableTypes
    BY DEF IInv
  <1>2. Growth
    BY CommitTables
  <1>3. ASSUME NEW x \in evidence
        PROVE  x.sources = Cohort(experiments'[x.exp].activation, x.phase, {o \in Observations' : o <= x.cutoff})
    <2>1. x.exp \in DOMAIN experiments /\ x.cutoff \in Nat /\ x.cutoff <= Settled
      BY <1>1 DEF References, AllSettled, TableTypes
    <2>2. {o \in Observations' : o <= x.cutoff} = {o \in Observations : o <= x.cutoff}
      BY <2>1, CommitObservations
    <2>3. experiments'[x.exp] = experiments[x.exp]
      BY <1>2, <2>1 DEF Growth
    <2>4. x.sources = Cohort(experiments[x.exp].activation, x.phase, {o \in Observations : o <= x.cutoff})
      BY <1>1 DEF EvidenceReproducible
    <2>. QED
      BY <2>2, <2>3, <2>4
  <1>4. CASE evidence' = evidence
    <2>1. EvidenceReproducible'
      BY <1>3, <1>4, Zenon DEF EvidenceReproducible
    <2>. QED
      BY <1>1, <1>4, <2>1 DEF EvidenceUnique
  <1>5. CASE CommitEvaluate(s)
    <2> DEFINE v == seen[s]
               found == [id |-> v.base + 1, exp |-> cmd[s].on, phase |-> cmd[s].phase, cutoff |-> v.cutoff,
                         sources |-> Sources(cmd[s], v)]
    <2>1. evidence' = evidence \cup {found} /\ SameFingerprint(cmd[s], v) = {}
      BY <1>5 DEF CommitEvaluate, Duplicate
    <2>2. /\ found.exp = cmd[s].on /\ found.phase = cmd[s].phase /\ found.cutoff = v.cutoff
          /\ found.sources = Cohort(v.exp.activation, cmd[s].phase, v.scanned)
      BY DEF Sources
    <2>3. /\ cmd[s].on \in DOMAIN experiments /\ v.exp = experiments[cmd[s].on]
          /\ v.scanned = {o \in Observations : o <= v.cutoff}
      BY <1>5, EvaluationFacts
    <2>4. {o \in Observations' : o <= v.cutoff} = {o \in Observations : o <= v.cutoff}
      <3>1. v.cutoff \in Nat /\ v.cutoff <= Settled
        BY DEF IInv, AllSettled, SessionTypes, Sight
      <3>. QED
        BY <3>1, CommitObservations
    <2>5. experiments'[cmd[s].on] = v.exp
      BY <1>2, <2>3 DEF Growth
    <2>6. ~ \E x \in evidence : /\ x.exp = found.exp /\ x.phase = found.phase /\ x.cutoff = found.cutoff
                                /\ x.sources = found.sources
      BY <2>1 DEF SameFingerprint
    <2> HIDE DEF found
    <2>7. found.sources =
             Cohort(experiments'[found.exp].activation, found.phase, {o \in Observations' : o <= found.cutoff})
      BY <2>2, <2>3, <2>4, <2>5
    <2>8. EvidenceReproducible'
      BY <1>3, <2>1, <2>7, Zenon DEF EvidenceReproducible
    <2>9. EvidenceUnique'
      BY <1>1, <2>1, <2>6 DEF EvidenceUnique
    <2>. QED
      BY <2>8, <2>9
  <1>. QED
    BY <1>4, <1>5 DEF Commit, CommitSubmit, CommitPropose, CommitActivate, CommitRetire, tables

\* A new belief is the latest of its hypothesis, and every other belief of that
\* hypothesis is demoted, whichever the evaluation had read.
LEMMA CommitBeliefs ==
    ASSUME IInv, NEW s \in Session, Commit(s)
    PROVE  CurrentIsLatest'
  <1>1. CurrentIsLatest /\ AllSettled /\ TableTypes
    BY DEF IInv
  <1>2. CASE UNCHANGED <<beliefs, current>>
    BY <1>1, <1>2 DEF CurrentIsLatest
  <1>3. CASE CommitEvaluate(s)
    <2> DEFINE base == seen[s].base
               h == Hypothesis(s)
               n == base + 2
               belief == [hyp |-> h, evidence |-> base + 1, prev |-> seen[s].prior]
    <2>1. /\ beliefs' = Upsert(beliefs, n, belief) /\ belief.hyp = h
          /\ current' = {b \in current : beliefs[b].hyp # h} \cup {n}
      BY <1>3 DEF CommitEvaluate, StillCurrent
    <2>2. /\ n \in Nat /\ n \notin DOMAIN beliefs
          /\ \A b \in DOMAIN beliefs : b \in Nat /\ b < n
      <3>1. Settled = base /\ base \in Nat
        BY <1>3, CommitLog, SettledType DEF Commit
      <3>. QED
        BY <1>1, <3>1 DEF AllSettled
    <2> HIDE DEF belief, h, n
    <2>3. /\ DOMAIN beliefs' = DOMAIN beliefs \cup {n} /\ beliefs'[n].hyp = h
          /\ \A b \in DOMAIN beliefs : beliefs'[b] = beliefs[b]
      BY <2>1, <2>2 DEF Upsert
    <2>4. ASSUME NEW b \in DOMAIN beliefs
          PROVE  b \in current' <=> \A c \in DOMAIN beliefs' : beliefs'[c].hyp = beliefs'[b].hyp => c <= b
      <3>1. b \in current' <=> b \in current /\ beliefs[b].hyp # h
        BY <2>1, <2>2
      <3>2. b \in current <=> \A c \in DOMAIN beliefs : beliefs[c].hyp = beliefs[b].hyp => c <= b
        BY <1>1 DEF CurrentIsLatest
      <3>3. ~(n <= b)
        BY <2>2
      <3>. QED
        BY <2>3, <3>1, <3>2, <3>3
    <2>5. n \in current' /\ \A c \in DOMAIN beliefs' : c <= n
      BY <2>1, <2>2, <2>3
    <2>. QED
      BY <2>3, <2>4, <2>5 DEF CurrentIsLatest
  <1>. QED
    BY <1>2, <1>3 DEF Commit, CommitSubmit, CommitPropose, CommitActivate, CommitRetire, tables

\* A commit keeps the invariant.
LEMMA CommitKeeps ==
    ASSUME IInv, NEW s \in Session, Commit(s)
    PROVE  IInv'
  <1>1. VersionsContiguous'
    BY CommitLog DEF Continues, VersionsContiguous
  <1>. QED
    BY <1>1, CommitTables, CommitSessions, CommitSettled, CommitReferences, CommitEvidence, CommitBeliefs
       DEF IInv

-----------------------------------------------------------------------------
\* The invariant holds of the empty tables.
LEMMA Starts ==
    ASSUME Init
    PROVE  IInv
  <1> USE DEF Init
  <1>1. TableTypes
    BY DEF TableTypes
  <1>2. LedgerTypes /\ log = <<>> /\ DOMAIN log = {}
    BY DEF LedgerTypes
  <1>3. NoCommand \in CommandForm /\ NothingSeen \in Sight
    BY DEF NoCommand, CommandForm, Ask, None, NothingSeen, Sight, Trial, HypothesisRow, Status
  <1>4. SessionTypes
    BY <1>3 DEF SessionTypes, Control
  <1>5. References /\ LiveHasExperiment /\ EvidenceReproducible /\ EvidenceUnique /\ CurrentIsLatest
    BY <1>2 DEF References, LiveHasExperiment, EvidenceReproducible, EvidenceUnique, CurrentIsLatest
  <1>6. AllSettled
    BY <1>2 DEF AllSettled, Settled, NothingSeen
  <1>7. LockOwned
    BY LabAssumption DEF LockOwned
  <1>8. ViewsHold
    BY DEF ViewsHold, NoCommand, Ask, NothingSeen
  <1>9. VersionsContiguous
    BY <1>2 DEF VersionsContiguous, Contiguous
  <1>. QED
    BY <1>1, <1>2, <1>4, <1>5, <1>6, <1>7, <1>8, <1>9 DEF IInv

\* Every step keeps the invariant.
LEMMA Continued ==
    ASSUME IInv, [Next]_vars
    PROVE  IInv'
  <1>1. CASE \E s \in Session : Work(s)
    BY <1>1, WorkKeeps
  <1>2. CASE \E s \in Session : Commit(s)
    BY <1>2, CommitKeeps
  <1>3. CASE Clock
    BY <1>3, ClockKeeps
  <1>4. CASE UNCHANGED vars
    <2>1. UNCHANGED <<log, sequence, lock, hypotheses, experiments, evidence, beliefs, current, learnings,
                      overdue, pc, cmd, seen>>
      BY <1>4 DEF vars
    <2>2. Command' = Command /\ Observations' = Observations /\ Settled' = Settled
      BY <2>1 DEF Command, Observations, Settled
    <2>3. TableTypes' /\ LedgerTypes' /\ SessionTypes' /\ References' /\ AllSettled'
      BY <2>1, <2>2, Zenon DEF IInv, TableTypes, LedgerTypes, SessionTypes, References, AllSettled
    <2>4. LockOwned'
      BY <2>1 DEF IInv, LockOwned, Appends
    <2>5. ViewsHold'
      BY <2>1, <2>2, Zenon DEF IInv, ViewsHold, LatestVersion
    <2>6. /\ VersionsContiguous' /\ LiveHasExperiment' /\ EvidenceReproducible' /\ EvidenceUnique'
          /\ CurrentIsLatest'
      BY <2>1, <2>2, Zenon DEF IInv, VersionsContiguous, LiveHasExperiment, EvidenceReproducible,
         EvidenceUnique, CurrentIsLatest
    <2>. QED
      BY <2>3, <2>4, <2>5, <2>6 DEF IInv
  <1>. QED
    BY <1>1, <1>2, <1>3, <1>4, StepCases

\* The inductive invariant holds in every state.
THEOREM Invariant == Spec => []IInv
  BY Starts, Continued, PTL DEF Spec

\* Every variable has its type: what a row, a command or a payload names is there.
THEOREM TypeCorrect == Spec => []TypeOK
  <1>1. ASSUME IInv PROVE TypeOK
    <2>1. /\ TableTypes /\ LedgerTypes /\ SessionTypes /\ References /\ AllSettled /\ EvidenceReproducible
          /\ Settled \in Nat /\ Settled <= sequence /\ sequence \in Nat
      BY <1>1, SettledType DEF IInv, LedgerTypes
    <2>2. log \in Seq([pos : Nat, kind : Kind, agg : Nat, ver : Nat, data : Payload])
      <3>1. \A i \in DOMAIN log : log[i] \in [pos : Nat, kind : Kind, agg : Nat, ver : Nat, data : Payload]
        <4> TAKE i \in DOMAIN log
        <4>1. log[i] \in LogEvent /\ log[i].data.sources \in SUBSET Observations
          BY <2>1 DEF LedgerTypes, References
        <4>2. log[i].data \in Payload
          BY <4>1 DEF LogEvent, Facts, Payload
        <4>. QED
          BY <4>1, <4>2 DEF LogEvent
      <3> DEFINE T == [pos : Nat, kind : Kind, agg : Nat, ver : Nat, data : Payload]
      <3>2. Len(log) \in Nat /\ log \in [1..Len(log) -> T]
        BY <2>1, <3>1 DEF LedgerTypes
      <3> HIDE DEF T
      <3>3. log \in Seq(T)
        BY <3>2, SeqDef
      <3>. QED
        BY <3>3 DEF T
    <2>3. DOMAIN hypotheses \subseteq 1..sequence /\ \A h \in DOMAIN hypotheses : hypotheses[h] \in HypothesisRow
      BY <2>1 DEF TableTypes, AllSettled
    <2>4. \A e \in DOMAIN experiments : experiments[e] \in ExperimentRow
      <3> TAKE e \in DOMAIN experiments
      <3>1. /\ experiments[e] \in Trial /\ experiments[e].hyp \in DOMAIN hypotheses
            /\ experiments[e].activation \in 1..sequence
        BY <2>1 DEF TableTypes, References, AllSettled
      <3>. QED
        BY <3>1 DEF Trial, ExperimentRow
    <2>5. evidence \subseteq EvidenceRow
      <3> SUFFICES ASSUME NEW x \in evidence PROVE x \in EvidenceRow
        OBVIOUS
      <3>1. x \in [id : Nat, exp : Nat, phase : Phase, cutoff : Nat, sources : SUBSET Nat]
        BY <2>1 DEF TableTypes
      <3>2. x.exp \in DOMAIN experiments /\ x.sources \in SUBSET Observations
        BY <2>1 DEF References, EvidenceReproducible, Cohort
      <3>. QED
        BY <3>1, <3>2 DEF EvidenceRow
    <2>6. \A b \in DOMAIN beliefs : beliefs[b] \in BeliefRow
      <3> TAKE b \in DOMAIN beliefs
      <3>1. /\ beliefs[b] \in [hyp : Nat, evidence : Nat, prev : Nat]
            /\ beliefs[b].hyp \in DOMAIN hypotheses /\ beliefs[b].prev \in DOMAIN beliefs \cup {None}
        BY <2>1 DEF TableTypes, References
      <3>. QED
        BY <3>1 DEF BeliefRow
    <2>7. learnings \subseteq LearningRow
      <3> SUFFICES ASSUME NEW x \in learnings PROVE x \in LearningRow
        OBVIOUS
      <3>1. /\ x \in [id : Nat, belief : Nat, prior : Nat]
            /\ x.belief \in DOMAIN beliefs /\ x.prior \in DOMAIN beliefs \cup {None}
        BY <2>1 DEF TableTypes, References
      <3>. QED
        BY <3>1 DEF LearningRow
    <2>8. \A s \in Session : /\ pc[s] \in Control /\ cmd[s] \in Command \cup {NoCommand}
                             /\ seen[s].row \in HypothesisRow
      BY <2>1 DEF SessionTypes, Sight
    <2>. QED
      BY <2>1, <2>2, <2>3, <2>4, <2>5, <2>6, <2>7, <2>8 DEF TypeOK, TableTypes, LedgerTypes, Control
  <1>. QED
    BY Invariant, <1>1, PTL

\* The sources of every piece of evidence are exactly the observations of its phase up
\* to its cutoff, whatever commits later.
THEOREM Reproducible == Spec => []EvidenceReproducible
  <1>1. IInv => EvidenceReproducible
    BY DEF IInv
  <1>. QED
    BY Invariant, <1>1, PTL

\* No fingerprint is stored twice, although it is looked up before the lock.
THEOREM Unique == Spec => []EvidenceUnique
  <1>1. IInv => EvidenceUnique
    BY DEF IInv
  <1>. QED
    BY Invariant, <1>1, PTL

\* An evaluated hypothesis has exactly one current belief, and it is its latest.
THEOREM OneCurrent == Spec => []OneCurrentBelief
  <1>1. ASSUME IInv PROVE OneCurrentBelief
    <2> SUFFICES ASSUME NEW h \in DOMAIN hypotheses
                 PROVE  {b \in current : beliefs[b].hyp = h} =
                           IF {b \in DOMAIN beliefs : beliefs[b].hyp = h} = {} THEN {}
                           ELSE {Max({b \in DOMAIN beliefs : beliefs[b].hyp = h})}
      BY DEF OneCurrentBelief
    <2> DEFINE all == {b \in DOMAIN beliefs : beliefs[b].hyp = h}
               mine == {b \in current : beliefs[b].hyp = h}
    <2>1. CurrentIsLatest /\ current \subseteq DOMAIN beliefs /\ DOMAIN beliefs \subseteq 1..Settled /\ Settled \in Nat
      BY <1>1, SettledType DEF IInv, TableTypes, AllSettled
    <2>2. mine = {b \in all : \A c \in all : c <= b}
      BY <2>1 DEF CurrentIsLatest
    <2>3. CASE all = {}
      BY <2>2, <2>3
    <2>4. CASE all # {}
      <3>1. all \in SUBSET Nat /\ \A b \in all : b <= Settled
        BY <2>1
      <3> HIDE DEF all, mine
      <3>2. Max(all) \in all /\ \A b \in all : b <= Max(all)
        BY <2>1, <2>4, <3>1, MaxIsGreatest
      <3> DEFINE latest == Max(all)
      <3> HIDE DEF latest
      <3>3. latest \in all /\ \A b \in all : b <= latest
        BY <3>2 DEF latest
      <3>4. ASSUME NEW b \in all, \A c \in all : c <= b PROVE b = latest
        <4>1. b \in Nat /\ latest \in Nat /\ latest <= b /\ b <= latest
          BY <3>1, <3>3, <3>4
        <4>. QED
          BY <4>1
      <3>5. \A b : b \in mine <=> b = latest
        BY <2>2, <3>3, <3>4
      <3>6. mine = {latest}
        BY <3>5
      <3>. QED
        BY <2>4, <3>6 DEF all, mine, latest
    <2>. QED
      BY <2>3, <2>4
  <1>. QED
    BY Invariant, <1>1, PTL

\* What the commands read before the lock never shows: the events of an aggregate are
\* numbered without a gap, and a hypothesis in progress has an experiment of its own.
THEOREM ReadsHold == Spec => []LockedReadsHold
  <1>1. IInv => LockedReadsHold
    BY DEF IInv, LockedReadsHold
  <1>. QED
    BY Invariant, <1>1, PTL

\* No step takes an event, a row, evidence, a belief or a learning back, or changes an
\* experiment or a belief; the row upserts of an evaluation write back what is there.
THEOREM NothingTakenBack == Spec => [][Growth]_vars
  <1>1. ASSUME IInv, [Next]_vars PROVE Growth
    <2>1. CASE \E s \in Session : Commit(s)
      BY <1>1, <2>1, CommitTables
    <2>2. CASE UNCHANGED <<log, hypotheses, experiments, evidence, beliefs, current, learnings>>
      BY <1>1, <2>2 DEF Growth, IInv, LedgerTypes
    <2>. QED
      BY <1>1, <2>1, <2>2, StepCases, WorkQuiet DEF Clock, WindowExpires, ledger, tables, vars
  <1>. QED
    BY Invariant, <1>1, PTL DEF Spec

\* A run of the replay up to the k-th event.
IsRun(f, events, k) ==
    f = [n \in 0..k |-> IF n = 0 THEN Nothing ELSE Apply(f[n - 1], events[n])]

\* There is a run up to every event.
LEMMA RunExists ==
    ASSUME NEW events, NEW m \in Nat
    PROVE  \E f : IsRun(f, events, m)
  <1> DEFINE without == {k \in Nat : ~\E f : IsRun(f, events, k)}
  <1>1. SUFFICES ASSUME without # {} PROVE FALSE
    OBVIOUS
  <1>2. PICK k \in without : \A l \in without : k <= l
    <2>1. without \in SUBSET Nat
      OBVIOUS
    <2> HIDE DEF without
    <2>. QED
      BY <1>1, <2>1, LeastExists
  <1>3. CASE k = 0
    <2> DEFINE f == [n \in 0..0 |-> Nothing]
    <2>1. f = [n \in 0..0 |-> IF n = 0 THEN Nothing ELSE Apply(f[n - 1], events[n])]
      OBVIOUS
    <2>2. IsRun(f, events, 0)
      BY <2>1 DEF IsRun
    <2>. QED
      BY <1>2, <1>3, <2>2
  <1>4. CASE k # 0
    <2>1. k - 1 \in Nat /\ k - 1 \notin without
      BY <1>2, <1>4
    <2>2. PICK g : IsRun(g, events, k - 1)
      BY <2>1
    <2> DEFINE f == [n \in 0..k |-> IF n = k THEN Apply(g[k - 1], events[k]) ELSE g[n]]
    <2>3. \A n \in 0..(k - 1) : g[n] = IF n = 0 THEN Nothing ELSE Apply(g[n - 1], events[n])
      BY <2>2 DEF IsRun
    <2>4. \A n \in 0..k : f[n] = IF n = 0 THEN Nothing ELSE Apply(f[n - 1], events[n])
      <3> TAKE n \in 0..k
      <3>1. CASE n = k
        <4>1. k - 1 \in 0..k /\ k - 1 # k
          BY <1>2, <2>1
        <4>2. f[k - 1] = g[k - 1] /\ f[n] = Apply(g[k - 1], events[k])
          BY <3>1, <4>1
        <4>. QED
          BY <3>1, <4>2, <1>4
      <3>2. CASE n # k /\ n # 0
        <4>1. n \in 0..(k - 1) /\ n - 1 \in 0..k /\ n - 1 # k
          BY <1>2, <2>1, <3>2
        <4>2. f[n] = g[n] /\ f[n - 1] = g[n - 1]
          BY <3>2, <4>1
        <4>. QED
          BY <2>3, <3>2, <4>1, <4>2
      <3>3. CASE n # k /\ n = 0
        <4>1. f[n] = g[n] /\ n \in 0..(k - 1)
          BY <1>2, <2>1, <3>3
        <4>. QED
          BY <2>3, <3>3, <4>1
      <3>. QED
        BY <3>1, <3>2, <3>3
    <2>5. IsRun(f, events, k)
      <3>1. f = [n \in 0..k |-> f[n]]
        OBVIOUS
      <3> HIDE DEF f
      <3>. QED
        BY <2>4, <3>1 DEF IsRun
    <2>. QED
      BY <1>2, <2>5
  <1>. QED
    BY <1>3, <1>4

\* Two runs agree as far as both go and their events do.
LEMMA RunsAgree ==
    ASSUME NEW a, NEW b, NEW f, NEW g, NEW l \in Nat, NEW m \in Nat, l <= m,
           IsRun(f, a, l), IsRun(g, b, m), \A i \in 1..l : a[i] = b[i]
    PROVE  f[l] = g[l]
  <1> DEFINE differ == {n \in 0..l : f[n] # g[n]}
  <1>1. SUFFICES ASSUME differ # {} PROVE FALSE
    OBVIOUS
  <1>2. PICK n \in differ : \A i \in differ : n <= i
    <2>1. differ \in SUBSET Nat
      OBVIOUS
    <2> HIDE DEF differ
    <2>. QED
      BY <1>1, <2>1, LeastExists
  <1>3. /\ f[n] = IF n = 0 THEN Nothing ELSE Apply(f[n - 1], a[n])
        /\ g[n] = IF n = 0 THEN Nothing ELSE Apply(g[n - 1], b[n])
    <2>1. n \in 0..l /\ n \in 0..m
      BY <1>2
    <2>. QED
      BY <2>1 DEF IsRun
  <1>4. n # 0 => f[n - 1] = g[n - 1] /\ a[n] = b[n]
    <2> SUFFICES ASSUME n # 0 PROVE f[n - 1] = g[n - 1] /\ a[n] = b[n]
      OBVIOUS
    <2>1. n - 1 \in 0..l /\ ~(n <= n - 1) /\ n \in 1..l
      BY <1>2
    <2>. QED
      BY <1>2, <2>1
  <1>. QED
    BY <1>2, <1>3, <1>4

\* Replay is where a run ends.
LEMMA ReplayRuns ==
    ASSUME NEW E, NEW events \in Seq(E), NEW f, IsRun(f, events, Len(events))
    PROVE  Replay(events) = f[Len(events)]
  <1> DEFINE g == CHOOSE h : IsRun(h, events, Len(events))
  <1>1. IsRun(g, events, Len(events))
    BY RunExists, LenProperties
  <1>2. Replay(events) = g[Len(events)]
    BY DEF Replay, IsRun
  <1>. QED
    BY <1>1, <1>2, RunsAgree, LenProperties

\* The last state of a run comes from the one before it.
LEMMA RunEnds ==
    ASSUME NEW f, NEW g, NEW a, NEW b, NEW m \in Nat, NEW k \in Nat, k = m + 1,
           IsRun(f, a, m), IsRun(g, b, k), \A i \in 1..m : a[i] = b[i]
    PROVE  g[k] = Apply(f[m], b[k])
  <1>1. m <= k /\ k \in 0..k /\ k # 0 /\ k - 1 = m
    OBVIOUS
  <1>2. g[k] = Apply(g[k - 1], b[k])
    BY <1>1 DEF IsRun
  <1>3. f[m] = g[m]
    BY <1>1, RunsAgree
  <1>. QED
    BY <1>1, <1>2, <1>3

\* A rebuild reads one more event by handling it last.
LEMMA ReplayAppend ==
    ASSUME NEW E, NEW events \in Seq(E), NEW e \in E
    PROVE  Replay(Append(events, e)) = Apply(Replay(events), e)
  <1> DEFINE longer == Append(events, e)
  <1>1. /\ longer \in Seq(E) /\ Len(longer) = Len(events) + 1 /\ longer[Len(longer)] = e
        /\ \A i \in 1..Len(events) : events[i] = longer[i]
        /\ Len(events) \in Nat /\ Len(longer) \in Nat
    BY AppendProperties
  <1> HIDE DEF longer
  <1>2. PICK f : IsRun(f, events, Len(events))
    BY <1>1, RunExists
  <1>3. PICK g : IsRun(g, longer, Len(longer))
    BY <1>1, RunExists
  <1>4. g[Len(longer)] = Apply(f[Len(events)], longer[Len(longer)])
    BY <1>1, <1>2, <1>3, RunEnds
  <1>5. Replay(events) = f[Len(events)] /\ Replay(longer) = g[Len(longer)]
    BY <1>1, <1>2, <1>3, ReplayRuns
  <1>. QED
    BY <1>1, <1>4, <1>5 DEF longer

\* No events, no rows.
LEMMA ReplayNothing == Replay(<<>>) = Nothing
  <1>1. PICK f : IsRun(f, <<>>, 0)
    BY RunExists
  <1>2. <<>> \in Seq({}) /\ Len(<<>>) = 0
    OBVIOUS
  <1>3. f[0] = Nothing
    BY <1>1 DEF IsRun
  <1>. QED
    BY <1>1, <1>2, <1>3, ReplayRuns

-----------------------------------------------------------------------------
(* What the handlers make of one event. *)

\* The tables of a replay of events up to position n: keys are positions, an experiment
\* is anchored at itself and has its hypothesis, and no evidence has a cutoff.
Shaped(t, n) ==
    /\ t = [hypotheses |-> t.hypotheses, experiments |-> t.experiments, evidence |-> t.evidence,
            beliefs |-> t.beliefs, current |-> t.current, learnings |-> t.learnings]
    /\ DOMAIN t.hypotheses \subseteq 1..n /\ DOMAIN t.experiments \subseteq 1..n
    /\ Ids(t.evidence) \subseteq 1..n /\ DOMAIN t.beliefs \subseteq 1..n /\ Ids(t.learnings) \subseteq 1..n
    /\ t.current \subseteq DOMAIN t.beliefs
    /\ \A e \in DOMAIN t.experiments :
          t.experiments[e].activation = e /\ t.experiments[e].hyp \in DOMAIN t.hypotheses
    /\ \A x \in t.evidence : [x EXCEPT !.cutoff = 0] = x

\* What the first of two replays tells, the second tells too.
Within(t, u) ==
    /\ DOMAIN t.hypotheses \subseteq DOMAIN u.hypotheses
    /\ DOMAIN t.experiments \subseteq DOMAIN u.experiments
    /\ \A e \in DOMAIN t.experiments : u.experiments[e] = t.experiments[e]
    /\ t.evidence \subseteq u.evidence /\ t.learnings \subseteq u.learnings
    /\ DOMAIN t.beliefs \subseteq DOMAIN u.beliefs
    /\ \A b \in DOMAIN t.beliefs : u.beliefs[b] = t.beliefs[b]

\* An event that can follow: one that creates a row is named by its position.
Follows(t, n, e) ==
    /\ e.pos \in Nat /\ n < e.pos
    /\ e.kind \in {"HypothesisProposed", "ExperimentRegistered", "EvidenceEvaluated", "BeliefCreated",
                   "BeliefUpdated", "LearningRecorded"} => e.agg = e.pos
    /\ e.kind = "ExperimentRegistered" => e.data.hyp \in DOMAIN t.hypotheses

\* The event's handler, by its kind.
LEMMA ApplyKinds ==
    ASSUME NEW t, NEW e
    PROVE  /\ e.kind = "HypothesisProposed" => Apply(t, e) = OnHypothesisProposed(t, e)
           /\ e.kind = "HypothesisActivated" => Apply(t, e) = OnHypothesisActivated(t, e)
           /\ e.kind = "HypothesisRetired" => Apply(t, e) = OnHypothesisRetired(t, e)
           /\ e.kind = "ExperimentRegistered" => Apply(t, e) = OnExperimentRegistered(t, e)
           /\ e.kind = "EvidenceEvaluated" => Apply(t, e) = OnEvidenceEvaluated(t, e)
           /\ e.kind \in {"BeliefCreated", "BeliefUpdated"} => Apply(t, e) = UpsertBelief(t, e)
           /\ e.kind = "LearningRecorded" => Apply(t, e) = OnLearningRecorded(t, e)
           /\ e.kind \in {"ObservationAccepted", "ExperimentObservationWindowOpened", "OutcomeEvaluated"} =>
                 Apply(t, e) = t
  BY DEF Apply

\* One field of the tables changes, the others stay.
LEMMA OneTable ==
    ASSUME NEW t, NEW n, Shaped(t, n), NEW v
    PROVE  /\ [t EXCEPT !.hypotheses = v] =
              [hypotheses |-> v, experiments |-> t.experiments, evidence |-> t.evidence,
               beliefs |-> t.beliefs, current |-> t.current, learnings |-> t.learnings]
           /\ [t EXCEPT !.experiments = v] =
              [hypotheses |-> t.hypotheses, experiments |-> v, evidence |-> t.evidence,
               beliefs |-> t.beliefs, current |-> t.current, learnings |-> t.learnings]
           /\ [t EXCEPT !.evidence = v] =
              [hypotheses |-> t.hypotheses, experiments |-> t.experiments, evidence |-> v,
               beliefs |-> t.beliefs, current |-> t.current, learnings |-> t.learnings]
           /\ [t EXCEPT !.learnings = v] =
              [hypotheses |-> t.hypotheses, experiments |-> t.experiments, evidence |-> t.evidence,
               beliefs |-> t.beliefs, current |-> t.current, learnings |-> v]
  <1>1. PICK hs, es, ev, bs, cs, ls : t = [hypotheses |-> hs, experiments |-> es, evidence |-> ev, beliefs |-> bs,
                                           current |-> cs, learnings |-> ls]
    BY Zenon DEF Shaped
  <1>2. [t EXCEPT !.hypotheses = v] = [hypotheses |-> v, experiments |-> es, evidence |-> ev, beliefs |-> bs,
                                      current |-> cs, learnings |-> ls]
    BY <1>1
  <1>3. [t EXCEPT !.experiments = v] = [hypotheses |-> hs, experiments |-> v, evidence |-> ev, beliefs |-> bs,
                                       current |-> cs, learnings |-> ls]
    BY <1>1
  <1>4. [t EXCEPT !.evidence = v] = [hypotheses |-> hs, experiments |-> es, evidence |-> v, beliefs |-> bs,
                                    current |-> cs, learnings |-> ls]
    BY <1>1
  <1>5. [t EXCEPT !.learnings = v] = [hypotheses |-> hs, experiments |-> es, evidence |-> ev, beliefs |-> bs,
                                     current |-> cs, learnings |-> v]
    BY <1>1
  <1>6. /\ t.hypotheses = hs /\ t.experiments = es /\ t.evidence = ev /\ t.beliefs = bs
        /\ t.current = cs /\ t.learnings = ls
    BY <1>1
  <1>. QED
    BY <1>2, <1>3, <1>4, <1>5, <1>6, Zenon

\* The beliefs change together with which of them are current.
LEMMA TwoTables ==
    ASSUME NEW t, NEW n, Shaped(t, n), NEW v, NEW c
    PROVE  [t EXCEPT !.beliefs = v, !.current = c] =
           [hypotheses |-> t.hypotheses, experiments |-> t.experiments, evidence |-> t.evidence,
            beliefs |-> v, current |-> c, learnings |-> t.learnings]
  <1>1. PICK hs, es, ev, bs, cs, ls : t = [hypotheses |-> hs, experiments |-> es, evidence |-> ev, beliefs |-> bs,
                                           current |-> cs, learnings |-> ls]
    BY Zenon DEF Shaped
  <1>2. [t EXCEPT !.beliefs = v] = [hypotheses |-> hs, experiments |-> es, evidence |-> ev, beliefs |-> v,
                                    current |-> cs, learnings |-> ls]
    BY <1>1
  <1>3. ASSUME NEW u, u = [hypotheses |-> hs, experiments |-> es, evidence |-> ev, beliefs |-> v,
                           current |-> cs, learnings |-> ls]
        PROVE  [u EXCEPT !.current = c] =
               [hypotheses |-> hs, experiments |-> es, evidence |-> ev, beliefs |-> v, current |-> c, learnings |-> ls]
    BY <1>3
  <1>4. /\ t.hypotheses = hs /\ t.experiments = es /\ t.evidence = ev /\ t.learnings = ls
    BY <1>1
  <1>. QED
    BY <1>2, <1>3, <1>4, Zenon

\* The rows that events of evidence and of learning make.
EvidenceOf(e) ==
    [id |-> e.agg, exp |-> e.data.exp, phase |-> e.data.phase, cutoff |-> 0, sources |-> e.data.sources]
LearningOf(e) == [id |-> e.agg, belief |-> e.data.of, prior |-> e.data.prev]

\* Which table the handler of an event changes, and how.
Handles(t, e, u) ==
    /\ u = [hypotheses |-> u.hypotheses, experiments |-> u.experiments, evidence |-> u.evidence,
            beliefs |-> u.beliefs, current |-> u.current, learnings |-> u.learnings]
    /\ DOMAIN u.hypotheses = DOMAIN t.hypotheses \cup (IF e.kind = "HypothesisProposed" THEN {e.agg} ELSE {})
    /\ u.experiments = IF e.kind = "ExperimentRegistered"
                       THEN Upsert(t.experiments, e.agg, [hyp |-> e.data.hyp, activation |-> e.pos])
                       ELSE t.experiments
    /\ u.evidence = t.evidence \cup (IF e.kind = "EvidenceEvaluated" THEN {EvidenceOf(e)} ELSE {})
    /\ u.beliefs = IF e.kind \in {"BeliefCreated", "BeliefUpdated"}
                   THEN Upsert(t.beliefs, e.agg, [hyp |-> e.data.hyp, evidence |-> e.data.of,
                                                  prev |-> e.data.prev])
                   ELSE t.beliefs
    /\ u.current = IF e.kind \in {"BeliefCreated", "BeliefUpdated"}
                   THEN {b \in t.current : t.beliefs[b].hyp # e.data.hyp} \cup {e.agg}
                   ELSE t.current
    /\ u.learnings = t.learnings \cup (IF e.kind = "LearningRecorded" THEN {LearningOf(e)} ELSE {})

\* That is what the handlers do.
LEMMA HandledTables ==
    ASSUME NEW t, NEW n, NEW e, Shaped(t, n), e.kind \in Kind
    PROVE  Handles(t, e, Apply(t, e))
  <1> DEFINE u == Apply(t, e)
             plain == t = [hypotheses |-> t.hypotheses, experiments |-> t.experiments, evidence |-> t.evidence,
                           beliefs |-> t.beliefs, current |-> t.current, learnings |-> t.learnings]
  <1>1. plain
    BY Zenon DEF Shaped
  <1>2. CASE e.kind \in {"HypothesisActivated", "HypothesisRetired"}
    <2>1. u = t \/ \E w : u = [t EXCEPT !.hypotheses = w] /\ DOMAIN w = DOMAIN t.hypotheses
      <3>1. CASE e.kind = "HypothesisActivated"
        <4> DEFINE v == [t.hypotheses EXCEPT ![e.agg] = [status |-> "ACTIVE", experiment |-> e.data.exp]]
        <4>1. u = OnHypothesisActivated(t, e)
          BY <3>1, ApplyKinds
        <4>2. DOMAIN v = DOMAIN t.hypotheses /\ u \in {t, [t EXCEPT !.hypotheses = v]}
          BY <4>1 DEF OnHypothesisActivated
        <4>. QED
          BY <4>2
      <3>2. CASE e.kind = "HypothesisRetired"
        <4> DEFINE v == [t.hypotheses EXCEPT ![e.agg].status = "RETIRED"]
        <4>1. u = OnHypothesisRetired(t, e)
          BY <3>2, ApplyKinds
        <4>2. DOMAIN v = DOMAIN t.hypotheses /\ u \in {t, [t EXCEPT !.hypotheses = v]}
          BY <4>1 DEF OnHypothesisRetired
        <4>. QED
          BY <4>2
      <3>. QED
        BY <1>2, <3>1, <3>2
    <2>2. ASSUME NEW w, u = [t EXCEPT !.hypotheses = w], DOMAIN w = DOMAIN t.hypotheses
          PROVE  /\ u = [hypotheses |-> w, experiments |-> t.experiments, evidence |-> t.evidence,
                         beliefs |-> t.beliefs, current |-> t.current, learnings |-> t.learnings]
                 /\ DOMAIN w = DOMAIN t.hypotheses
      BY <2>2, OneTable
    <2>3. PICK w : /\ u = [hypotheses |-> w, experiments |-> t.experiments, evidence |-> t.evidence,
                           beliefs |-> t.beliefs, current |-> t.current, learnings |-> t.learnings]
                   /\ DOMAIN w = DOMAIN t.hypotheses
      <3>1. CASE u = t
        BY <1>1, <3>1
      <3>. QED
        BY <2>1, <2>2, <3>1
    <2>. QED
      BY <1>2, <2>3 DEF Handles
  <1>3. CASE e.kind = "HypothesisProposed"
    <2>1. PICK w : w = Upsert(t.hypotheses, e.agg, [status |-> "PROPOSED", experiment |-> None])
      OBVIOUS
    <2>2. u = [t EXCEPT !.hypotheses = w]
      BY <1>3, <2>1, ApplyKinds DEF OnHypothesisProposed
    <2>3. u = [hypotheses |-> w, experiments |-> t.experiments, evidence |-> t.evidence,
                         beliefs |-> t.beliefs, current |-> t.current, learnings |-> t.learnings]
      BY <2>2, OneTable
    <2>4. DOMAIN w = DOMAIN t.hypotheses \cup {e.agg}
      BY <2>1 DEF Upsert
    <2>. QED
      BY <1>3, <2>3, <2>4 DEF Handles
  <1>5. CASE e.kind = "ExperimentRegistered"
    <2>1. PICK w : w = Upsert(t.experiments, e.agg, [hyp |-> e.data.hyp, activation |-> e.pos])
      OBVIOUS
    <2>2. u = [t EXCEPT !.experiments = w]
      BY <1>5, <2>1, ApplyKinds DEF OnExperimentRegistered
    <2>3. u = [hypotheses |-> t.hypotheses, experiments |-> w, evidence |-> t.evidence,
                         beliefs |-> t.beliefs, current |-> t.current, learnings |-> t.learnings]
      BY <2>2, OneTable
    <2>. QED
      BY <1>5, <2>1, <2>3 DEF Handles
  <1>6. CASE e.kind = "EvidenceEvaluated"
    <2>1. PICK w : w = t.evidence \cup {EvidenceOf(e)}
      OBVIOUS
    <2>2. u = [t EXCEPT !.evidence = w]
      BY <1>6, <2>1, ApplyKinds DEF OnEvidenceEvaluated, EvidenceOf
    <2>3. u = [hypotheses |-> t.hypotheses, experiments |-> t.experiments, evidence |-> w,
                         beliefs |-> t.beliefs, current |-> t.current, learnings |-> t.learnings]
      BY <2>2, OneTable
    <2>. QED
      BY <1>6, <2>1, <2>3 DEF Handles
  <1>8. CASE e.kind = "LearningRecorded"
    <2>1. PICK w : w = t.learnings \cup {LearningOf(e)}
      OBVIOUS
    <2>2. u = [t EXCEPT !.learnings = w]
      BY <1>8, <2>1, ApplyKinds DEF OnLearningRecorded, LearningOf
    <2>3. u = [hypotheses |-> t.hypotheses, experiments |-> t.experiments, evidence |-> t.evidence,
                         beliefs |-> t.beliefs, current |-> t.current, learnings |-> w]
      BY <2>2, OneTable
    <2>. QED
      BY <1>8, <2>1, <2>3 DEF Handles
  <1>7. CASE e.kind \in {"BeliefCreated", "BeliefUpdated"}
    <2>1. PICK w, c :
             /\ w = Upsert(t.beliefs, e.agg, [hyp |-> e.data.hyp, evidence |-> e.data.of, prev |-> e.data.prev])
             /\ c = {b \in t.current : t.beliefs[b].hyp # e.data.hyp} \cup {e.agg}
      OBVIOUS
    <2>2. u = [t EXCEPT !.beliefs = w, !.current = c]
      <3>1. u = UpsertBelief(t, e)
        BY <1>7, ApplyKinds
      <3>. QED
        BY <2>1, <3>1 DEF UpsertBelief
    <2>3. u = [hypotheses |-> t.hypotheses, experiments |-> t.experiments, evidence |-> t.evidence,
               beliefs |-> w, current |-> c, learnings |-> t.learnings]
      BY <2>2, TwoTables
    <2>. QED
      BY <1>7, <2>1, <2>3 DEF Handles
  <1>9. CASE e.kind \in {"ObservationAccepted", "ExperimentObservationWindowOpened", "OutcomeEvaluated"}
    <2>1. u = t
      BY <1>9, ApplyKinds
    <2>. QED
      BY <1>1, <1>9, <2>1 DEF Handles
  <1>. QED
    BY <1>2, <1>3, <1>5, <1>6, <1>7, <1>8, <1>9 DEF Kind

\* A handler keeps the shape of the tables and what they tell.
LEMMA Handled ==
    ASSUME NEW t, NEW n \in Nat, NEW e, Shaped(t, n), Follows(t, n, e), e.kind \in Kind
    PROVE  Shaped(Apply(t, e), e.pos) /\ Within(t, Apply(t, e))
  <1> DEFINE u == Apply(t, e)
             hs == u.hypotheses
             es == u.experiments
             ev == u.evidence
             bs == u.beliefs
             cs == u.current
             ls == u.learnings
  <1>1. Handles(t, e, u)
    BY HandledTables
  <1> HIDE DEF u
  <1>2. /\ e.pos \in Nat /\ n < e.pos /\ e.pos \in 1..e.pos /\ \A i \in 1..n : i \in 1..e.pos /\ i # e.pos
    BY DEF Follows
  <1>3. DOMAIN t.hypotheses \subseteq DOMAIN hs /\ DOMAIN hs \subseteq 1..e.pos
    <2>1. DOMAIN hs = DOMAIN t.hypotheses \cup (IF e.kind = "HypothesisProposed" THEN {e.agg} ELSE {})
      BY <1>1 DEF Handles
    <2>. QED
      BY <1>2, <2>1 DEF Follows, Shaped
  <1>4. /\ DOMAIN es \subseteq 1..e.pos
        /\ \A x \in DOMAIN t.experiments : x \in DOMAIN es /\ es[x] = t.experiments[x]
        /\ \A x \in DOMAIN es : es[x].activation = x /\ es[x].hyp \in DOMAIN t.hypotheses
    <2>1. es = IF e.kind = "ExperimentRegistered"
               THEN Upsert(t.experiments, e.agg, [hyp |-> e.data.hyp, activation |-> e.pos]) ELSE t.experiments
      BY <1>1 DEF Handles
    <2>2. CASE e.kind = "ExperimentRegistered"
      <3>1. e.agg = e.pos /\ e.data.hyp \in DOMAIN t.hypotheses
        BY <2>2 DEF Follows
      <3>. QED
        BY <1>2, <2>1, <2>2, <3>1 DEF Shaped, Upsert
    <2>3. CASE e.kind # "ExperimentRegistered"
      BY <1>2, <2>1, <2>3 DEF Shaped
    <2>. QED
      BY <2>2, <2>3
  <1>5. t.evidence \subseteq ev /\ Ids(ev) \subseteq 1..e.pos /\ \A x \in ev : [x EXCEPT !.cutoff = 0] = x
    <2>1. ev = t.evidence \cup (IF e.kind = "EvidenceEvaluated" THEN {EvidenceOf(e)} ELSE {})
      BY <1>1 DEF Handles
    <2>2. EvidenceOf(e).id = e.agg /\ [EvidenceOf(e) EXCEPT !.cutoff = 0] = EvidenceOf(e)
      BY DEF EvidenceOf
    <2>3. Ids(t.evidence) \subseteq 1..n /\ \A x \in t.evidence : [x EXCEPT !.cutoff = 0] = x
      BY DEF Shaped
    <2>4. e.kind = "EvidenceEvaluated" => e.agg = e.pos
      BY DEF Follows
    <2>. QED
      BY <1>2, <2>1, <2>2, <2>3, <2>4 DEF Ids
  <1>6. /\ DOMAIN bs \subseteq 1..e.pos /\ cs \subseteq DOMAIN bs
        /\ \A x \in DOMAIN t.beliefs : x \in DOMAIN bs /\ bs[x] = t.beliefs[x]
    <2>1. CASE e.kind \in {"BeliefCreated", "BeliefUpdated"}
      <3>1. /\ bs = Upsert(t.beliefs, e.agg, [hyp |-> e.data.hyp, evidence |-> e.data.of, prev |-> e.data.prev])
            /\ cs = {b \in t.current : t.beliefs[b].hyp # e.data.hyp} \cup {e.agg}
        BY <1>1, <2>1 DEF Handles
      <3>2. e.agg = e.pos
        BY <2>1 DEF Follows
      <3>3. DOMAIN bs = DOMAIN t.beliefs \cup {e.pos} /\ cs \subseteq t.current \cup {e.pos}
        BY <3>1, <3>2 DEF Upsert
      <3>4. \A x \in DOMAIN t.beliefs : x # e.pos => bs[x] = t.beliefs[x]
        BY <3>1, <3>2 DEF Upsert
      <3>. QED
        BY <1>2, <3>3, <3>4 DEF Shaped
    <2>2. CASE e.kind \notin {"BeliefCreated", "BeliefUpdated"}
      <3>1. bs = t.beliefs /\ cs = t.current
        BY <1>1, <2>2 DEF Handles
      <3>. QED
        BY <1>2, <3>1 DEF Shaped
    <2>. QED
      BY <2>1, <2>2
  <1>7. t.learnings \subseteq ls /\ Ids(ls) \subseteq 1..e.pos
    <2>1. ls = t.learnings \cup (IF e.kind = "LearningRecorded" THEN {LearningOf(e)} ELSE {})
      BY <1>1 DEF Handles
    <2>2. LearningOf(e).id = e.agg /\ (e.kind = "LearningRecorded" => e.agg = e.pos)
      BY DEF LearningOf, Follows
    <2>3. Ids(t.learnings) \subseteq 1..n
      BY DEF Shaped
    <2>. QED
      BY <1>2, <2>1, <2>2, <2>3 DEF Ids
  <1>8. Shaped(u, e.pos)
    BY <1>1, <1>3, <1>4, <1>5, <1>6, <1>7 DEF Shaped, Handles
  <1>9. Within(t, u)
    BY <1>1, <1>3, <1>4, <1>5, <1>6, <1>7 DEF Within
  <1>. QED
    BY <1>8, <1>9 DEF u

-----------------------------------------------------------------------------
(* The commands and the rebuilds together. *)

\* What the committed events tell.
Told == Replay(log)

\* What a session has read has its columns.
Sighted(v) ==
    v = [row |-> v.row, ver |-> v.ver, late |-> v.late, cutoff |-> v.cutoff, scanned |-> v.scanned,
         terminal |-> v.terminal, prior |-> v.prior, base |-> v.base, exp |-> v.exp]

LedgerForm == log \in Seq(ToSet(log)) /\ sequence \in Nat /\ lock \in Session \cup {NoSession}

SessionForm ==
    /\ pc \in [Session -> Control]
    /\ cmd = [s \in Session |-> cmd[s]] /\ seen = [s \in Session |-> seen[s]]
    /\ \A s \in Session : Sighted(seen[s]) /\ seen[s].base \in Nat

\* No observation takes the position of an experiment or the one before it.
ToldSettled ==
    /\ Shaped(Told, Settled) /\ Observations \subseteq 1..Settled
    /\ \A e \in DOMAIN Told.experiments : e \notin Observations /\ (e - 1) \notin Observations

\* A command is about rows that the ledger tells of, even when a rebuild has removed them
\* since, and what it has read of its experiment is as told.
AboutTold ==
    \A s \in Session :
        /\ cmd[s].op \in {"activate", "retire"} => cmd[s].on \in DOMAIN Told.hypotheses
        /\ cmd[s].op = "evaluate" => cmd[s].on \in DOMAIN Told.experiments
        /\ cmd[s].op = "evaluate" /\ pc[s] # "read" =>
              /\ seen[s].exp.hyp = Told.experiments[cmd[s].on].hyp
              /\ seen[s].exp.activation \in {cmd[s].on - 1, cmd[s].on}

\* The anchor of an experiment is its activation or its registration.
Anchored == \A e \in DOMAIN experiments : experiments[e].activation \in {e - 1, e}

\* A rebuild in progress has read what the ledger still tells.
RebuildForm ==
    /\ rebuilds \in Nat
    /\ DOMAIN doomed = {"hypotheses", "experiments", "evidence", "beliefs", "learnings"}
    /\ step # "idle" => /\ rebuilds # 0 /\ \E n \in Nat : Shaped(Replay(replayed), n)
                        /\ Within(Replay(replayed), Told)

RInv ==
    /\ LedgerForm /\ SessionForm /\ LockOwned /\ ToldSettled /\ AboutTold /\ RebuildForm
    /\ Anchored /\ RowsAreReplayed /\ ReplayAgrees

\* What a session sees after reading rows, after its scan and after locking the head.
WithRows(v, row, late, exp) == [v EXCEPT !.row = row, !.late = late, !.exp = exp]
WithScan(v, found, terminal) == [[v EXCEPT !.scanned = found] EXCEPT !.terminal = terminal]
WithBase(v, base) == [v EXCEPT !.base = base]

\* A column of what a session has read changes, the others stay.
LEMMA SightColumns ==
    ASSUME NEW v, Sighted(v), NEW x
    PROVE  /\ LET w == [v EXCEPT !.ver = x] IN Sighted(w) /\ w.base = v.base /\ w.exp = v.exp
           /\ LET w == [v EXCEPT !.cutoff = x] IN Sighted(w) /\ w.base = v.base /\ w.exp = v.exp
           /\ LET w == [v EXCEPT !.prior = x] IN Sighted(w) /\ w.base = v.base /\ w.exp = v.exp
  <1>1. PICK a, b, c, d, f, g, h, i, j :
           v = [row |-> a, ver |-> b, late |-> c, cutoff |-> d, scanned |-> f, terminal |-> g, prior |-> h,
                base |-> i, exp |-> j]
    BY Zenon DEF Sighted
  <1>. QED
    BY <1>1 DEF Sighted

\* The head's position is kept.
LEMMA SightBase ==
    ASSUME NEW v, Sighted(v), NEW x
    PROVE  LET w == WithBase(v, x) IN
           Sighted(w) /\ w.base = x /\ w.exp = v.exp /\ w.terminal = v.terminal
  <1>1. PICK a, b, c, d, f, g, h, i, j :
           v = [row |-> a, ver |-> b, late |-> c, cutoff |-> d, scanned |-> f, terminal |-> g, prior |-> h,
                base |-> i, exp |-> j]
    BY Zenon DEF Sighted
  <1>. QED
    BY <1>1 DEF Sighted, WithBase

\* The rows of the hypothesis and of its experiment are read together.
LEMMA SightRows ==
    ASSUME NEW v, Sighted(v), NEW x, NEW y, NEW z
    PROVE  LET w == WithRows(v, x, y, z) IN
           Sighted(w) /\ w.base = v.base /\ w.exp = z
  <1>1. PICK a, b, c, d, f, g, h, i, j :
           v = [row |-> a, ver |-> b, late |-> c, cutoff |-> d, scanned |-> f, terminal |-> g, prior |-> h,
                base |-> i, exp |-> j]
    BY Zenon DEF Sighted
  <1>2. [v EXCEPT !.row = x] = [row |-> x, ver |-> b, late |-> c, cutoff |-> d, scanned |-> f, terminal |-> g,
                               prior |-> h, base |-> i, exp |-> j]
    BY <1>1
  <1>3. ASSUME NEW w, w = [row |-> x, ver |-> b, late |-> c, cutoff |-> d, scanned |-> f, terminal |-> g,
                           prior |-> h, base |-> i, exp |-> j]
        PROVE  [w EXCEPT !.late = y] = [row |-> x, ver |-> b, late |-> y, cutoff |-> d, scanned |-> f,
                                        terminal |-> g, prior |-> h, base |-> i, exp |-> j]
    BY <1>3
  <1>4. ASSUME NEW w, w = [row |-> x, ver |-> b, late |-> y, cutoff |-> d, scanned |-> f, terminal |-> g,
                           prior |-> h, base |-> i, exp |-> j]
        PROVE  Sighted([w EXCEPT !.exp = z]) /\ [w EXCEPT !.exp = z].base = i /\ [w EXCEPT !.exp = z].exp = z
    BY <1>4 DEF Sighted
  <1>5. v.base = i
    BY <1>1
  <1>. QED
    BY <1>2, <1>3, <1>4, <1>5 DEF WithRows

\* The scan and its classification.
LEMMA SightScan ==
    ASSUME NEW v, Sighted(v), NEW x, NEW y
    PROVE  LET w == WithScan(v, x, y) IN
           Sighted(w) /\ w.base = v.base /\ w.exp = v.exp
  <1>1. PICK a, b, c, d, f, g, h, i, j :
           v = [row |-> a, ver |-> b, late |-> c, cutoff |-> d, scanned |-> f, terminal |-> g, prior |-> h,
                base |-> i, exp |-> j]
    BY Zenon DEF Sighted
  <1>2. [v EXCEPT !.scanned = x] = [row |-> a, ver |-> b, late |-> c, cutoff |-> d, scanned |-> x, terminal |-> g,
                                   prior |-> h, base |-> i, exp |-> j]
    BY <1>1
  <1>3. ASSUME NEW w, w = [row |-> a, ver |-> b, late |-> c, cutoff |-> d, scanned |-> x, terminal |-> g,
                           prior |-> h, base |-> i, exp |-> j]
        PROVE  /\ Sighted([w EXCEPT !.terminal = y]) /\ [w EXCEPT !.terminal = y].base = i
               /\ [w EXCEPT !.terminal = y].exp = j
    BY <1>3 DEF Sighted
  <1>4. v.base = i /\ v.exp = j
    BY <1>1
  <1>. QED
    BY <1>2, <1>3, <1>4 DEF WithScan

\* Nothing read is nothing in every column.
LEMMA NothingSighted ==
    Sighted(NothingSeen) /\ NothingSeen.base = 0
  BY DEF Sighted, NothingSeen

\* What replays tell, one may tell after the other.
LEMMA WithinTransitive ==
    ASSUME NEW t, NEW u, NEW v, Within(t, u), Within(u, v)
    PROVE  Within(t, v)
  BY DEF Within

\* What a session knows after its step, in any state of the others.
Knows(s, control, command, sight) ==
    /\ control \in Control /\ Sighted(sight) /\ sight.base \in Nat
    /\ command.op \in {"activate", "retire"} => command.on \in DOMAIN Told.hypotheses
    /\ command.op = "evaluate" => command.on \in DOMAIN Told.experiments
    /\ command.op = "evaluate" /\ control # "read" =>
          /\ sight.exp.hyp = Told.experiments[command.on].hyp
          /\ sight.exp.activation \in {command.on - 1, command.on}

\* A session that does not commit keeps what it knows in order, and leaves the others.
Moves(s, control, command, sight) ==
    /\ pc' = [pc EXCEPT ![s] = control] /\ cmd' = [cmd EXCEPT ![s] = command]
    /\ seen' = [seen EXCEPT ![s] = sight]
    /\ Knows(s, control, command, sight)
    /\ \/ control # "commit" /\ lock' = Unlocked(s) /\ sequence' = sequence
       \/ /\ control = "commit" /\ lock = NoSession /\ lock' = s
          /\ sequence' = sequence + Appends(s) /\ sight.base = sequence
          /\ command = cmd[s] /\ sight.terminal = seen[s].terminal

\* Every step of a session before its commit is such a move.
LEMMA WorkMoves ==
    ASSUME RInv, NEW s \in Session, Work(s) \/ (NotFound(s) /\ UNCHANGED rebuilder)
    PROVE  \E control, command, sight : Moves(s, control, command, sight)
  <1> DEFINE at == pc[s]
             c == cmd[s]
             v == seen[s]
  <1>1. SessionForm /\ LockOwned /\ AboutTold /\ LedgerForm /\ Anchored /\ RowsAreReplayed /\ ToldSettled
    BY DEF RInv
  <1>2. Knows(s, at, c, v)
    BY <1>1 DEF SessionForm, AboutTold, Knows
  <1>3. /\ Sighted(v) /\ v.base \in Nat /\ sequence \in Nat
        /\ pc = [pc EXCEPT ![s] = at] /\ cmd = [cmd EXCEPT ![s] = c] /\ seen = [seen EXCEPT ![s] = v]
    BY <1>1 DEF SessionForm, LedgerForm
  <1>4. at # "commit" => Unlocked(s) = lock
    BY <1>1 DEF LockOwned, Unlocked
  <1>5. ASSUME Finish(s), lock' = Unlocked(s), sequence' = sequence
        PROVE  Moves(s, "idle", NoCommand, NothingSeen)
    <2>1. NoCommand.op = "none"
      BY DEF NoCommand, Ask
    <2>. QED
      BY <1>5, <2>1, NothingSighted DEF Moves, Knows, Finish, Control
  <1>6. ASSUME NEW l \in Control \ {"read", "commit"}, NEW w, Sighted(w), w.base = v.base, w.exp = v.exp,
               at \notin {"read", "commit"}, Goto(s, l), seen' = [seen EXCEPT ![s] = w],
               UNCHANGED <<cmd, lock, sequence>>
        PROVE  Moves(s, l, c, w)
    <2>1. Knows(s, l, c, w)
      BY <1>2, <1>3, <1>6 DEF Knows
    <2>. QED
      BY <1>3, <1>4, <1>6, <2>1 DEF Moves, Goto
  <1>7. CASE \E x \in Command : Receive(s, x)
    <2>1. PICK x \in Command : Receive(s, x)
      BY <1>7
    <2> DEFINE l == IF x.op \in {"submit", "propose"} THEN "lock" ELSE "read"
    <2>2. /\ at = "idle" /\ pc' = [pc EXCEPT ![s] = l] /\ cmd' = [cmd EXCEPT ![s] = x]
          /\ UNCHANGED <<seen, lock, sequence>>
      BY <2>1 DEF Receive, Goto, ledger
    <2>3. DOMAIN hypotheses \subseteq DOMAIN Told.hypotheses /\ DOMAIN experiments \subseteq DOMAIN Told.experiments
      BY <1>1 DEF RowsAreReplayed, Told, Keys, Live
    <2>4. /\ x.op \in {"activate", "retire"} => x.on \in DOMAIN Told.hypotheses
          /\ x.op = "evaluate" => x.on \in DOMAIN Told.experiments
      BY <2>3 DEF Command, Ask
    <2>5. Knows(s, l, x, v)
      BY <1>3, <2>4 DEF Knows, Control
    <2>6. l # "commit"
      OBVIOUS
    <2>. QED
      BY <1>3, <1>4, <2>2, <2>5, <2>6 DEF Moves
  <1>8. CASE ReadHypothesis(s)
    <2> DEFINE row == hypotheses[Subject(c)]
               late == c.on \in overdue
               exp == IF c.op = "evaluate" THEN experiments[c.on] ELSE v.exp
               w == WithRows(v, row, late, exp)
               l == IF c.op = "evaluate" THEN "cutoff" ELSE "version"
    <2>1. Sighted(w) /\ w.base = v.base /\ w.exp = exp
      BY <1>3, SightRows
    <2>2. /\ at = "read" /\ pc' = [pc EXCEPT ![s] = l] /\ UNCHANGED <<cmd, lock, sequence>>
          /\ c.op = "evaluate" => c.on \in DOMAIN experiments
      BY <1>8 DEF ReadHypothesis, Goto, ledger, Found
    <2>3. seen' = [seen EXCEPT ![s] = w]
      BY <1>8 DEF ReadHypothesis, WithRows
    <2>4. c.op = "evaluate" => /\ exp.hyp = Told.experiments[c.on].hyp
                               /\ exp.activation \in {c.on - 1, c.on}
      BY <1>1, <2>2 DEF Anchored, RowsAreReplayed, Told
    <2> HIDE DEF w, exp
    <2>5. Knows(s, l, c, w)
      BY <1>2, <1>3, <2>1, <2>4 DEF Knows, Control
    <2>6. l # "commit"
      OBVIOUS
    <2>. QED
      BY <1>3, <1>4, <2>2, <2>3, <2>5, <2>6 DEF Moves
  <1>9. CASE ReadVersion(s)
    <2> DEFINE w == [v EXCEPT !.ver = LatestVersion(c.on)]
    <2>1. Sighted(w) /\ w.base = v.base /\ w.exp = v.exp
      BY <1>3, SightColumns
    <2>2. at = "version" /\ Goto(s, "lock") /\ seen' = [seen EXCEPT ![s] = w] /\ UNCHANGED <<cmd, lock, sequence>>
      BY <1>9 DEF ReadVersion, ledger
    <2> HIDE DEF w
    <2>. QED
      BY <1>6, <2>1, <2>2 DEF Control
  <1>10. CASE ReadCutoff(s)
    <2> DEFINE w == [v EXCEPT !.cutoff = Last(log).pos]
    <2>1. Sighted(w) /\ w.base = v.base /\ w.exp = v.exp
      BY <1>3, SightColumns
    <2>2. at = "cutoff" /\ Goto(s, "scan") /\ seen' = [seen EXCEPT ![s] = w] /\ UNCHANGED <<cmd, lock, sequence>>
      BY <1>10 DEF ReadCutoff, ledger
    <2> HIDE DEF w
    <2>. QED
      BY <1>6, <2>1, <2>2 DEF Control
  <1>11. CASE Scan(s)
    <2> DEFINE found == {o \in Observations : o <= v.cutoff}
               view == [v EXCEPT !.scanned = found]
    <2>1. PICK t \in MayBeTerminal(c, view) : seen' = [seen EXCEPT ![s] = [view EXCEPT !.terminal = t]]
      BY <1>11 DEF Scan
    <2> DEFINE w == WithScan(v, found, t)
    <2>2. Sighted(w) /\ w.base = v.base /\ w.exp = v.exp
      BY <1>3, SightScan
    <2>3. at = "scan" /\ Goto(s, "match") /\ seen' = [seen EXCEPT ![s] = w] /\ UNCHANGED <<cmd, lock, sequence>>
      BY <1>11, <2>1 DEF Scan, ledger, WithScan
    <2> HIDE DEF w
    <2>. QED
      BY <1>6, <2>2, <2>3 DEF Control
  <1>12. CASE MatchNothing(s)
    <2>1. at = "match" /\ Goto(s, "prior") /\ seen' = [seen EXCEPT ![s] = v] /\ UNCHANGED <<cmd, lock, sequence>>
      BY <1>3, <1>12 DEF MatchNothing, ledger
    <2>. QED
      BY <1>3, <1>6, <2>1 DEF Control
  <1>13. CASE ReadPrior(s)
    <2>1. at = "prior" /\ Goto(s, "lock") /\ UNCHANGED <<cmd, lock, sequence>>
      BY <1>13 DEF ReadPrior, ledger
    <2>2. CASE UNCHANGED seen
      BY <1>3, <1>6, <2>1, <2>2 DEF Control
    <2>3. CASE \E b \in current : seen' = [seen EXCEPT ![s].prior = b]
      <3>1. PICK b \in current : seen' = [seen EXCEPT ![s].prior = b]
        BY <2>3
      <3> DEFINE w == [v EXCEPT !.prior = b]
      <3>2. Sighted(w) /\ w.base = v.base /\ w.exp = v.exp
        BY <1>3, SightColumns
      <3>3. seen' = [seen EXCEPT ![s] = w]
        BY <3>1
      <3> HIDE DEF w
      <3>. QED
        BY <1>6, <2>1, <3>2, <3>3 DEF Control
    <2>. QED
      BY <1>13, <2>2, <2>3 DEF ReadPrior
  <1>14. CASE LockHead(s)
    <2> DEFINE w == WithBase(v, sequence)
    <2>1. Sighted(w) /\ w.base = sequence /\ w.exp = v.exp /\ w.terminal = v.terminal
      BY <1>3, SightBase
    <2>2. /\ at = "lock" /\ Goto(s, "commit") /\ seen' = [seen EXCEPT ![s] = w] /\ UNCHANGED cmd
          /\ lock = NoSession /\ lock' = s /\ sequence' = sequence + Appends(s)
      BY <1>14 DEF LockHead, WithBase
    <2> HIDE DEF w
    <2>3. Knows(s, "commit", c, w)
      BY <1>2, <1>3, <2>1, <2>2 DEF Knows, Control
    <2>. QED
      BY <1>3, <2>1, <2>2, <2>3 DEF Moves, Goto
  <1>15. CASE Refuse(s) \/ MatchExisting(s) \/ Conflict(s) \/ CommitDuplicate(s) \/ Crash(s) \/ NotFound(s)
    <2>1. Finish(s) /\ sequence' = sequence
      BY <1>15 DEF Refuse, MatchExisting, Conflict, CommitDuplicate, Crash, NotFound, ledger
    <2>2. lock' = Unlocked(s)
      <3>1. CASE CommitDuplicate(s) \/ Crash(s)
        BY <3>1 DEF CommitDuplicate, Crash
      <3>2. CASE Refuse(s) \/ MatchExisting(s) \/ Conflict(s) \/ NotFound(s)
        <4>1. at # "commit" /\ lock' = lock
          BY <3>2 DEF Refuse, MatchExisting, Conflict, NotFound, ledger
        <4>. QED
          BY <1>4, <4>1
      <3>. QED
        BY <1>15, <3>1, <3>2
    <2>. QED
      BY <1>5, <2>1, <2>2
  <1>. QED
    BY <1>7, <1>8, <1>9, <1>10, <1>11, <1>12, <1>13, <1>14, <1>15 DEF Work

\* Tables are as well shaped later.
LEMMA ShapedLater ==
    ASSUME NEW t, NEW n \in Nat, NEW m \in Nat, n <= m, Shaped(t, n)
    PROVE  Shaped(t, m)
  <1>1. 1..n \subseteq 1..m
    OBVIOUS
  <1>. QED
    BY <1>1, Zenon DEF Shaped

\* Nothing committed is in flight.
LEMMA SettledForm ==
    ASSUME LedgerForm, SessionForm, LockOwned
    PROVE  /\ Settled \in Nat /\ Settled <= sequence /\ sequence \in Nat
           /\ \A s \in Session :
                 /\ s # NoSession /\ Appends(s) \in {1, 2, 3, 4}
                 /\ pc[s] = "commit" => lock = s /\ Settled = seen[s].base /\ sequence = Settled + Appends(s)
  <1>1. \A s \in Session : s # NoSession /\ Appends(s) \in {1, 2, 3, 4} /\ seen[s].base \in Nat
    BY LabAssumption DEF Appends, SessionForm
  <1>. QED
    BY <1>1 DEF LedgerForm, LockOwned, Settled

\* Only the session that is about to commit has the lock, whoever moves.
LEMMA MovesLock ==
    ASSUME RInv, NEW s \in Session, NEW control, NEW command, NEW sight, Moves(s, control, command, sight)
    PROVE  /\ LockOwned' /\ lock' \in Session \cup {NoSession} /\ sequence' \in Nat
           /\ Settled' \in Nat /\ Settled <= Settled'
  <1>1. LedgerForm /\ SessionForm /\ LockOwned
    BY DEF RInv
  <1>2. /\ pc'[s] = control /\ cmd'[s] = command /\ seen'[s] = sight
        /\ \A q \in Session : q # s => pc'[q] = pc[q] /\ cmd'[q] = cmd[q] /\ seen'[q] = seen[q]
    BY <1>1 DEF Moves, SessionForm
  <1>3. \A q \in Session : q # s => Appends(q)' = Appends(q) /\ seen'[q].base = seen[q].base
    BY <1>2 DEF Appends
  <1>4. CASE control # "commit" /\ lock' = Unlocked(s) /\ sequence' = sequence
    <2>1. LockOwned'
      <3>1. \A q \in Session : pc'[q] = "commit" <=> lock' = q
        BY <1>1, <1>2, <1>4, SettledForm DEF LockOwned, Unlocked
      <3>2. ASSUME lock' # NoSession PROVE sequence' = seen'[lock'].base + Appends(lock)'
        <4>1. lock' = lock /\ lock # s /\ lock \in Session
          BY <1>1, <1>4, <3>2 DEF Unlocked, LedgerForm
        <4>2. sequence = seen[lock].base + Appends(lock)
          BY <1>1, <3>2, <4>1 DEF LockOwned
        <4>3. PICK q \in Session : q = lock
          BY <4>1
        <4>4. seen'[q].base = seen[q].base /\ Appends(q)' = Appends(q)
          BY <1>3, <4>1, <4>3
        <4>5. Appends(lock)' = Appends(q)'
          BY <4>1, <4>3 DEF Appends
        <4>. QED
          BY <1>4, <4>1, <4>2, <4>3, <4>4, <4>5
      <3>. QED
        BY <3>1, <3>2 DEF LockOwned
    <2>2. Settled' \in {Settled, sequence}
      <3>1. CASE lock' = NoSession
        BY <1>4, <3>1 DEF Settled
      <3>2. CASE lock' # NoSession
        <4>1. lock' = lock /\ lock # s /\ lock \in Session
          BY <1>1, <1>4, <3>2 DEF Unlocked, LedgerForm
        <4>. QED
          BY <1>3, <3>2, <4>1 DEF Settled
      <3>. QED
        BY <3>1, <3>2
    <2>3. lock' \in Session \cup {NoSession}
      BY <1>1, <1>4 DEF LedgerForm, Unlocked
    <2>. QED
      BY <1>1, <1>4, <2>1, <2>2, <2>3, SettledForm
  <1>5. CASE /\ control = "commit" /\ lock = NoSession /\ lock' = s
             /\ sequence' = sequence + Appends(s) /\ sight.base = sequence
             /\ command = cmd[s] /\ sight.terminal = seen[s].terminal
    <2>1. Appends(s)' = Appends(s)
      BY <1>2, <1>5 DEF Appends
    <2>2. \A q \in Session : pc'[q] = "commit" <=> lock' = q
      BY <1>1, <1>2, <1>5, SettledForm DEF LockOwned
    <2>3. sequence' = seen'[s].base + Appends(s)'
      BY <1>2, <1>5, <2>1
    <2>4. Appends(lock)' = Appends(s)'
      BY <1>5 DEF Appends
    <2>5. LockOwned'
      BY <1>5, <2>2, <2>3, <2>4 DEF LockOwned
    <2>6. Settled' = sequence /\ Settled = sequence
      BY <1>1, <1>2, <1>5, SettledForm DEF Settled
    <2>. QED
      BY <1>1, <1>5, <2>5, <2>6, SettledForm
  <1>. QED
    BY <1>4, <1>5 DEF Moves

\* A move of a session keeps the invariant.
LEMMA MovesKeep ==
    ASSUME RInv, NEW s \in Session, NEW control, NEW command, NEW sight, Moves(s, control, command, sight),
           UNCHANGED <<log, hypotheses, experiments, evidence, beliefs, current, learnings, rebuilder>>
    PROVE  RInv'
  <1>1. /\ LedgerForm /\ SessionForm /\ LockOwned /\ ToldSettled /\ AboutTold /\ RebuildForm /\ Anchored
        /\ RowsAreReplayed /\ ReplayAgrees
    BY DEF RInv
  <1>2. Told' = Told /\ Observations' = Observations
    BY DEF Told, Observations
  <1>3. /\ pc'[s] = control /\ cmd'[s] = command /\ seen'[s] = sight
        /\ pc' = [pc EXCEPT ![s] = control] /\ cmd' = [cmd EXCEPT ![s] = command]
        /\ seen' = [seen EXCEPT ![s] = sight]
        /\ \A q \in Session : q # s => pc'[q] = pc[q] /\ cmd'[q] = cmd[q] /\ seen'[q] = seen[q]
        /\ Knows(s, control, command, sight)
    BY <1>1 DEF Moves, SessionForm
  <1>4. LedgerForm' /\ LockOwned'
    BY <1>1, MovesLock DEF LedgerForm
  <1>5. SessionForm'
    <2>1. cmd' = [q \in Session |-> cmd'[q]] /\ seen' = [q \in Session |-> seen'[q]]
      BY <1>1, <1>3 DEF SessionForm
    <2>. QED
      BY <1>1, <1>3, <2>1 DEF SessionForm, Knows
  <1>6. ToldSettled'
    <2>1. Shaped(Told, Settled') /\ 1..Settled \subseteq 1..Settled'
      BY <1>1, MovesLock, SettledForm, ShapedLater DEF ToldSettled
    <2>. QED
      BY <1>1, <1>2, <2>1 DEF ToldSettled
  <1>7. AboutTold'
    BY <1>1, <1>2, <1>3 DEF AboutTold, Knows
  <1>8. RebuildForm' /\ Anchored'
    BY <1>1, <1>2 DEF RebuildForm, Anchored, rebuilder
  <1>9. RowsAreReplayed' /\ ReplayAgrees'
    BY <1>1 DEF RowsAreReplayed, ReplayAgrees, Live, rebuilder
  <1>. QED
    BY <1>4, <1>5, <1>6, <1>7, <1>8, <1>9 DEF RInv

\* What a sequence of events tells, and of what it consists, with one more.
Tells(l, t, events) == l \in Seq(events) /\ ToSet(l) = events /\ Replay(l) = t

\* One more event is handled after the others.
LEMMA TellsNext ==
    ASSUME NEW l, NEW t, NEW events, Tells(l, t, events), NEW e
    PROVE  Tells(Append(l, e), Apply(t, e), events \cup {e})
  <1> DEFINE E == events \cup {e}
  <1>0. l \in Seq(E) /\ e \in E /\ ToSet(l) = events /\ Replay(l) = t
    BY DEF Tells
  <1> HIDE DEF E
  <1>1. /\ Append(l, e) \in Seq(E) /\ Len(Append(l, e)) = Len(l) + 1 /\ Append(l, e)[Len(l) + 1] = e
        /\ \A i \in 1..Len(l) : Append(l, e)[i] = l[i]
        /\ DOMAIN Append(l, e) = 1..(Len(l) + 1) /\ DOMAIN l = 1..Len(l) /\ Len(l) \in Nat
    BY <1>0, AppendProperties
  <1>2. ToSet(Append(l, e)) = ToSet(l) \cup {e}
    <2>1. ToSet(Append(l, e)) \subseteq ToSet(l) \cup {e}
      <3> SUFFICES ASSUME NEW i \in 1..(Len(l) + 1) PROVE Append(l, e)[i] \in ToSet(l) \cup {e}
        BY <1>1 DEF ToSet
      <3>1. CASE i = Len(l) + 1
        BY <1>1, <3>1
      <3>2. CASE i \in 1..Len(l)
        BY <1>1, <3>2 DEF ToSet
      <3>. QED
        BY <1>1, <3>1, <3>2
    <2>2. ToSet(l) \cup {e} \subseteq ToSet(Append(l, e))
      <3>1. \A i \in 1..Len(l) : i \in 1..(Len(l) + 1)
        BY <1>1
      <3>2. Len(l) + 1 \in 1..(Len(l) + 1)
        BY <1>1
      <3>. QED
        BY <1>1, <3>1, <3>2 DEF ToSet
    <2>. QED
      BY <2>1, <2>2
  <1>3. Append(l, e) \in Seq(ToSet(Append(l, e)))
    <2>1. \A i \in 1..Len(Append(l, e)) : Append(l, e)[i] \in ToSet(Append(l, e))
      BY <1>1 DEF ToSet
    <2>2. Append(l, e) = [i \in 1..Len(Append(l, e)) |-> Append(l, e)[i]] /\ Len(Append(l, e)) \in Nat
      BY <1>1, LenProperties
    <2> DEFINE f == Append(l, e)
               k == Len(f)
               S == ToSet(f)
    <2>3. f = [i \in 1..k |-> f[i]] /\ k \in Nat /\ \A i \in 1..k : f[i] \in S
      BY <2>1, <2>2
    <2> HIDE DEF f, k, S
    <2>4. [i \in 1..k |-> f[i]] \in Seq(S)
      BY <2>3, IsASeq
    <2>5. f \in Seq(S)
      BY <2>3, <2>4, Zenon
    <2>. QED
      BY <2>5 DEF f, S
  <1>4. Replay(Append(l, e)) = Apply(t, e)
    BY <1>0, ReplayAppend
  <1>. QED
    BY <1>0, <1>2, <1>3, <1>4 DEF Tells

\* The ledger tells what it tells.
LEMMA TellsNow ==
    ASSUME LedgerForm
    PROVE  Tells(log, Told, ToSet(log))
  BY DEF LedgerForm, Told, Tells

\* What it tells after a transaction's events.
LEMMA ToldAfterOne ==
    ASSUME LedgerForm, NEW a
    PROVE  Tells(log \o <<a>>, Apply(Told, a), ToSet(log) \cup {a})
  <1> DEFINE E == ToSet(log) \cup {a}
  <1>1. log \in Seq(E) /\ a \in E
    BY DEF LedgerForm
  <1> HIDE DEF E
  <1>2. log \o <<a>> = Append(log, a)
    BY <1>1, ConcatIsAppends
  <1>3. Tells(Append(log, a), Apply(Told, a), ToSet(log) \cup {a})
    BY TellsNow, TellsNext
  <1>. QED
    BY <1>2, <1>3, Zenon

\* ... and with two events.
LEMMA ToldAfterTwo ==
    ASSUME LedgerForm, NEW a, NEW b
    PROVE  Tells(log \o (<<a, b>> \o <<>>), Apply(Apply(Told, a), b), (ToSet(log) \cup {a}) \cup {b})
  <1> DEFINE E == ToSet(log) \cup {a, b}
  <1>1. log \in Seq(E) /\ a \in E /\ b \in E
    BY DEF LedgerForm
  <1> HIDE DEF E
  <1>2. log \o (<<a, b>> \o <<>>) = Append(Append(log, a), b)
    BY <1>1, ConcatIsAppends
  <1>3. Tells(Append(log, a), Apply(Told, a), ToSet(log) \cup {a})
    BY TellsNow, TellsNext
  <1>4. Tells(Append(Append(log, a), b), Apply(Apply(Told, a), b), (ToSet(log) \cup {a}) \cup {b})
    BY <1>3, TellsNext
  <1>. QED
    BY <1>2, <1>4, Zenon

\* ... and with three events.
LEMMA ToldAfterThree ==
    ASSUME LedgerForm, NEW a, NEW b, NEW c
    PROVE  Tells(log \o <<a, b, c>>, Apply(Apply(Apply(Told, a), b), c), ((ToSet(log) \cup {a}) \cup {b}) \cup {c})
  <1> DEFINE E == ToSet(log) \cup {a, b, c}
  <1>1. log \in Seq(E) /\ a \in E /\ b \in E /\ c \in E
    BY DEF LedgerForm
  <1> HIDE DEF E
  <1>2. log \o <<a, b, c>> = Append(Append(Append(log, a), b), c)
    BY <1>1, ConcatIsAppends
  <1>3. Tells(Append(log, a), Apply(Told, a), ToSet(log) \cup {a})
    BY TellsNow, TellsNext
  <1>4. Tells(Append(Append(log, a), b), Apply(Apply(Told, a), b), (ToSet(log) \cup {a}) \cup {b})
    BY <1>3, TellsNext
  <1>5. Tells(Append(Append(Append(log, a), b), c), Apply(Apply(Apply(Told, a), b), c),
              ((ToSet(log) \cup {a}) \cup {b}) \cup {c})
    BY <1>4, TellsNext
  <1>. QED
    BY <1>2, <1>5, Zenon

\* ... and with four events.
LEMMA ToldAfterFour ==
    ASSUME LedgerForm, NEW a, NEW b, NEW c, NEW d
    PROVE  Tells(log \o (<<a, b>> \o <<c, d>>), Apply(Apply(Apply(Apply(Told, a), b), c), d),
                 (((ToSet(log) \cup {a}) \cup {b}) \cup {c}) \cup {d})
  <1> DEFINE E == ToSet(log) \cup {a, b, c, d}
  <1>1. log \in Seq(E) /\ a \in E /\ b \in E /\ c \in E /\ d \in E
    BY DEF LedgerForm
  <1> HIDE DEF E
  <1>2. log \o (<<a, b>> \o <<c, d>>) = Append(Append(Append(Append(log, a), b), c), d)
    BY <1>1, ConcatIsAppends
  <1>3. Tells(Append(log, a), Apply(Told, a), ToSet(log) \cup {a})
    BY TellsNow, TellsNext
  <1>4. Tells(Append(Append(log, a), b), Apply(Apply(Told, a), b), (ToSet(log) \cup {a}) \cup {b})
    BY <1>3, TellsNext
  <1>5. Tells(Append(Append(Append(log, a), b), c), Apply(Apply(Apply(Told, a), b), c),
              ((ToSet(log) \cup {a}) \cup {b}) \cup {c})
    BY <1>4, TellsNext
  <1>6. Tells(Append(Append(Append(Append(log, a), b), c), d), Apply(Apply(Apply(Apply(Told, a), b), c), d),
              (((ToSet(log) \cup {a}) \cup {b}) \cup {c}) \cup {d})
    BY <1>5, TellsNext
  <1>. QED
    BY <1>2, <1>6, Zenon

\* Evidence as an event tells it.
Uncut(rows) == {[x EXCEPT !.cutoff = 0] : x \in rows}

\* Tables that show nothing but what a replay tells, and tables that show all of it.
Shown(h, x, v, b, c, l, t) ==
    /\ DOMAIN h \subseteq DOMAIN t.hypotheses /\ DOMAIN x \subseteq DOMAIN t.experiments
    /\ Ids(v) \subseteq Ids(t.evidence) /\ Uncut(v) \subseteq t.evidence
    /\ DOMAIN b \subseteq DOMAIN t.beliefs /\ \A i \in DOMAIN b : b[i] = t.beliefs[i]
    /\ c \subseteq DOMAIN b /\ l \subseteq t.learnings
    /\ \A e \in DOMAIN x : x[e].hyp = t.experiments[e].hyp /\ x[e].activation \in {e - 1, e}
AllShown(h, x, v, b, c, l, t) ==
    /\ DOMAIN h = DOMAIN t.hypotheses /\ DOMAIN x = DOMAIN t.experiments
    /\ Ids(v) = Ids(t.evidence) /\ Uncut(v) = t.evidence
    /\ b = t.beliefs /\ c = t.current /\ l = t.learnings

\* The live tables show what the ledger tells, and all of it before the first rebuild.
LEMMA LiveShown ==
    ASSUME RInv
    PROVE  /\ Shown(hypotheses, experiments, evidence, beliefs, current, learnings, Told)
           /\ rebuilds = 0 => AllShown(hypotheses, experiments, evidence, beliefs, current, learnings, Told)
  <1>1. RowsAreReplayed /\ ReplayAgrees /\ Anchored
    BY DEF RInv
  <1>2. /\ DOMAIN hypotheses \subseteq DOMAIN Told.hypotheses /\ DOMAIN experiments \subseteq DOMAIN Told.experiments
        /\ Ids(evidence) \subseteq Ids(Told.evidence) /\ DOMAIN beliefs \subseteq DOMAIN Told.beliefs
    BY <1>1 DEF RowsAreReplayed, Keys, Live, Told
  <1>3. Shown(hypotheses, experiments, evidence, beliefs, current, learnings, Told)
    BY <1>1, <1>2 DEF RowsAreReplayed, Anchored, Shown, Told, Uncut
  <1>4. ASSUME rebuilds = 0
        PROVE  AllShown(hypotheses, experiments, evidence, beliefs, current, learnings, Told)
    <2>1. Keys(Told) = Keys(Live)
      BY <1>1, <1>4 DEF ReplayAgrees, Told
    <2>2. /\ DOMAIN hypotheses = DOMAIN Told.hypotheses /\ DOMAIN experiments = DOMAIN Told.experiments
          /\ Ids(evidence) = Ids(Told.evidence)
      BY <2>1 DEF Keys, Live
    <2>. QED
      BY <1>1, <1>4, <2>2 DEF ReplayAgrees, AllShown, Told, Uncut
  <1>. QED
    BY <1>3, <1>4

\* The ledger tells more, and the tables show it.
Shows ==
    /\ log' \in Seq(ToSet(log')) /\ Within(Told, Told') /\ Shaped(Told', sequence)
    /\ Observations' \subseteq 1..sequence
    /\ \A e \in DOMAIN Told'.experiments : e \notin Observations' /\ (e - 1) \notin Observations'
    /\ Shown(hypotheses', experiments', evidence', beliefs', current', learnings', Told')
    /\ rebuilds = 0 =>
          AllShown(hypotheses', experiments', evidence', beliefs', current', learnings', Told')

\* Tables that show what the ledger tells are as the invariant has them.
LEMMA ShownLive ==
    ASSUME Shown(hypotheses', experiments', evidence', beliefs', current', learnings', Told'),
           rebuilds' = 0 => AllShown(hypotheses', experiments', evidence', beliefs', current', learnings', Told')
    PROVE  Anchored' /\ RowsAreReplayed' /\ ReplayAgrees'
  <1>1. Anchored'
    BY DEF Shown, Anchored
  <1>2. Ids(learnings') \subseteq Ids(Told'.learnings)
    BY DEF Shown, Ids
  <1>3. RowsAreReplayed'
    BY <1>2 DEF Shown, RowsAreReplayed, Keys, Live, Told, Uncut
  <1>4. ReplayAgrees'
    BY DEF Shown, AllShown, ReplayAgrees, Keys, Live, Told, Uncut
  <1>. QED
    BY <1>1, <1>3, <1>4

\* What holds when a session commits.
LEMMA CommitStarts ==
    ASSUME RInv, NEW s \in Session, Commit(s)
    PROVE  /\ pc[s] = "commit" /\ Finish(s) /\ lock = s /\ lock' = NoSession /\ sequence' = sequence
           /\ Settled = seen[s].base /\ Settled \in Nat /\ sequence = Settled + Appends(s) /\ sequence \in Nat
           /\ Knows(s, pc[s], cmd[s], seen[s]) /\ s # NoSession
  <1>1. LedgerForm /\ SessionForm /\ LockOwned /\ AboutTold
    BY DEF RInv
  <1>2. pc[s] = "commit" /\ Finish(s) /\ lock' = Unlocked(s) /\ sequence' = sequence
    BY Zenon DEF Commit, CommitSubmit, CommitPropose, CommitActivate, CommitRetire, CommitEvaluate, Commits
  <1>3. Knows(s, pc[s], cmd[s], seen[s])
    BY <1>1 DEF SessionForm, AboutTold, Knows
  <1>. QED
    BY <1>1, <1>2, <1>3, SettledForm DEF Unlocked

\* A commit that shows what it tells keeps the invariant.
LEMMA CommitsKeep ==
    ASSUME RInv, NEW s \in Session, Commit(s), UNCHANGED rebuilder, Shows
    PROVE  RInv'
  <1>1. /\ LedgerForm /\ SessionForm /\ LockOwned /\ ToldSettled /\ AboutTold /\ RebuildForm
    BY DEF RInv
  <1>2. /\ pc[s] = "commit" /\ lock = s /\ lock' = NoSession /\ sequence' = sequence /\ sequence \in Nat
        /\ Finish(s) /\ s # NoSession
    BY CommitStarts
  <1>3. /\ pc'[s] = "idle" /\ cmd'[s] = NoCommand /\ seen'[s] = NothingSeen
        /\ pc' = [pc EXCEPT ![s] = "idle"] /\ cmd' = [cmd EXCEPT ![s] = NoCommand]
        /\ seen' = [seen EXCEPT ![s] = NothingSeen]
        /\ \A q \in Session : q # s => pc'[q] = pc[q] /\ cmd'[q] = cmd[q] /\ seen'[q] = seen[q]
    BY <1>1, <1>2 DEF Finish, SessionForm
  <1>4. LedgerForm'
    BY <1>2 DEF Shows, LedgerForm
  <1>5. SessionForm'
    <2>1. cmd' = [q \in Session |-> cmd'[q]] /\ seen' = [q \in Session |-> seen'[q]]
      BY <1>1, <1>3 DEF SessionForm
    <2>. QED
      BY <1>1, <1>3, <2>1, NothingSighted DEF SessionForm, Control
  <1>6. LockOwned'
    <2>1. \A q \in Session : pc'[q] # "commit" /\ q # NoSession
      BY <1>1, <1>2, <1>3, SettledForm DEF LockOwned
    <2>. QED
      BY <1>2, <2>1 DEF LockOwned
  <1>7. ToldSettled'
    <2>1. Settled' = sequence
      BY <1>2 DEF Settled
    <2>. QED
      BY <2>1 DEF Shows, ToldSettled
  <1>8. AboutTold'
    <2>1. NoCommand.op = "none"
      BY DEF NoCommand, Ask
    <2>2. Within(Told, Told')
      BY DEF Shows
    <2>. QED
      BY <1>1, <1>3, <2>1, <2>2 DEF AboutTold, Within
  <1>9. RebuildForm'
    <2>1. step # "idle" => Within(Replay(replayed), Told')
      BY <1>1, WithinTransitive DEF Shows, RebuildForm
    <2>2. /\ rebuilds' = rebuilds /\ doomed' = doomed /\ step' = step /\ replayed' = replayed
      BY DEF rebuilder
    <2>. QED
      BY <1>1, <2>1, <2>2 DEF RebuildForm
  <1>10. Anchored' /\ RowsAreReplayed' /\ ReplayAgrees'
    BY ShownLive DEF Shows, rebuilder
  <1>. QED
    BY <1>4, <1>5, <1>6, <1>7, <1>8, <1>9, <1>10 DEF RInv

\* An event's columns.
LEMMA EventColumns ==
    ASSUME NEW s, NEW i, NEW kind, NEW agg, NEW ver, NEW data
    PROVE  /\ LET e == Event(s, i, kind, agg, ver, data) IN
                 e.pos = seen[s].base + i /\ e.kind = kind /\ e.agg = agg /\ e.data = data
           /\ LET e == NewEvent(s, i, kind, data) IN
                 e.pos = seen[s].base + i /\ e.kind = kind /\ e.agg = seen[s].base + i /\ e.data = data
  BY DEF Event, NewEvent

\* A submission tells of an observation and shows nothing.
LEMMA SubmitShows ==
    ASSUME RInv, NEW s \in Session, CommitSubmit(s), UNCHANGED rebuilder
    PROVE  Shows
  <1> DEFINE e == NewEvent(s, 1, "ObservationAccepted", NoData)
             base == seen[s].base
  <1>1. LedgerForm /\ ToldSettled
    BY DEF RInv
  <1>2. /\ Settled = base /\ base \in Nat /\ sequence = base + 1
    BY CommitStarts DEF Commit, CommitSubmit, Appends
  <1>3. e.pos = base + 1 /\ e.kind = "ObservationAccepted"
    BY EventColumns
  <1>4. log' = log \o <<e>> /\ UNCHANGED tables
    BY DEF CommitSubmit, Commits
  <1> HIDE DEF e
  <1>5. log' \in Seq(ToSet(log')) /\ Told' = Apply(Told, e) /\ ToSet(log') = ToSet(log) \cup {e}
    BY <1>1, <1>4, ToldAfterOne DEF Told, Tells
  <1>6. Told' = Told
    BY <1>3, <1>5, ApplyKinds
  <1>7. Observations' = Observations \cup {base + 1}
    BY <1>3, <1>5 DEF Observations
  <1>8. Shaped(Told', sequence) /\ Within(Told, Told')
    BY <1>1, <1>2, <1>6, ShapedLater DEF ToldSettled, Within
  <1>9. Observations' \subseteq 1..sequence
    <2>1. 1..base \cup {base + 1} \subseteq 1..sequence
      BY <1>2
    <2>. QED
      BY <1>1, <1>2, <1>7, <2>1 DEF ToldSettled
  <1>10. \A x \in DOMAIN Told'.experiments : x \notin Observations' /\ (x - 1) \notin Observations'
    BY <1>1, <1>2, <1>6, <1>7 DEF ToldSettled, Shaped
  <1>11. UNCHANGED <<hypotheses, experiments, evidence, beliefs, current, learnings>>
    BY <1>4 DEF tables
  <1>. QED
    BY <1>5, <1>6, <1>8, <1>9, <1>10, <1>11, LiveShown DEF Shows

\* Nothing but a submission adds an observation.
LEMMA ObservedStays ==
    ASSUME RInv, ToSet(log) \subseteq ToSet(log'),
           \A e \in ToSet(log') \ ToSet(log) : e.kind # "ObservationAccepted",
           sequence \in Nat, Settled \in Nat, Settled <= sequence
    PROVE  Observations' = Observations /\ Observations' \subseteq 1..sequence
  <1>1. Observations' = Observations
    BY DEF Observations
  <1>. QED
    BY <1>1 DEF RInv, ToldSettled

\* A proposal shows its hypothesis.
LEMMA ProposeShows ==
    ASSUME RInv, NEW s \in Session, CommitPropose(s), UNCHANGED rebuilder
    PROVE  Shows
  <1> DEFINE e == NewEvent(s, 1, "HypothesisProposed", NoData)
             base == seen[s].base
  <1>1. LedgerForm /\ ToldSettled
    BY DEF RInv
  <1>2. Settled = base /\ base \in Nat /\ sequence = base + 1 /\ sequence \in Nat
    BY CommitStarts DEF Commit, CommitPropose, Appends
  <1>3. e.pos = base + 1 /\ e.agg = base + 1 /\ e.kind = "HypothesisProposed"
    BY DEF NewEvent, Event
  <1>4. /\ log' = log \o <<e>> /\ UNCHANGED <<experiments, evidence, beliefs, current, learnings>>
        /\ DOMAIN hypotheses' = DOMAIN hypotheses \cup {base + 1}
    BY DEF CommitPropose, Commits, Upsert
  <1> HIDE DEF e
  <1>5. log' \in Seq(ToSet(log')) /\ Told' = Apply(Told, e) /\ ToSet(log') = ToSet(log) \cup {e}
    BY <1>1, <1>4, ToldAfterOne DEF Told, Tells
  <1>6. Observations' = Observations /\ Observations' \subseteq 1..sequence
    BY <1>2, <1>3, <1>5, ObservedStays
  <1>7. Shaped(Told, base) /\ Follows(Told, base, e) /\ e.kind \in Kind
    BY <1>1, <1>2, <1>3 DEF ToldSettled, Follows, Kind
  <1>8. Shaped(Told', sequence) /\ Within(Told, Told')
    BY <1>2, <1>3, <1>5, <1>7, Handled
  <1>9. Handles(Told, e, Told')
    BY <1>5, <1>7, HandledTables
  <1>10. /\ DOMAIN Told'.hypotheses = DOMAIN Told.hypotheses \cup {base + 1}
         /\ Told'.experiments = Told.experiments /\ Told'.evidence = Told.evidence
         /\ Told'.beliefs = Told.beliefs /\ Told'.current = Told.current /\ Told'.learnings = Told.learnings
    BY <1>3, <1>9 DEF Handles
  <1>11. \A x \in DOMAIN Told'.experiments : x \notin Observations' /\ (x - 1) \notin Observations'
    BY <1>1, <1>6, <1>10 DEF ToldSettled
  <1>12. Shown(hypotheses', experiments', evidence', beliefs', current', learnings', Told')
    BY <1>4, <1>10, LiveShown DEF Shown
  <1>13. rebuilds = 0 => AllShown(hypotheses', experiments', evidence', beliefs', current', learnings', Told')
    BY <1>4, <1>10, LiveShown DEF AllShown
  <1>. QED
    BY <1>5, <1>6, <1>8, <1>11, <1>12, <1>13 DEF Shows

\* A retirement shows nothing new.
LEMMA RetireShows ==
    ASSUME RInv, NEW s \in Session, CommitRetire(s), UNCHANGED rebuilder
    PROVE  Shows
  <1> DEFINE e == Event(s, 1, "HypothesisRetired", cmd[s].on, seen[s].ver + 1, NoData)
             base == seen[s].base
  <1>1. LedgerForm /\ ToldSettled
    BY DEF RInv
  <1>2. Settled = base /\ base \in Nat /\ sequence = base + 1 /\ sequence \in Nat
    BY CommitStarts DEF Commit, CommitRetire, Appends
  <1>3. e.pos = base + 1 /\ e.kind = "HypothesisRetired"
    BY EventColumns
  <1>4. /\ log' = log \o <<e>> /\ UNCHANGED <<experiments, evidence, beliefs, current, learnings>>
        /\ DOMAIN hypotheses' = DOMAIN hypotheses \cup {cmd[s].on}
    BY DEF CommitRetire, Commits, Upsert
  <1>5. cmd[s].on \in DOMAIN Told.hypotheses
    BY CommitStarts DEF Commit, CommitRetire, Knows
  <1> HIDE DEF e
  <1>6. log' \in Seq(ToSet(log')) /\ Told' = Apply(Told, e) /\ ToSet(log') = ToSet(log) \cup {e}
    BY <1>1, <1>4, ToldAfterOne DEF Told, Tells
  <1>7. Observations' = Observations /\ Observations' \subseteq 1..sequence
    BY <1>2, <1>3, <1>6, ObservedStays
  <1>8. Shaped(Told, base) /\ Follows(Told, base, e) /\ e.kind \in Kind
    BY <1>1, <1>2, <1>3 DEF ToldSettled, Follows, Kind
  <1>9. Shaped(Told', sequence) /\ Within(Told, Told')
    BY <1>2, <1>3, <1>6, <1>8, Handled
  <1>10. Handles(Told, e, Told')
    BY <1>6, <1>8, HandledTables
  <1>11. /\ DOMAIN Told'.hypotheses = DOMAIN Told.hypotheses
         /\ Told'.experiments = Told.experiments /\ Told'.evidence = Told.evidence
         /\ Told'.beliefs = Told.beliefs /\ Told'.current = Told.current /\ Told'.learnings = Told.learnings
    BY <1>3, <1>10 DEF Handles
  <1>12. \A x \in DOMAIN Told'.experiments : x \notin Observations' /\ (x - 1) \notin Observations'
    BY <1>1, <1>7, <1>11 DEF ToldSettled
  <1>13. Shown(hypotheses', experiments', evidence', beliefs', current', learnings', Told')
    BY <1>4, <1>5, <1>11, LiveShown DEF Shown
  <1>14. rebuilds = 0 => AllShown(hypotheses', experiments', evidence', beliefs', current', learnings', Told')
    BY <1>4, <1>5, <1>11, LiveShown DEF AllShown
  <1>. QED
    BY <1>6, <1>7, <1>9, <1>12, <1>13, <1>14 DEF Shows

\* An activation shows its experiment, anchored at the activation.
LEMMA ActivateShows ==
    ASSUME RInv, NEW s \in Session, CommitActivate(s), UNCHANGED rebuilder
    PROVE  Shows
  <1> DEFINE base == seen[s].base
             h == cmd[s].on
             d1 == [NoData EXCEPT !.exp = base + 2]
             d2 == [NoData EXCEPT !.hyp = h]
             e1 == Event(s, 1, "HypothesisActivated", h, seen[s].ver + 1, d1)
             e2 == NewEvent(s, 2, "ExperimentRegistered", d2)
             e3 == Event(s, 3, "ExperimentObservationWindowOpened", base + 2, 2, NoData)
             t1 == Apply(Told, e1)
             t2 == Apply(t1, e2)
  <1>1. LedgerForm /\ ToldSettled
    BY DEF RInv
  <1>2. /\ Settled = base /\ base \in Nat /\ sequence = base + 3 /\ sequence \in Nat
        /\ h \in DOMAIN Told.hypotheses
    <2>1. cmd[s].op = "activate" /\ Commit(s)
      BY DEF Commit, CommitActivate
    <2>. QED
      BY <2>1, CommitStarts DEF Appends, Knows
  <1>3. /\ e1.pos = base + 1 /\ e1.kind = "HypothesisActivated"
        /\ e2.pos = base + 2 /\ e2.agg = base + 2 /\ e2.kind = "ExperimentRegistered" /\ e2.data = d2
        /\ e3.pos = base + 3 /\ e3.kind = "ExperimentObservationWindowOpened"
    BY DEF NewEvent, Event
  <1>4. d2.hyp = h
    BY DEF NoData
  <1>5. /\ log' = log \o <<e1, e2, e3>>
        /\ hypotheses' = Upsert(hypotheses, h, [status |-> "ACTIVE", experiment |-> base + 2])
        /\ experiments' = Upsert(experiments, base + 2, [hyp |-> h, activation |-> base + 1])
        /\ UNCHANGED <<evidence, beliefs, current, learnings>>
    BY DEF CommitActivate, Commits
  <1> HIDE DEF e1, e2, e3, d2
  <1>6. /\ log' \in Seq(ToSet(log')) /\ Told' = Apply(t2, e3)
        /\ ToSet(log') = ToSet(log) \cup {e1, e2, e3}
    <2>1. Tells(log', Apply(t2, e3), ((ToSet(log) \cup {e1}) \cup {e2}) \cup {e3})
      BY <1>1, <1>5, ToldAfterThree
    <2> HIDE DEF t2
    <2>. QED
      BY <2>1 DEF Told, Tells
  <1>7. Told' = t2
    BY <1>3, <1>6, ApplyKinds
  <1>8. Observations' = Observations /\ Observations' \subseteq 1..sequence
    BY <1>2, <1>3, <1>6, ObservedStays
  <1>9. /\ Shaped(t1, base + 1) /\ Within(Told, t1) /\ Handles(Told, e1, t1)
    <2>1. Shaped(Told, base) /\ Follows(Told, base, e1) /\ e1.kind \in Kind
      BY <1>1, <1>2, <1>3 DEF ToldSettled, Follows, Kind
    <2>. QED
      BY <1>2, <1>3, <2>1, Handled, HandledTables
  <1>10. /\ DOMAIN t1.hypotheses = DOMAIN Told.hypotheses
         /\ t1.experiments = Told.experiments /\ t1.evidence = Told.evidence
         /\ t1.beliefs = Told.beliefs /\ t1.current = Told.current /\ t1.learnings = Told.learnings
    BY <1>3, <1>9 DEF Handles
  <1> HIDE DEF t1
  <1>11. /\ Shaped(t2, base + 2) /\ Within(t1, t2) /\ Handles(t1, e2, t2)
    <2>1. Follows(t1, base + 1, e2) /\ e2.kind \in Kind /\ base + 1 \in Nat
      BY <1>2, <1>3, <1>4, <1>10 DEF Follows, Kind
    <2>2. e2.pos = base + 2
      BY <1>3
    <2>3. Shaped(t2, e2.pos) /\ Within(t1, t2)
      BY <1>9, <2>1, Handled
    <2>. QED
      BY <1>9, <2>1, <2>2, <2>3, HandledTables
  <1>12. /\ DOMAIN t2.hypotheses = DOMAIN t1.hypotheses
         /\ t2.experiments = Upsert(Told.experiments, base + 2, [hyp |-> h, activation |-> base + 2])
         /\ t2.evidence = t1.evidence
         /\ t2.beliefs = t1.beliefs /\ t2.current = t1.current /\ t2.learnings = t1.learnings
    BY <1>3, <1>4, <1>10, <1>11 DEF Handles
  <1> HIDE DEF t2
  <1>13. Shaped(Told', sequence) /\ Within(Told, Told')
    BY <1>2, <1>7, <1>9, <1>11, ShapedLater, WithinTransitive
  <1>14. /\ DOMAIN hypotheses' = DOMAIN hypotheses \cup {h}
         /\ DOMAIN experiments' = DOMAIN experiments \cup {base + 2}
         /\ experiments'[base + 2] = [hyp |-> h, activation |-> base + 1]
         /\ \A x \in DOMAIN experiments : x # base + 2 => experiments'[x] = experiments[x]
    BY <1>5 DEF Upsert
  <1>15. /\ DOMAIN Told'.hypotheses = DOMAIN Told.hypotheses
         /\ DOMAIN Told'.experiments = DOMAIN Told.experiments \cup {base + 2}
         /\ Told'.experiments[base + 2].hyp = h
         /\ \A x \in DOMAIN Told.experiments : x # base + 2 => Told'.experiments[x] = Told.experiments[x]
         /\ Told'.evidence = Told.evidence
         /\ Told'.beliefs = Told.beliefs /\ Told'.current = Told.current /\ Told'.learnings = Told.learnings
    BY <1>7, <1>10, <1>12 DEF Upsert
  <1>16. \A x \in DOMAIN Told'.experiments : x \notin Observations' /\ (x - 1) \notin Observations'
    BY <1>1, <1>2, <1>8, <1>15 DEF ToldSettled
  <1>17. Shown(hypotheses', experiments', evidence', beliefs', current', learnings', Told')
    <2>1. \A e \in DOMAIN experiments' : /\ experiments'[e].hyp = Told'.experiments[e].hyp
                                         /\ experiments'[e].activation \in {e - 1, e}
      <3>1. experiments'[base + 2].hyp = h /\ experiments'[base + 2].activation = base + 2 - 1
        BY <1>2, <1>14
      <3>2. DOMAIN experiments \subseteq DOMAIN Told.experiments
        BY LiveShown DEF Shown
      <3>3. \A e \in DOMAIN experiments : /\ experiments[e].hyp = Told.experiments[e].hyp
                                           /\ experiments[e].activation \in {e - 1, e}
        BY LiveShown DEF Shown
      <3> TAKE e \in DOMAIN experiments'
      <3>4. CASE e = base + 2
        BY <1>2, <1>15, <3>1, <3>4
      <3>5. CASE e # base + 2
        <4>1. e \in DOMAIN experiments /\ e \in DOMAIN Told.experiments
          BY <1>14, <3>2, <3>5
        <4>. QED
          BY <1>14, <1>15, <3>3, <3>5, <4>1
      <3>. QED
        BY <3>4, <3>5
    <2>. QED
      BY <1>2, <1>5, <1>14, <1>15, <2>1, LiveShown DEF Shown
  <1>18. rebuilds = 0 => AllShown(hypotheses', experiments', evidence', beliefs', current', learnings', Told')
    BY <1>2, <1>5, <1>14, <1>15, LiveShown DEF AllShown
  <1>. QED
    BY <1>6, <1>8, <1>13, <1>16, <1>17, <1>18 DEF Shows

\* What an evaluation's events tell, and the last position they take.
Evaluated(s, last) ==
    LET base == seen[s].base
        h == seen[s].exp.hyp
        x == [id |-> base + 1, exp |-> cmd[s].on, phase |-> cmd[s].phase, cutoff |-> 0,
              sources |-> Sources(cmd[s], seen[s])]
        belief == [hyp |-> h, evidence |-> base + 1, prev |-> seen[s].prior]
        learning == [id |-> base + 4, belief |-> base + 2, prior |-> seen[s].prior] IN
    /\ log' \in Seq(ToSet(log')) /\ Within(Told, Told') /\ Shaped(Told', last)
    /\ Observations' = Observations
    /\ DOMAIN Told'.hypotheses = DOMAIN Told.hypotheses /\ Told'.experiments = Told.experiments
    /\ Told'.evidence = Told.evidence \cup {x}
    /\ Told'.beliefs = Upsert(Told.beliefs, base + 2, belief)
    /\ Told'.current = {b \in Told.current : Told.beliefs[b].hyp # h} \cup {base + 2}
    /\ Told'.learnings = IF seen[s].terminal THEN Told.learnings \cup {learning} ELSE Told.learnings

\* The events of an evaluation tell of its evidence, its belief and its learning.
LEMMA EvaluateTells ==
    ASSUME RInv, NEW s \in Session, CommitEvaluate(s)
    PROVE  Evaluated(s, sequence)
  <1> DEFINE base == seen[s].base
             v == seen[s]
             h == seen[s].exp.hyp
             x == [id |-> base + 1, exp |-> cmd[s].on, phase |-> cmd[s].phase, cutoff |-> 0,
                   sources |-> Sources(cmd[s], v)]
             belief == [hyp |-> h, evidence |-> base + 1, prev |-> v.prior]
             learning == [id |-> base + 4, belief |-> base + 2, prior |-> v.prior]
             still == {b \in Told.current : Told.beliefs[b].hyp # h} \cup {base + 2}
             d1 == [NoData EXCEPT !.hyp = h, !.exp = cmd[s].on, !.phase = cmd[s].phase,
                                  !.sources = Sources(cmd[s], v)]
             d2 == [NoData EXCEPT !.hyp = h, !.of = base + 1, !.prev = v.prior]
             d4 == [NoData EXCEPT !.of = base + 2, !.prev = v.prior]
             kind == IF v.prior = None THEN "BeliefCreated" ELSE "BeliefUpdated"
             e1 == NewEvent(s, 1, "EvidenceEvaluated", d1)
             e2 == NewEvent(s, 2, kind, d2)
             e3 == NewEvent(s, 3, "OutcomeEvaluated", NoData)
             e4 == NewEvent(s, 4, "LearningRecorded", d4)
             t1 == Apply(Told, e1)
             t2 == Apply(t1, e2)
             t4 == Apply(t2, e4)
  <1>1. LedgerForm /\ ToldSettled
    BY DEF RInv
  <1>2. /\ Settled = base /\ base \in Nat /\ sequence = base + (IF v.terminal THEN 4 ELSE 2) /\ sequence \in Nat
        /\ cmd[s].op = "evaluate"
    <2>1. cmd[s].op = "evaluate" /\ Commit(s)
      BY DEF Commit, CommitEvaluate
    <2>. QED
      BY <2>1, CommitStarts DEF Appends
  <1>3. /\ e1.pos = base + 1 /\ e1.agg = base + 1 /\ e1.kind = "EvidenceEvaluated" /\ e1.data = d1
        /\ e2.pos = base + 2 /\ e2.agg = base + 2 /\ e2.kind \in {"BeliefCreated", "BeliefUpdated"} /\ e2.data = d2
        /\ e3.pos = base + 3 /\ e3.kind = "OutcomeEvaluated" /\ e3.agg = base + 3
        /\ e4.pos = base + 4 /\ e4.agg = base + 4 /\ e4.kind = "LearningRecorded" /\ e4.data = d4
    BY DEF NewEvent, Event
  <1>4. /\ d1.exp = cmd[s].on /\ d1.phase = cmd[s].phase /\ d1.sources = Sources(cmd[s], v)
        /\ d2.hyp = h /\ d2.of = base + 1 /\ d2.prev = v.prior /\ d4.of = base + 2 /\ d4.prev = v.prior
    BY DEF NoData
  <1>5. log' = log \o (<<e1, e2>> \o IF v.terminal THEN <<e3, e4>> ELSE <<>>)
    BY <1>2, Zenon DEF CommitEvaluate, Commits, Hypothesis
  <1> HIDE DEF e1, e2, e3, e4, d1, d2, d4
  <1>6. /\ log' \in Seq(ToSet(log'))
        /\ Told' = IF v.terminal THEN Apply(Apply(t2, e3), e4) ELSE t2
        /\ ToSet(log') = ToSet(log) \cup IF v.terminal THEN {e1, e2, e3, e4} ELSE {e1, e2}
    <2>1. CASE v.terminal
      <3>1. log' = log \o (<<e1, e2>> \o <<e3, e4>>)
        BY <1>5, <2>1
      <3>2. Tells(log', Apply(Apply(t2, e3), e4), (((ToSet(log) \cup {e1}) \cup {e2}) \cup {e3}) \cup {e4})
        BY <1>1, <3>1, ToldAfterFour
      <3> HIDE DEF t2
      <3>. QED
        BY <2>1, <3>2 DEF Told, Tells
    <2>2. CASE ~v.terminal
      <3>1. log' = log \o (<<e1, e2>> \o <<>>)
        BY <1>5, <2>2
      <3>2. Tells(log', t2, (ToSet(log) \cup {e1}) \cup {e2})
        BY <1>1, <3>1, ToldAfterTwo
      <3> HIDE DEF t2
      <3>. QED
        BY <2>2, <3>2 DEF Told, Tells
    <2>. QED
      BY <2>1, <2>2
  <1>7. Told' = IF v.terminal THEN t4 ELSE t2
    BY <1>3, <1>6, ApplyKinds
  <1>8. Observations' = Observations
    <2>1. ToSet(log) \subseteq ToSet(log') /\ \A e \in ToSet(log') \ ToSet(log) : e.kind # "ObservationAccepted"
      BY <1>3, <1>6
    <2>2. Settled <= sequence
      BY <1>2
    <2>. QED
      BY <1>2, <2>1, <2>2, ObservedStays
  <1>9. /\ Shaped(t1, base + 1) /\ Within(Told, t1) /\ Handles(Told, e1, t1)
    <2>1. Shaped(Told, base) /\ Follows(Told, base, e1) /\ e1.kind \in Kind
      BY <1>1, <1>2, <1>3 DEF ToldSettled, Follows, Kind
    <2>2. Shaped(t1, e1.pos) /\ Within(Told, t1)
      BY <1>2, <2>1, Handled
    <2>. QED
      BY <1>3, <2>1, <2>2, HandledTables
  <1>10. EvidenceOf(e1) = x
    BY <1>3, <1>4 DEF EvidenceOf
  <1> HIDE DEF x
  <1>11. /\ DOMAIN t1.hypotheses = DOMAIN Told.hypotheses
         /\ t1.experiments = Told.experiments /\ t1.evidence = Told.evidence \cup {x}
         /\ t1.beliefs = Told.beliefs /\ t1.current = Told.current /\ t1.learnings = Told.learnings
    BY <1>3, <1>9, <1>10 DEF Handles
  <1> HIDE DEF t1
  <1>12. /\ Shaped(t2, base + 2) /\ Within(t1, t2) /\ Handles(t1, e2, t2)
    <2>1. Follows(t1, base + 1, e2) /\ e2.kind \in Kind /\ base + 1 \in Nat
      BY <1>2, <1>3 DEF Follows, Kind
    <2>2. Shaped(t2, e2.pos) /\ Within(t1, t2)
      BY <1>9, <2>1, Handled
    <2>. QED
      BY <1>3, <1>9, <2>1, <2>2, HandledTables
  <1>13. /\ DOMAIN t2.hypotheses = DOMAIN Told.hypotheses
         /\ t2.experiments = Told.experiments /\ t2.evidence = Told.evidence \cup {x}
         /\ t2.beliefs = Upsert(Told.beliefs, base + 2, belief)
         /\ t2.current = still /\ t2.learnings = Told.learnings
    BY <1>3, <1>4, <1>11, <1>12 DEF Handles
  <1> HIDE DEF t2
  <1>14. /\ Shaped(t4, base + 4) /\ Within(t2, t4) /\ Handles(t2, e4, t4)
    <2>1. Follows(t2, base + 2, e4) /\ e4.kind \in Kind /\ base + 2 \in Nat
      BY <1>2, <1>3 DEF Follows, Kind
    <2>2. Shaped(t4, e4.pos) /\ Within(t2, t4)
      BY <1>12, <2>1, Handled
    <2>. QED
      BY <1>3, <1>12, <2>1, <2>2, HandledTables
  <1>15. LearningOf(e4) = learning
    BY <1>3, <1>4 DEF LearningOf
  <1>16. /\ DOMAIN t4.hypotheses = DOMAIN t2.hypotheses
         /\ t4.experiments = t2.experiments /\ t4.evidence = t2.evidence
         /\ t4.beliefs = t2.beliefs /\ t4.current = t2.current /\ t4.learnings = t2.learnings \cup {learning}
    BY <1>3, <1>14, <1>15 DEF Handles
  <1> HIDE DEF t4
  <1>17. Within(Told, Told') /\ Shaped(Told', sequence)
    <2>1. Within(Told, t2) /\ Within(Told, t4)
      BY <1>9, <1>12, <1>14, WithinTransitive
    <2>. QED
      BY <1>2, <1>7, <1>12, <1>14, <2>1
  <1>18. /\ DOMAIN Told'.hypotheses = DOMAIN Told.hypotheses /\ Told'.experiments = Told.experiments
         /\ Told'.evidence = Told.evidence \cup {x} /\ Told'.beliefs = Upsert(Told.beliefs, base + 2, belief)
         /\ Told'.current = still
         /\ Told'.learnings = IF v.terminal THEN Told.learnings \cup {learning} ELSE Told.learnings
    BY <1>7, <1>13, <1>16, Zenon
  <1>. QED
    BY <1>6, <1>8, <1>17, <1>18, Zenon DEF Evaluated, x

\* An evaluation shows what its events tell, with a cutoff the events do not carry.
LEMMA EvaluateShows ==
    ASSUME RInv, NEW s \in Session, CommitEvaluate(s), UNCHANGED rebuilder
    PROVE  Shows
  <1> DEFINE base == seen[s].base
             v == seen[s]
             on == cmd[s].on
             h == seen[s].exp.hyp
             row == [id |-> base + 1, exp |-> on, phase |-> cmd[s].phase, cutoff |-> v.cutoff,
                     sources |-> Sources(cmd[s], v)]
             x == [id |-> base + 1, exp |-> on, phase |-> cmd[s].phase, cutoff |-> 0,
                   sources |-> Sources(cmd[s], v)]
             belief == [hyp |-> h, evidence |-> base + 1, prev |-> v.prior]
             learning == [id |-> base + 4, belief |-> base + 2, prior |-> v.prior]
  <1>1. ToldSettled /\ Shown(hypotheses, experiments, evidence, beliefs, current, learnings, Told)
    BY LiveShown DEF RInv
  <1>2. /\ Settled = base /\ base \in Nat /\ sequence \in Nat /\ base <= sequence
        /\ cmd[s].op = "evaluate" /\ on \in DOMAIN Told.experiments
        /\ h = Told.experiments[on].hyp /\ v.exp.activation \in {on - 1, on}
    <2>1. cmd[s].op = "evaluate" /\ Commit(s)
      BY DEF Commit, CommitEvaluate
    <2>2. Knows(s, pc[s], cmd[s], v) /\ pc[s] = "commit"
      BY <2>1, CommitStarts
    <2>3. Settled = base /\ base \in Nat /\ sequence = base + Appends(s) /\ sequence \in Nat
      BY <2>1, CommitStarts
    <2>4. Appends(s) \in {2, 4}
      BY <2>1 DEF Appends
    <2>. QED
      BY <2>1, <2>2, <2>3, <2>4 DEF Knows
  <1>3. h \in DOMAIN Told.hypotheses
    BY <1>1, <1>2 DEF ToldSettled, Shaped
  <1>4. Evaluated(s, sequence)
    BY EvaluateTells
  <1>5. /\ log' \in Seq(ToSet(log')) /\ Within(Told, Told') /\ Shaped(Told', sequence)
        /\ Observations' = Observations
        /\ DOMAIN Told'.hypotheses = DOMAIN Told.hypotheses /\ Told'.experiments = Told.experiments
        /\ Told'.evidence = Told.evidence \cup {x}
        /\ Told'.beliefs = Upsert(Told.beliefs, base + 2, belief)
        /\ Told'.current = {b \in Told.current : Told.beliefs[b].hyp # h} \cup {base + 2}
        /\ Told'.learnings = IF v.terminal THEN Told.learnings \cup {learning} ELSE Told.learnings
    BY <1>4 DEF Evaluated
  <1>6. /\ evidence' = evidence \cup {row} /\ beliefs' = Upsert(beliefs, base + 2, belief)
        /\ current' = {b \in current : beliefs[b].hyp # h} \cup {base + 2}
        /\ learnings' = IF v.terminal THEN learnings \cup {learning} ELSE learnings
        /\ DOMAIN hypotheses' = DOMAIN hypotheses \cup {h}
        /\ experiments' = Upsert(experiments, on, v.exp)
    <2>1. Hypothesis(s) = h
      BY <1>2 DEF Hypothesis
    <2>2. /\ evidence' = evidence \cup {row} /\ beliefs' = Upsert(beliefs, base + 2, belief)
          /\ learnings' = IF v.terminal THEN learnings \cup {learning} ELSE learnings
          /\ experiments' = Upsert(experiments, on, v.exp)
      BY <2>1, Zenon DEF CommitEvaluate
    <2>3. current' = {b \in current : beliefs[b].hyp # h} \cup {base + 2}
      BY <2>1 DEF CommitEvaluate, StillCurrent
    <2>4. DOMAIN hypotheses' = DOMAIN hypotheses \cup {h}
      BY <2>1 DEF CommitEvaluate, Upsert
    <2>. QED
      BY <2>2, <2>3, <2>4
  <1>7. row.id = base + 1 /\ x.id = base + 1 /\ [row EXCEPT !.cutoff = 0] = x
    OBVIOUS
  <1> HIDE DEF row, x, belief, learning
  <1>8. /\ DOMAIN beliefs' = DOMAIN beliefs \cup {base + 2} /\ beliefs'[base + 2] = belief
        /\ \A b \in DOMAIN beliefs : b # base + 2 => beliefs'[b] = beliefs[b]
    BY <1>6 DEF Upsert
  <1>9. /\ DOMAIN Told'.beliefs = DOMAIN Told.beliefs \cup {base + 2} /\ Told'.beliefs[base + 2] = belief
        /\ \A b \in DOMAIN Told.beliefs : b # base + 2 => Told'.beliefs[b] = Told.beliefs[b]
    BY <1>5 DEF Upsert
  <1>10. /\ DOMAIN experiments' = DOMAIN experiments \cup {on} /\ experiments'[on] = v.exp
         /\ \A e \in DOMAIN experiments : e # on => experiments'[e] = experiments[e]
    BY <1>6 DEF Upsert
  <1>11. /\ Ids(evidence') = Ids(evidence) \cup {base + 1} /\ Ids(Told'.evidence) = Ids(Told.evidence) \cup {base + 1}
         /\ Uncut(evidence') = Uncut(evidence) \cup {x}
    BY <1>5, <1>6, <1>7 DEF Ids, Uncut
  <1>12. Shown(hypotheses', experiments', evidence', beliefs', current', learnings', Told')
    <2>1. /\ DOMAIN hypotheses' \subseteq DOMAIN Told'.hypotheses
          /\ DOMAIN experiments' \subseteq DOMAIN Told'.experiments
          /\ Ids(evidence') \subseteq Ids(Told'.evidence) /\ Uncut(evidence') \subseteq Told'.evidence
      BY <1>1, <1>2, <1>3, <1>5, <1>6, <1>10, <1>11 DEF Shown
    <2>2. /\ DOMAIN beliefs' \subseteq DOMAIN Told'.beliefs /\ current' \subseteq DOMAIN beliefs'
          /\ learnings' \subseteq Told'.learnings
      BY <1>1, <1>5, <1>6, <1>8, <1>9 DEF Shown
    <2>3. \A b \in DOMAIN beliefs' : beliefs'[b] = Told'.beliefs[b]
      BY <1>1, <1>8, <1>9 DEF Shown
    <2>4. \A e \in DOMAIN experiments' : /\ experiments'[e].hyp = Told'.experiments[e].hyp
                                         /\ experiments'[e].activation \in {e - 1, e}
      BY <1>1, <1>2, <1>5, <1>10 DEF Shown
    <2>. QED
      BY <2>1, <2>2, <2>3, <2>4 DEF Shown
  <1>13. ASSUME rebuilds = 0
         PROVE  AllShown(hypotheses', experiments', evidence', beliefs', current', learnings', Told')
    <2>1. AllShown(hypotheses, experiments, evidence, beliefs, current, learnings, Told)
      BY <1>13, LiveShown
    <2>2. /\ DOMAIN hypotheses' = DOMAIN Told'.hypotheses /\ DOMAIN experiments' = DOMAIN Told'.experiments
          /\ Ids(evidence') = Ids(Told'.evidence) /\ Uncut(evidence') = Told'.evidence
      BY <1>2, <1>3, <1>5, <1>6, <1>10, <1>11, <2>1 DEF AllShown
    <2>3. beliefs' = Told'.beliefs /\ current' = Told'.current /\ learnings' = Told'.learnings
      BY <1>5, <1>6, <2>1 DEF AllShown
    <2>. QED
      BY <2>2, <2>3 DEF AllShown
  <1>14. Observations' \subseteq 1..sequence
    <2>1. 1..base \subseteq 1..sequence
      BY <1>2
    <2>. QED
      BY <1>1, <1>2, <1>5, <2>1 DEF ToldSettled
  <1>15. \A e \in DOMAIN Told'.experiments : e \notin Observations' /\ (e - 1) \notin Observations'
    BY <1>1, <1>5 DEF ToldSettled
  <1>. QED
    BY <1>5, <1>12, <1>13, <1>14, <1>15 DEF Shows

\* Every commit of a command keeps the invariant.
LEMMA CommandsKeep ==
    ASSUME RInv, NEW s \in Session, Commit(s), UNCHANGED rebuilder
    PROVE  RInv'
  <1>1. Shows
    BY SubmitShows, ProposeShows, ActivateShows, RetireShows, EvaluateShows DEF Commit
  <1>. QED
    BY <1>1, CommitsKeep

\* What neither commits nor works leaves the ledger and the sessions.
LEMMA SessionsStay ==
    ASSUME RInv, UNCHANGED <<log, sequence, lock, pc, cmd, seen>>
    PROVE  /\ LedgerForm' /\ SessionForm' /\ LockOwned' /\ ToldSettled' /\ AboutTold' /\ Told' = Told
  <1>1. LedgerForm /\ SessionForm /\ LockOwned /\ ToldSettled /\ AboutTold
    BY DEF RInv
  <1>2. Told' = Told /\ Observations' = Observations /\ Settled' = Settled
    BY DEF Told, Observations, Settled
  <1>3. LedgerForm' /\ SessionForm'
    BY <1>1 DEF LedgerForm, SessionForm
  <1>4. LockOwned'
    BY <1>1 DEF LockOwned, Appends
  <1>5. ToldSettled' /\ AboutTold'
    BY <1>1, <1>2 DEF ToldSettled, AboutTold
  <1>. QED
    BY <1>2, <1>3, <1>4, <1>5

\* The rows a rebuild commits are what it has read, or were there.
LEMMA FlushShows ==
    ASSUME RInv, CommitRebuild
    PROVE  Shown(hypotheses', experiments', evidence', beliefs', current', learnings', Told)
  <1> DEFINE fold == Replay(replayed)
             five == {"hypotheses", "experiments", "evidence", "beliefs", "learnings"}
  <1>1. RebuildForm /\ Shown(hypotheses, experiments, evidence, beliefs, current, learnings, Told)
    BY LiveShown DEF RInv
  <1>2. Within(fold, Told) /\ DOMAIN doomed = five /\ \E n \in Nat : Shaped(fold, n)
    BY <1>1 DEF CommitRebuild, RebuildForm
  <1>3. /\ hypotheses' = Flushed("hypotheses", hypotheses, fold.hypotheses)
        /\ experiments' = Flushed("experiments", experiments, fold.experiments)
        /\ evidence' = FlushedRows("evidence", evidence, fold.evidence)
        /\ beliefs' = Flushed("beliefs", beliefs, fold.beliefs)
        /\ current' = (current \ (doomed.beliefs \cup demoted)) \cup (fold.current \cap Inserted.beliefs)
        /\ learnings' = FlushedRows("learnings", learnings, fold.learnings)
    BY Zenon DEF CommitRebuild
  <1>4. /\ Inserted["hypotheses"] = DOMAIN fold.hypotheses \ doomed["hypotheses"]
        /\ Inserted["experiments"] = DOMAIN fold.experiments \ doomed["experiments"]
        /\ Inserted["beliefs"] = DOMAIN fold.beliefs \ doomed["beliefs"]
        /\ Inserted["evidence"] = Ids(fold.evidence) \ doomed["evidence"]
        /\ Inserted["learnings"] = Ids(fold.learnings) \ doomed["learnings"]
    BY <1>2 DEF Inserted, Keys
  <1> HIDE DEF fold
  <1>5. \A k, live, t : /\ DOMAIN Flushed(k, live, t) = (DOMAIN live \ doomed[k]) \cup Inserted[k]
                        /\ \A y \in Inserted[k] : Flushed(k, live, t)[y] = t[y]
                        /\ \A y \in (DOMAIN live \ doomed[k]) \ Inserted[k] : Flushed(k, live, t)[y] = live[y]
    BY DEF Flushed
  <1>6. \A k, live, t : FlushedRows(k, live, t) \subseteq live \cup t
    BY DEF FlushedRows
  <1>7. \A y \in fold.evidence : [y EXCEPT !.cutoff = 0] = y
    BY <1>2 DEF Shaped
  <1>8. DOMAIN hypotheses' \subseteq DOMAIN Told.hypotheses
    <2>1. DOMAIN hypotheses' = (DOMAIN hypotheses \ doomed["hypotheses"]) \cup Inserted["hypotheses"]
      BY <1>3, <1>5
    <2>2. DOMAIN fold.hypotheses \subseteq DOMAIN Told.hypotheses
      BY <1>2 DEF Within
    <2>. QED
      BY <1>1, <1>4, <2>1, <2>2 DEF Shown
  <1>9. /\ DOMAIN experiments' \subseteq DOMAIN Told.experiments
        /\ \A e \in DOMAIN experiments' : /\ experiments'[e].hyp = Told.experiments[e].hyp
                                          /\ experiments'[e].activation \in {e - 1, e}
    <2>1. \A e \in DOMAIN fold.experiments : /\ e \in DOMAIN Told.experiments
                                             /\ fold.experiments[e].hyp = Told.experiments[e].hyp
                                             /\ fold.experiments[e].activation = e
      BY <1>2 DEF Shaped, Within
    <2>2. DOMAIN experiments' = (DOMAIN experiments \ doomed["experiments"]) \cup Inserted["experiments"]
      BY <1>3, <1>5
    <2>3. /\ \A e \in Inserted["experiments"] : experiments'[e] = fold.experiments[e]
          /\ \A e \in (DOMAIN experiments \ doomed["experiments"]) \ Inserted["experiments"] :
                experiments'[e] = experiments[e]
      BY <1>3, <1>5
    <2>. QED
      BY <1>1, <1>4, <2>1, <2>2, <2>3 DEF Shown
  <1>10. Ids(evidence') \subseteq Ids(Told.evidence) /\ Uncut(evidence') \subseteq Told.evidence
    <2>1. evidence' \subseteq evidence \cup fold.evidence
      BY <1>3, <1>6
    <2>2. Ids(evidence') \subseteq Ids(evidence) \cup Ids(fold.evidence)
      BY <2>1 DEF Ids
    <2>3. Ids(fold.evidence) \subseteq Ids(Told.evidence)
      BY <1>2 DEF Ids, Within
    <2>4. Uncut(evidence') \subseteq Uncut(evidence) \cup fold.evidence
      BY <1>7, <2>1 DEF Uncut
    <2>. QED
      BY <1>1, <1>2, <2>2, <2>3, <2>4 DEF Shown, Within
  <1>11. /\ DOMAIN beliefs' \subseteq DOMAIN Told.beliefs /\ current' \subseteq DOMAIN beliefs'
         /\ \A b \in DOMAIN beliefs' : beliefs'[b] = Told.beliefs[b]
    <2>1. \A b \in DOMAIN fold.beliefs : b \in DOMAIN Told.beliefs /\ fold.beliefs[b] = Told.beliefs[b]
      BY <1>2 DEF Within
    <2>2. DOMAIN beliefs' = (DOMAIN beliefs \ doomed["beliefs"]) \cup Inserted["beliefs"]
      BY <1>3, <1>5
    <2>3. /\ \A b \in Inserted["beliefs"] : beliefs'[b] = fold.beliefs[b]
          /\ \A b \in (DOMAIN beliefs \ doomed["beliefs"]) \ Inserted["beliefs"] : beliefs'[b] = beliefs[b]
      BY <1>3, <1>5
    <2>4. current' \subseteq (current \ doomed["beliefs"]) \cup Inserted["beliefs"]
      BY <1>3
    <2>. QED
      BY <1>1, <1>4, <2>1, <2>2, <2>3, <2>4 DEF Shown
  <1>12. learnings' \subseteq Told.learnings
    BY <1>1, <1>2, <1>3, <1>6 DEF Shown, Within
  <1>. QED
    BY <1>8, <1>9, <1>10, <1>11, <1>12 DEF Shown

\* A step of a rebuild keeps the invariant.
LEMMA RebuildKeeps ==
    ASSUME RInv, RebuildStep
    PROVE  RInv'
  <1>1. RebuildForm /\ Anchored /\ RowsAreReplayed /\ ReplayAgrees /\ ToldSettled /\ LedgerForm /\ SessionForm /\ LockOwned
    BY DEF RInv
  <1>2. UNCHANGED <<log, sequence, lock, pc, cmd, seen>>
    BY DEF RebuildStep, ReadLedger, DeleteAll, WriteBeliefs, CommitRebuild, AbandonRebuild, vars, ledger
  <1>3. LedgerForm' /\ SessionForm' /\ LockOwned' /\ ToldSettled' /\ AboutTold' /\ Told' = Told
    BY <1>2, SessionsStay
  <1>4. \A t : DOMAIN Keys(t) = {"hypotheses", "experiments", "evidence", "beliefs", "learnings"}
    BY DEF Keys
  <1>5. CASE CommitRebuild
    <2>1. step # "idle" /\ step' = "idle" /\ rebuilds' = rebuilds /\ doomed' = Keys(Nothing)
      BY <1>5 DEF CommitRebuild, StopRebuild
    <2>2. rebuilds # 0 /\ rebuilds \in Nat
      BY <1>1, <2>1 DEF RebuildForm
    <2>3. RebuildForm'
      BY <1>4, <2>1, <2>2 DEF RebuildForm
    <2>4. Anchored' /\ RowsAreReplayed' /\ ReplayAgrees'
      BY <1>3, <1>5, <2>1, <2>2, FlushShows, ShownLive
    <2>. QED
      BY <1>3, <2>3, <2>4 DEF RInv
  <1>6. CASE ReadLedger \/ DeleteAll \/ WriteBeliefs \/ AbandonRebuild
    <2>1. UNCHANGED <<hypotheses, experiments, evidence, beliefs, current, learnings>>
      BY <1>6 DEF ReadLedger, DeleteAll, WriteBeliefs, AbandonRebuild, vars
    <2>2. Anchored' /\ RowsAreReplayed'
      BY <1>1, <1>2, <2>1 DEF Anchored, RowsAreReplayed, Live
    <2>3. RebuildForm'
      <3>1. CASE ReadLedger
        <4>1. Within(Told, Told) /\ Shaped(Told, Settled) /\ Settled \in Nat
          BY <1>1, SettledForm DEF Within, ToldSettled
        <4>2. replayed' = log /\ doomed' = doomed /\ rebuilds' = rebuilds + 1
          BY <3>1 DEF ReadLedger
        <4>3. Replay(replayed') = Told /\ rebuilds + 1 \in Nat /\ rebuilds + 1 # 0
          BY <1>1, <4>2 DEF Told, RebuildForm
        <4>. QED
          BY <1>1, <1>3, <4>1, <4>2, <4>3 DEF RebuildForm
      <3>2. CASE DeleteAll \/ WriteBeliefs
        <4>1. /\ step # "idle" /\ replayed' = replayed /\ rebuilds' = rebuilds /\ doomed' \in {doomed, Keys(Live)}
          BY <3>2 DEF DeleteAll, WriteBeliefs
        <4>. QED
          BY <1>1, <1>3, <1>4, <4>1 DEF RebuildForm
      <3>3. CASE AbandonRebuild
        <4>1. step' = "idle" /\ rebuilds' = rebuilds /\ doomed' = Keys(Nothing)
          BY <3>3 DEF AbandonRebuild, StopRebuild
        <4>. QED
          BY <1>1, <1>4, <4>1 DEF RebuildForm
      <3>. QED
        BY <1>6, <3>1, <3>2, <3>3
    <2>4. ReplayAgrees'
      <3>1. rebuilds' = 0 => rebuilds = 0
        BY <1>1, <1>6 DEF ReadLedger, DeleteAll, WriteBeliefs, AbandonRebuild, StopRebuild, RebuildForm
      <3>. QED
        BY <1>1, <1>2, <2>1, <3>1 DEF ReplayAgrees, Live
    <2>. QED
      BY <1>3, <2>2, <2>3, <2>4 DEF RInv
  <1>. QED
    BY <1>5, <1>6 DEF RebuildStep

\* Nothing is told and nothing shown at first.
LEMMA RebuildStarts ==
    ASSUME RebuildInit
    PROVE  RInv
  <1>1. /\ log = <<>> /\ sequence = 0 /\ lock = NoSession
        /\ hypotheses = <<>> /\ experiments = <<>> /\ evidence = {} /\ beliefs = <<>> /\ current = {}
        /\ learnings = {} /\ pc = [s \in Session |-> "idle"]
        /\ cmd = [s \in Session |-> NoCommand] /\ seen = [s \in Session |-> NothingSeen]
        /\ step = "idle" /\ doomed = Keys(Nothing) /\ rebuilds = 0
    BY DEF RebuildInit, Init
  <1>2. Told = Nothing /\ Observations = {} /\ Settled = 0
    BY <1>1, ReplayNothing DEF Told, Observations, Settled, ToSet
  <1>3. LedgerForm
    BY <1>1 DEF LedgerForm
  <1>4. SessionForm
    BY <1>1, NothingSighted DEF SessionForm, Control
  <1>5. LockOwned
    BY <1>1, LabAssumption DEF LockOwned
  <1>6. DOMAIN <<>> = {}
    OBVIOUS
  <1>7. ToldSettled
    <2>1. Shaped(Nothing, 0)
      BY <1>6 DEF Shaped, Nothing, Ids
    <2>2. DOMAIN Nothing.experiments = {}
      BY <1>6 DEF Nothing
    <2>. QED
      BY <1>2, <2>1, <2>2 DEF ToldSettled
  <1>8. AboutTold
    <2>1. NoCommand.op = "none"
      BY DEF NoCommand, Ask
    <2>. QED
      BY <1>1, <2>1 DEF AboutTold
  <1>9. RebuildForm
    BY <1>1 DEF RebuildForm, Keys
  <1>10. Anchored
    BY <1>1, <1>6 DEF Anchored
  <1>11. Live = Nothing
    BY <1>1 DEF Live, Nothing
  <1>12. RowsAreReplayed
    BY <1>1, <1>2, <1>6, <1>11 DEF RowsAreReplayed, Told, Nothing
  <1>13. ReplayAgrees
    <2>1. {[x EXCEPT !.cutoff = 0] : x \in evidence} = {}
      BY <1>1
    <2>2. /\ Nothing.beliefs = <<>> /\ Nothing.current = {} /\ Nothing.learnings = {} /\ Nothing.evidence = {}
      BY DEF Nothing
    <2>3. Replay(log) = Nothing
      BY <1>2 DEF Told
    <2>. QED
      BY <1>1, <1>6, <1>11, <2>1, <2>2, <2>3 DEF ReplayAgrees
  <1>. QED
    BY <1>3, <1>4, <1>5, <1>7, <1>8, <1>9, <1>10, <1>12, <1>13 DEF RInv

\* Every step keeps the invariant.
LEMMA RebuildContinues ==
    ASSUME RInv, [RebuildNext]_allVars
    PROVE  RInv'
  <1>1. CASE Next /\ UNCHANGED rebuilder
    <2>1. CASE \E s \in Session : Work(s)
      <3>1. PICK s \in Session : Work(s)
        BY <2>1
      <3>2. PICK control, command, sight : Moves(s, control, command, sight)
        BY <3>1, WorkMoves
      <3>3. UNCHANGED <<log, hypotheses, experiments, evidence, beliefs, current, learnings>>
        BY <3>1, WorkQuiet
      <3>. QED
        BY <1>1, <3>2, <3>3, MovesKeep
    <2>2. CASE \E s \in Session : Commit(s)
      BY <1>1, <2>2, CommandsKeep
    <2>3. CASE Clock \/ UNCHANGED vars
      <3>1. UNCHANGED <<log, sequence, lock, pc, cmd, seen, hypotheses, experiments, evidence, beliefs, current,
                        learnings>>
        BY <2>3 DEF Clock, WindowExpires, vars, ledger, tables
      <3>2. LedgerForm' /\ SessionForm' /\ LockOwned' /\ ToldSettled' /\ AboutTold' /\ Told' = Told
        BY <3>1, SessionsStay
      <3>3. RebuildForm' /\ Anchored' /\ RowsAreReplayed' /\ ReplayAgrees'
        BY <1>1, <3>1, <3>2 DEF RInv, RebuildForm, Anchored, RowsAreReplayed, ReplayAgrees, Live, rebuilder
      <3>. QED
        BY <3>2, <3>3 DEF RInv
    <2>. QED
      BY <1>1, <2>1, <2>2, <2>3, StepCases
  <1>2. CASE \E s \in Session : NotFound(s)
    <2>1. PICK s \in Session : NotFound(s)
      BY <1>2
    <2>2. /\ UNCHANGED rebuilder
          /\ UNCHANGED <<log, hypotheses, experiments, evidence, beliefs, current, learnings>>
      BY <2>1 DEF NotFound, ledger, tables
    <2>3. PICK control, command, sight : Moves(s, control, command, sight)
      BY <2>1, <2>2, WorkMoves
    <2>. QED
      BY <2>2, <2>3, MovesKeep
  <1>3. CASE RebuildStep
    BY <1>3, RebuildKeeps
  <1>4. CASE UNCHANGED allVars
    <2>1. UNCHANGED rebuilder /\ UNCHANGED <<log, sequence, lock, pc, cmd, seen, hypotheses, experiments, evidence,
                                             beliefs, current, learnings>>
      BY <1>4 DEF allVars, vars
    <2>2. LedgerForm' /\ SessionForm' /\ LockOwned' /\ ToldSettled' /\ AboutTold' /\ Told' = Told
      BY <2>1, SessionsStay
    <2>3. RebuildForm' /\ Anchored' /\ RowsAreReplayed' /\ ReplayAgrees'
      BY <2>1, <2>2 DEF RInv, RebuildForm, Anchored, RowsAreReplayed, ReplayAgrees, Live, rebuilder
    <2>. QED
      BY <2>2, <2>3 DEF RInv
  <1>. QED
    BY <1>1, <1>2, <1>3, <1>4 DEF RebuildNext

-----------------------------------------------------------------------------
\* RInv is an invariant of the commands and the rebuilds together.
THEOREM RebuildInvariant == RebuildSpec => []RInv
  BY RebuildStarts, RebuildContinues, PTL DEF RebuildSpec

\* Until a rebuild starts, replaying the ledger gives the keys of every table, the belief
\* and learning rows, which beliefs are current, the evidence rows but for the cutoff, and
\* the hypothesis of each experiment; not the status of a hypothesis nor its experiment.
THEOREM ReplayTells == RebuildSpec => []ReplayAgrees
  <1>1. RInv => ReplayAgrees
    BY DEF RInv
  <1>. QED
    BY <1>1, RebuildInvariant, PTL

\* However rebuilds and commands interleave, and however often: every live row is one the
\* ledger tells of, and says what the ledger says.
THEOREM RowsTold == RebuildSpec => []RowsAreReplayed
  <1>1. RInv => RowsAreReplayed
    BY DEF RInv
  <1>. QED
    BY <1>1, RebuildInvariant, PTL

\* Whichever anchor an experiment has, the activation or the registration, its cohorts are
\* the same: no observation is at either position.
THEOREM CohortsKept == RebuildSpec => []AnchorsKeepCohorts
  <1>1. ASSUME RInv PROVE AnchorsKeepCohorts
    <2> SUFFICES ASSUME NEW e \in DOMAIN experiments, NEW p \in Phase
                 PROVE  Cohort(Told.experiments[e].activation, p, Observations)
                        = Cohort(experiments[e].activation, p, Observations)
      BY DEF AnchorsKeepCohorts, Told
    <2>1. ToldSettled /\ Anchored /\ Settled \in Nat
      BY <1>1, SettledForm DEF RInv
    <2>2. e \in DOMAIN Told.experiments
      BY <1>1, LiveShown DEF Shown
    <2>3. /\ Told.experiments[e].activation = e /\ e \in Nat /\ experiments[e].activation \in {e - 1, e}
          /\ Observations \subseteq Nat /\ e \notin Observations /\ (e - 1) \notin Observations
      BY <2>1, <2>2 DEF ToldSettled, Shaped, Anchored
    <2>4. \A o \in Observations, a \in {e - 1, e} : (o < e <=> o < a) /\ (o > e <=> o > a)
      <3> TAKE o \in Observations, a \in {e - 1, e}
      <3>1. o \in Nat /\ o # e /\ o # e - 1
        BY <2>3
      <3>. QED
        BY <2>3, <3>1
    <2>. QED
      BY <2>3, <2>4 DEF Cohort
  <1>. QED
    BY <1>1, RebuildInvariant, PTL

=============================================================================
