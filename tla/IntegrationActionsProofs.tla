----------------------- MODULE IntegrationActionsProofs -----------------------
(***************************************************************************)
(* That an external action is carried out once and its row tells the       *)
(* truth, for any number of actions, attempts, users and credentials.      *)
(*                                                                         *)
(* The argument: the attempt whose insert created the row is the one the   *)
(* row names for good, only it sends, and only while the message has not   *)
(* been sent; whoever else finds the row may at most give it up.           *)
(***************************************************************************)
EXTENDS IntegrationActions, FiniteSetTheorems, TLAPS

Versions == 1..MaxSecret
Envelope == {SealedAs(c, u, v) : c \in CredentialIds, u \in Managers, v \in Versions}
CredentialRow == [status : {"active", "deleted"}, version : Versions, material : Envelope]
Change == [op : {"rotate", "revoke"}, credential : CredentialIds, version : Versions]

CredentialsTypeOK ==
  /\ credential \in [CredentialIds -> CredentialRow \cup {NoCredential}]
  /\ manager \in [Managers -> Change \cup {NoCall}]

(* An active credential is sealed as itself, and no rotation runs past the   *)
(* bound of the model.                                                       *)
CredentialsInv ==
  /\ CredentialsTypeOK
  /\ \A c \in CredentialIds : credential[c].status = "active" =>
       \E u \in Managers : credential[c].material = SealedAs(c, u, credential[c].version)
  /\ \A u \in Managers : manager[u].op = "rotate" => manager[u].version < MaxSecret

(* Where an attempt is: before it has resolved the credential, on its way,   *)
(* and holding the row that it has inserted.                                 *)
Early == {"idle", "checked"}
Holding == {"claimed", "sent", "completing", "failing"}
Places == Early \cup Holding \cup {"resolved", "reserved", "charged", "stale", "leaving", "done"}
Verdicts == {"none", "output", "error", "retry", "crashed"} \cup Terminal

AttemptRecord == [pc : Places, secret : CredentialRow \cup {NoCredential}, verdict : Verdicts]
ActionRow == [status : {"IN_FLIGHT"} \cup Terminal, step : Attempts, version : Versions, expires : Nat]

(* The type of the state of the actions and their attempts.                  *)
TypeOK ==
  /\ clock \in Nat
  /\ action \in [Actions -> ActionRow \cup {NoAction}]
  /\ attempt \in [Attempts -> AttemptRecord]
  /\ slots \in [Actions -> [owner : Attempts \cup {"none"}, expires : Nat]]
  /\ posted \in [Actions -> SUBSET Attempts]
  /\ \A t \in Attempts :
       attempt[t].pc \notin Early \cup {"leaving", "done"} => attempt[t].secret \in CredentialRow

HasActionRow(a) == action[a] # NoAction

(* Nobody sends without having been charged.                                 *)
ChargedInv ==
  /\ \A t \in Attempts : attempt[t].pc = "charged" => IsAdmitted(ledger, Metric, ActionOf[t])
  /\ \A a \in Actions : HasActionRow(a) => IsAdmitted(ledger, Metric, a)

(* The row names the one attempt that may send and settle, and whoever else  *)
(* wrote to it can only have given it up.                                    *)
HoldInv ==
  /\ \A t \in Attempts : attempt[t].pc \in Holding =>
       /\ HasActionRow(ActionOf[t]) /\ action[ActionOf[t]].step = t
       /\ \/ action[ActionOf[t]].status \in {"IN_FLIGHT", "AMBIGUOUS"}
          \/ /\ attempt[t].pc = "failing" /\ attempt[t].verdict = "AMBIGUOUS"
             /\ action[ActionOf[t]].status = "SUCCEEDED"
  /\ \A a \in Actions : posted[a] # {} => HasActionRow(a) /\ posted[a] = {action[a].step}

(* What the holder of a row knows of its message.                            *)
KnowledgeInv ==
  \A t \in Attempts :
    LET a == ActionOf[t]
    IN /\ attempt[t].pc = "claimed" => posted[a] = {}
       /\ attempt[t].pc = "completing" => posted[a] # {}
       /\ attempt[t].pc = "failing" =>
            /\ attempt[t].verdict \in {"FAILED", "CANCELLED", "AMBIGUOUS"}
            /\ attempt[t].verdict \in {"FAILED", "CANCELLED"} => posted[a] = {}

ActionsInv == ChargedInv /\ HoldInv /\ KnowledgeInv /\ OutcomeIsHonest

IInv == TypeOK /\ CredentialsInv /\ ActionsInv

-------------------------------------------------------------------------------
(* A sealed secret opens as itself.                                          *)
LEMMA SealedOpens ==
  ASSUME NEW c \in CredentialIds, NEW u \in Managers, NEW v \in Versions, NEW row,
         row.material = SealedAs(c, u, v), row.version = v
  PROVE  SecretOf(c, row) # Invalid
<1>1. SealedAs(c, u, v) # Invalid
  BY InvalidAssumption DEF Versions
<1>2. SecretOf(c, row) = u
  BY <1>1, CredentialsAssumption
     DEF SecretOf, SealedAs, Open, Seal, Authentic, HasKey, Context, AssociatedData
<1> QED BY <1>2, InvalidAssumption

LEMMA SealedIsEnvelope ==
  ASSUME NEW c \in CredentialIds, NEW u \in Managers, NEW v \in Versions
  PROVE  SealedAs(c, u, v) \in Envelope
BY DEF Envelope

(* What users do to credentials.                                             *)
LEMMA CredentialStepKeeps ==
  ASSUME CredentialsInv, CredentialStep
  PROVE  CredentialsInv'
<1> USE DEF CredentialsInv, CredentialsTypeOK, IsActive, NoCredential, NoCall
<1>0. MaxSecret \in Nat \ {0} /\ 1 \in Versions
  BY CredentialsAssumption DEF Versions
<1>1. ASSUME NEW u \in Managers, NEW c \in CredentialIds, CreateCredential(u, c)
      PROVE  CredentialsInv'
  <2>1. credential' = [credential EXCEPT ![c] =
          [status |-> "active", version |-> 1, material |-> SealedAs(c, u, 1)]]
    BY <1>1 DEF CreateCredential
  <2>2. [status |-> "active", version |-> 1, material |-> SealedAs(c, u, 1)] \in CredentialRow
    BY <1>0, SealedIsEnvelope DEF CredentialRow
  <2>3. manager' = manager
    BY <1>1 DEF CreateCredential
  <2>4. CredentialsTypeOK'
    BY <2>1, <2>2, <2>3
  <2> QED BY <2>1, <2>3, <2>4
<1>2. ASSUME NEW u \in Managers, NEW c \in CredentialIds, NEW op \in {"rotate", "revoke"},
             BeginChange(u, op, c)
      PROVE  CredentialsInv'
  <2>1. credential[c] \in CredentialRow
    BY <1>2 DEF BeginChange, CredentialRow
  <2>2. [op |-> op, credential |-> c, version |-> credential[c].version] \in Change
    BY <2>1 DEF CredentialRow, Change
  <2> QED BY <1>2, <2>2 DEF BeginChange
<1>3. ASSUME NEW u \in Managers, WriteRotation(u)
      PROVE  CredentialsInv'
  <2> DEFINE c == manager[u].credential
             v == manager[u].version + 1
  <2>1. manager[u] \in Change /\ v \in Versions /\ c \in CredentialIds
    BY <1>0, <1>3 DEF WriteRotation, Change, Versions
  <2>2. manager' = [manager EXCEPT ![u] = NoCall]
    BY <1>3 DEF WriteRotation, Finish
  <2>3. CASE credential' = credential
    BY <2>2, <2>3
  <2>4. CASE credential' = [credential EXCEPT ![c] =
               [status |-> "active", version |-> v, material |-> SealedAs(c, u, v)]]
    <3>1. [status |-> "active", version |-> v, material |-> SealedAs(c, u, v)] \in CredentialRow
      BY <2>1, SealedIsEnvelope DEF CredentialRow
    <3> HIDE DEF c, v
    <3> QED BY <2>1, <2>2, <2>4, <3>1
  <2> QED BY <1>3, <2>3, <2>4 DEF WriteRotation
<1>4. ASSUME NEW u \in Managers, WriteRevocation(u)
      PROVE  CredentialsInv'
  <2> DEFINE c == manager[u].credential
  <2>1. manager[u] \in Change /\ c \in CredentialIds
    BY <1>4 DEF WriteRevocation, Change
  <2>2. manager' = [manager EXCEPT ![u] = NoCall]
    BY <1>4 DEF WriteRevocation, Finish
  <2>3. CASE credential' = credential
    BY <2>2, <2>3
  <2>4. CASE IsActive(c) /\ credential' = [credential EXCEPT ![c].status = "deleted"]
    <3>1. credential[c] \in CredentialRow
      BY <2>1, <2>4
    <3>2. [credential[c] EXCEPT !.status = "deleted"] \in CredentialRow
      BY <3>1 DEF CredentialRow
    <3> HIDE DEF c
    <3> QED BY <2>1, <2>2, <2>4, <3>1, <3>2 DEF CredentialRow
  <2> QED BY <1>4, <2>3, <2>4 DEF WriteRevocation
<1> QED BY <1>1, <1>2, <1>3, <1>4 DEF CredentialStep

-------------------------------------------------------------------------------
OneAttempt(t) ==
  \/ Check(t) \/ Resolve(t) \/ Reserve(t) \/ Charge(t)
  \/ ClaimInsert(t) \/ ClaimExisting(t) \/ MarkStale(t)
  \/ AbortBefore(t) \/ RefuseBefore(t) \/ Send(t) \/ Receive(t)
  \/ Complete(t) \/ Fail(t) \/ Leave(t) \/ Crash(t)

(* What moving an attempt comes to.                                          *)
LEMMA GoMoves ==
  ASSUME TypeOK, NEW t \in Attempts, NEW pc \in Places, Go(t, pc)
  PROVE  /\ attempt' \in [Attempts -> AttemptRecord]
         /\ \A s \in Attempts \ {t} : attempt'[s] = attempt[s]
         /\ attempt'[t].pc = pc
         /\ attempt'[t].secret = attempt[t].secret /\ attempt'[t].verdict = attempt[t].verdict
BY DEF Go, TypeOK, AttemptRecord

LEMMA JudgeMoves ==
  ASSUME TypeOK, NEW t \in Attempts, NEW pc \in Places, NEW v \in Verdicts, Judge(t, pc, v)
  PROVE  /\ attempt' \in [Attempts -> AttemptRecord]
         /\ \A s \in Attempts \ {t} : attempt'[s] = attempt[s]
         /\ attempt'[t].pc = pc
         /\ attempt'[t].secret = attempt[t].secret /\ attempt'[t].verdict = v
BY DEF Judge, TypeOK, AttemptRecord

(* Places and verdicts by name, so that SMT need not find their sets.        *)
LEMMA Names ==
  /\ {"idle", "checked", "resolved", "reserved", "charged", "claimed", "stale", "sent",
      "completing", "failing", "leaving", "done"} \subseteq Places
  /\ {"none", "output", "error", "retry", "crashed", "SUCCEEDED", "FAILED", "AMBIGUOUS",
      "CANCELLED"} \subseteq Verdicts
BY DEF Places, Early, Holding, Verdicts, Terminal

(* An attempt that has resolved its credential keeps it.                     *)
KeepsSecret(t) ==
  \/ attempt'[t].pc \in Early \cup {"leaving", "done"}
  \/ attempt'[t].secret \in CredentialRow
  \/ /\ attempt[t].pc \notin Early \cup {"leaving", "done"}
     /\ attempt'[t].secret = attempt[t].secret

Moved(t) ==
  /\ attempt' \in [Attempts -> AttemptRecord]
  /\ \A s \in Attempts \ {t} : attempt'[s] = attempt[s]
  /\ KeepsSecret(t)

(* An attempt that finds a row either leaves it or finds it stale.           *)
LEMMA ExistingIsJudged ==
  ASSUME TypeOK, NEW t \in Attempts, ClaimExisting(t)
  PROVE  \/ /\ action[ActionOf[t]].status = "SUCCEEDED"
            /\ Judge(t, "leaving", "output")
         \/ Judge(t, "leaving", "error")
         \/ Go(t, "stale")
<1> DEFINE row == action[ActionOf[t]]
<1>1. row \in ActionRow
  BY ActionsAssumption DEF ClaimExisting, TypeOK
<1>2. row.status \in {"IN_FLIGHT"} \cup Terminal /\ row.expires \in Nat /\ clock \in Nat
  BY <1>1 DEF ActionRow, TypeOK
<1>3. CASE row.status = "SUCCEEDED"
  BY <1>3 DEF ClaimExisting, Terminal
<1>4. CASE row.status \in Terminal \ {"SUCCEEDED"}
  BY <1>4 DEF ClaimExisting, Terminal
<1>5. CASE row.status = "IN_FLIGHT"
  BY <1>2, <1>5 DEF ClaimExisting, Terminal
<1> QED BY <1>2, <1>3, <1>4, <1>5

(* The steps of an attempt that leave the rows of actions alone.             *)
LEMMA LocalMoves ==
  ASSUME TypeOK, CredentialsInv, NEW t \in Attempts,
         \/ Check(t) \/ Resolve(t) \/ Reserve(t) \/ Charge(t) \/ ClaimExisting(t)
         \/ AbortBefore(t) \/ RefuseBefore(t) \/ Send(t) \/ Receive(t) \/ Leave(t) \/ Crash(t)
  PROVE  Moved(t)
<1> USE Names, GoMoves, JudgeMoves DEF Moved, KeepsSecret, Early
<1>1. CASE Check(t)
  BY <1>1 DEF Check
<1>2. CASE Resolve(t)
  <2> DEFINE c == Uses[ActionOf[t]]
  <2>1. CASE IsActive(c) /\ attempt' = [attempt EXCEPT ![t].pc = "resolved", ![t].secret = credential[c]]
    <3>1. credential[c] \in CredentialRow
      BY <2>1, ActionsAssumption DEF CredentialsInv, CredentialsTypeOK, IsActive, NoCredential
    <3>2. attempt \in [Attempts -> AttemptRecord]
      BY DEF TypeOK
    <3> HIDE DEF c
    <3> QED BY <2>1, <3>1, <3>2 DEF AttemptRecord
  <2>2. CASE Judge(t, "done", "error")
    BY <2>2
  <2> QED BY <1>2, <2>1, <2>2 DEF Resolve
<1>3. CASE Reserve(t)
  BY <1>3 DEF Reserve
<1>4. CASE Charge(t)
  BY <1>4 DEF Charge
<1>5. CASE ClaimExisting(t)
  BY <1>5, ExistingIsJudged DEF ClaimExisting
<1>6. CASE AbortBefore(t) \/ RefuseBefore(t)
  BY <1>6 DEF AbortBefore, RefuseBefore
<1>7. CASE Send(t)
  BY <1>7 DEF Send
<1>8. CASE Receive(t)
  BY <1>8 DEF Receive, Answers, Classified
<1>9. CASE Leave(t)
  BY <1>9 DEF Leave
<1>10. CASE Crash(t)
  BY <1>10 DEF Crash
<1> QED BY <1>1, <1>2, <1>3, <1>4, <1>5, <1>6, <1>7, <1>8, <1>9, <1>10

(* A row in flight is settled.                                               *)
Settles(a, status) == IsInFlight(a) /\ action' = [action EXCEPT ![a].status = status]

LEMMA SettlingARow ==
  ASSUME TypeOK, NEW a \in Actions, NEW status \in Terminal, Settles(a, status)
  PROVE  /\ action' \in [Actions -> ActionRow \cup {NoAction}]
         /\ action[a].status = "IN_FLIGHT" /\ action'[a].status = status
         /\ HasActionRow(a) /\ HasActionRow(a)' /\ action'[a].step = action[a].step
         /\ \A b \in Actions \ {a} : action'[b] = action[b]
<1>1. action[a] \in ActionRow /\ action \in [Actions -> ActionRow \cup {NoAction}]
  BY DEF TypeOK, Settles, IsInFlight, NoAction
<1>2. [action[a] EXCEPT !.status = status] \in ActionRow
  BY <1>1 DEF ActionRow
<1>3. action'[a] = [action[a] EXCEPT !.status = status]
  BY <1>1 DEF Settles
<1>4. action'[a].status = status /\ action'[a].step = action[a].step
  BY <1>1, <1>3 DEF ActionRow
<1>5. status # "none" /\ action[a].status = "IN_FLIGHT"
  BY DEF Terminal, Settles, IsInFlight
<1> QED BY <1>1, <1>2, <1>3, <1>4, <1>5 DEF Settles, HasActionRow, NoAction

(* The steps that write a row.                                               *)
LEMMA WritingMoves ==
  ASSUME TypeOK, HoldInv, KnowledgeInv, NEW t \in Attempts,
         ClaimInsert(t) \/ MarkStale(t) \/ Complete(t) \/ Fail(t)
  PROVE  Moved(t) /\ action' \in [Actions -> ActionRow \cup {NoAction}]
<1> USE Names, GoMoves, JudgeMoves DEF Moved, KeepsSecret, Early
<1>1. CASE ClaimInsert(t)
  <2>1. InFlightRow(t) \in ActionRow
    BY <1>1, ActionsAssumption DEF ClaimInsert, InFlightRow, ActionRow, TypeOK, CredentialRow, Early
  <2> QED BY <1>1, <2>1, ActionsAssumption DEF ClaimInsert, TypeOK
<1>2. CASE MarkStale(t)
  BY <1>2, ActionsAssumption, SettlingARow DEF MarkStale, Settles, IsInFlight, TypeOK, Terminal
<1>3. CASE Complete(t)
  BY <1>3, ActionsAssumption, SettlingARow DEF Complete, Settles, TypeOK, Terminal
<1>4. CASE Fail(t)
  <2>1. attempt[t].verdict \in Terminal
    BY <1>4 DEF Fail, KnowledgeInv, Terminal
  <2>2. action' \in [Actions -> ActionRow \cup {NoAction}]
    BY <1>4, <2>1, ActionsAssumption, SettlingARow DEF Fail, FailRow, Settles, TypeOK
  <2> QED BY <1>4, <2>2 DEF Fail
<1> QED BY <1>1, <1>2, <1>3, <1>4

-------------------------------------------------------------------------------
(* A step that touches neither rows nor messages, and after which the        *)
(* attempt neither holds a row nor is about to claim one.                    *)
LEMMA QuietStep ==
  ASSUME TypeOK, ActionsInv, NEW t \in Attempts, Moved(t),
         UNCHANGED <<action, posted, ledger>>,
         attempt'[t].pc \notin Holding \cup {"charged"},
         attempt'[t].verdict = "output" =>
           attempt[t].verdict = "output" \/ action[ActionOf[t]].status = "SUCCEEDED"
  PROVE  ActionsInv'
<1>1. ChargedInv'
  BY DEF ActionsInv, ChargedInv, HasActionRow, Moved, IsAdmitted
<1>2. HoldInv'
  BY DEF ActionsInv, HoldInv, HasActionRow, Moved
<1>3. KnowledgeInv'
  BY DEF ActionsInv, KnowledgeInv, Moved, Holding
<1>4. OutcomeIsHonest'
  BY DEF ActionsInv, OutcomeIsHonest, Moved
<1> QED BY <1>1, <1>2, <1>3, <1>4 DEF ActionsInv

(* What is admitted stays so.                                                *)
LEMMA AdmitAdmits ==
  ASSUME NEW l, NEW m, NEW k, NEW now
  PROVE  /\ IsAdmitted(Admit(l, m, k, now), m, k)
         /\ \A n, j : IsAdmitted(l, n, j) => IsAdmitted(Admit(l, m, k, now), n, j)
<1>1. CASE IsAdmitted(l, m, k)
  BY <1>1 DEF Admit
<1>2. CASE ~IsAdmitted(l, m, k)
  <2> DEFINE row == [metric |-> m, key |-> k, bucket |-> Bucket(m, now), created |-> now]
  <2>1. Admit(l, m, k, now).admissions = l.admissions \cup {row}
    BY <1>2 DEF Admit
  <2>2. row.metric = m /\ row.key = k
    OBVIOUS
  <2> HIDE DEF row
  <2> QED BY <2>1, <2>2 DEF IsAdmitted
<1> QED BY <1>1, <1>2

LEMMA ChargeKeeps ==
  ASSUME TypeOK, CredentialsInv, ActionsInv, NEW t \in Attempts, Charge(t)
  PROVE  ActionsInv'
<1>1. Moved(t)
  BY LocalMoves
<1>2. CASE /\ ledger' = Admit(ledger, Metric, ActionOf[t], clock)
           /\ Go(t, "charged")
  <2>1. attempt'[t].pc = "charged" /\ attempt'[t].verdict = attempt[t].verdict
    BY <1>2, Names, GoMoves
  <2>2. UNCHANGED <<action, posted>>
    BY DEF Charge
  <2>3. ChargedInv'
    BY <1>1, <1>2, <2>1, <2>2, AdmitAdmits DEF ActionsInv, ChargedInv, HasActionRow, Moved
  <2>4. HoldInv'
    BY <1>1, <2>1, <2>2 DEF ActionsInv, HoldInv, HasActionRow, Moved, Holding
  <2>5. KnowledgeInv'
    BY <1>1, <2>1, <2>2 DEF ActionsInv, KnowledgeInv, Moved
  <2>6. OutcomeIsHonest'
    BY <1>1, <2>1, <2>2 DEF ActionsInv, OutcomeIsHonest, Moved
  <2> QED BY <2>3, <2>4, <2>5, <2>6 DEF ActionsInv
<1>3. CASE /\ Judge(t, "leaving", "error") \/ Judge(t, "leaving", "retry")
           /\ UNCHANGED ledger
  BY <1>1, <1>3, Names, JudgeMoves, QuietStep DEF Charge, Holding
<1> QED BY <1>2, <1>3 DEF Charge

LEMMA ClaimInsertKeeps ==
  ASSUME TypeOK, ActionsInv, NEW t \in Attempts, ClaimInsert(t)
  PROVE  ActionsInv'
<1> DEFINE a == ActionOf[t]
<1>1. Moved(t) /\ a \in Actions
  BY WritingMoves, ActionsAssumption DEF ActionsInv
<1>2. attempt'[t].pc = "claimed" /\ attempt'[t].verdict = attempt[t].verdict
  BY Names, GoMoves DEF ClaimInsert
<1>3. /\ action[a] = NoAction /\ attempt[t].pc = "charged"
      /\ action'[a] # NoAction /\ action'[a].step = t /\ action'[a].status = "IN_FLIGHT"
      /\ \A b \in Actions \ {a} : action'[b] = action[b]
      /\ UNCHANGED <<posted, ledger>>
  BY <1>1 DEF ClaimInsert, InFlightRow, NoAction, TypeOK
<1>4. posted[a] = {}
  BY <1>1, <1>3 DEF ActionsInv, HoldInv, HasActionRow
<1>5. \A s \in Attempts : ActionOf[s] = a => attempt[s].pc \notin Holding /\ attempt[s].verdict # "output"
  BY <1>1, <1>3 DEF ActionsInv, HoldInv, OutcomeIsHonest, HasActionRow, NoAction
<1>6. \A s \in Attempts : ActionOf[s] \in Actions
  BY ActionsAssumption
<1> HIDE DEF a
<1>7. ChargedInv'
  BY <1>1, <1>2, <1>3, <1>6 DEF ActionsInv, ChargedInv, HasActionRow, Moved, IsAdmitted, a
<1>8. HoldInv'
  BY <1>1, <1>2, <1>3, <1>4, <1>5, <1>6 DEF ActionsInv, HoldInv, HasActionRow, Moved, a
<1>9. KnowledgeInv'
  BY <1>1, <1>2, <1>3, <1>4 DEF ActionsInv, KnowledgeInv, Moved, a
<1>10. OutcomeIsHonest'
  BY <1>1, <1>2, <1>3, <1>4, <1>5, <1>6 DEF ActionsInv, OutcomeIsHonest, Moved, a
<1> QED BY <1>7, <1>8, <1>9, <1>10 DEF ActionsInv

LEMMA SettlingKeepsCharged ==
  ASSUME ActionsInv, NEW t \in Attempts, Moved(t), UNCHANGED ledger,
         attempt'[t].pc # "charged",
         \A a \in Actions : HasActionRow(a)' => HasActionRow(a)
  PROVE  ChargedInv'
BY DEF ActionsInv, ChargedInv, Moved, IsAdmitted

LEMMA MarkStaleKeeps ==
  ASSUME TypeOK, ActionsInv, NEW t \in Attempts, MarkStale(t)
  PROVE  ActionsInv'
<1> DEFINE a == ActionOf[t]
<1>1. Moved(t) /\ a \in Actions /\ \A s \in Attempts : ActionOf[s] \in Actions
  BY WritingMoves, ActionsAssumption DEF ActionsInv
<1>2. attempt'[t].pc = "leaving" /\ attempt'[t].verdict = "error" /\ UNCHANGED <<posted, ledger>>
  BY Names, JudgeMoves DEF MarkStale
<1>3. CASE Settles(a, "AMBIGUOUS")
  <2>1. /\ action[a].status = "IN_FLIGHT" /\ action'[a].status = "AMBIGUOUS"
        /\ HasActionRow(a) /\ HasActionRow(a)' /\ action'[a].step = action[a].step
        /\ \A b \in Actions \ {a} : action'[b] = action[b]
    BY <1>1, <1>3, SettlingARow DEF Terminal
  <2> HIDE DEF a
  <2>2. ChargedInv'
    BY <1>1, <1>2, <2>1, SettlingKeepsCharged DEF HasActionRow
  <2>3. HoldInv'
    BY <1>1, <1>2, <2>1 DEF ActionsInv, HoldInv, HasActionRow, Moved, Holding
  <2>4. KnowledgeInv'
    BY <1>1, <1>2 DEF ActionsInv, KnowledgeInv, Moved
  <2>5. OutcomeIsHonest'
    BY <1>1, <1>2, <2>1 DEF ActionsInv, OutcomeIsHonest, Moved
  <2> QED BY <2>2, <2>3, <2>4, <2>5 DEF ActionsInv
<1>4. CASE UNCHANGED action
  BY <1>1, <1>2, <1>4, QuietStep DEF Holding
<1> QED BY <1>3, <1>4 DEF MarkStale, Settles, IsInFlight

(* Before the request nothing has been sent, whatever made it stop.          *)
LEMMA StopBeforeKeeps ==
  ASSUME TypeOK, CredentialsInv, ActionsInv, NEW t \in Attempts, AbortBefore(t) \/ RefuseBefore(t)
  PROVE  ActionsInv'
<1>1. Moved(t) /\ UNCHANGED <<action, posted, ledger>> /\ attempt[t].pc = "claimed"
  BY LocalMoves DEF AbortBefore, RefuseBefore
<1>2. attempt'[t].pc = "failing" /\ attempt'[t].verdict \in {"FAILED", "CANCELLED"}
  BY Names, JudgeMoves DEF AbortBefore, RefuseBefore
<1>3. ChargedInv'
  BY <1>1, <1>2, SettlingKeepsCharged DEF HasActionRow
<1>4. HoldInv'
  BY <1>1, <1>2 DEF ActionsInv, HoldInv, HasActionRow, Moved, Holding
<1>5. KnowledgeInv'
  BY <1>1, <1>2 DEF ActionsInv, KnowledgeInv, Moved
<1>6. OutcomeIsHonest'
  BY <1>1, <1>2 DEF ActionsInv, OutcomeIsHonest, Moved
<1> QED BY <1>3, <1>4, <1>5, <1>6 DEF ActionsInv

LEMMA SendKeeps ==
  ASSUME TypeOK, CredentialsInv, ActionsInv, NEW t \in Attempts, Send(t)
  PROVE  ActionsInv'
<1> DEFINE a == ActionOf[t]
<1>1. /\ Moved(t) /\ a \in Actions /\ \A s \in Attempts : ActionOf[s] \in Actions
      /\ UNCHANGED <<action, ledger>> /\ attempt[t].pc = "claimed"
  BY LocalMoves, ActionsAssumption DEF Send
<1>2. attempt'[t].pc = "sent" /\ attempt'[t].verdict = attempt[t].verdict
  BY Names, GoMoves DEF Send
<1>3. /\ HasActionRow(a) /\ action[a].step = t /\ action[a].status \in {"IN_FLIGHT", "AMBIGUOUS"}
      /\ posted[a] = {}
  BY <1>1 DEF ActionsInv, HoldInv, KnowledgeInv, Holding
<1>4. posted'[a] \in {{}, {t}} /\ \A b \in Actions \ {a} : posted'[b] = posted[b]
  BY <1>1, <1>3 DEF Send, TypeOK
<1>5. \A s \in Attempts : ActionOf[s] = a /\ s # t => attempt[s].pc \notin Holding
  BY <1>3 DEF ActionsInv, HoldInv
<1> HIDE DEF a
<1>6. ChargedInv'
  BY <1>1, <1>2, SettlingKeepsCharged DEF HasActionRow
<1>7. HoldInv'
  BY <1>1, <1>2, <1>3, <1>4, <1>5 DEF ActionsInv, HoldInv, HasActionRow, Moved, Holding, a
<1>8. KnowledgeInv'
  BY <1>1, <1>2, <1>4, <1>5 DEF ActionsInv, KnowledgeInv, Moved, Holding, a
<1>9. OutcomeIsHonest'
  BY <1>1, <1>2, <1>3, <1>4 DEF ActionsInv, OutcomeIsHonest, Moved, a
<1> QED BY <1>6, <1>7, <1>8, <1>9 DEF ActionsInv

LEMMA ReceiveKeeps ==
  ASSUME TypeOK, CredentialsInv, ActionsInv, NEW t \in Attempts, Receive(t)
  PROVE  ActionsInv'
<1> DEFINE a == ActionOf[t]
<1>1. Moved(t) /\ UNCHANGED <<action, posted, ledger>> /\ attempt[t].pc = "sent"
  BY LocalMoves DEF Receive
<1>2. posted[a] \subseteq {t} /\ a \in Actions
  BY <1>1, ActionsAssumption DEF ActionsInv, HoldInv, Holding
<1>3. \/ attempt'[t].pc = "completing" /\ attempt'[t].verdict = "SUCCEEDED" /\ t \in posted[a]
      \/ attempt'[t].pc = "failing" /\ attempt'[t].verdict = "FAILED" /\ t \notin posted[a]
      \/ attempt'[t].pc = "failing" /\ attempt'[t].verdict = "AMBIGUOUS"
  BY Names, JudgeMoves DEF Receive, Answers, Classified
<1>4. ChargedInv'
  BY <1>1, <1>3, SettlingKeepsCharged DEF HasActionRow
<1>5. HoldInv'
  BY <1>1, <1>3 DEF ActionsInv, HoldInv, HasActionRow, Moved, Holding
<1>6. KnowledgeInv'
  BY <1>1, <1>2, <1>3 DEF ActionsInv, KnowledgeInv, Moved
<1>7. OutcomeIsHonest'
  BY <1>1, <1>3 DEF ActionsInv, OutcomeIsHonest, Moved
<1> QED BY <1>4, <1>5, <1>6, <1>7 DEF ActionsInv

LEMMA CompleteKeeps ==
  ASSUME TypeOK, CredentialsInv, ActionsInv, NEW t \in Attempts, Complete(t)
  PROVE  ActionsInv'
<1> DEFINE a == ActionOf[t]
<1>1. /\ Moved(t) /\ UNCHANGED <<posted, ledger>> /\ attempt[t].pc = "completing"
      /\ a \in Actions /\ \A s \in Attempts : ActionOf[s] \in Actions
  BY WritingMoves, ActionsAssumption DEF ActionsInv, Complete
<1>2. posted[a] # {} /\ HasActionRow(a) /\ action[a].step = t
      /\ action[a].status \in {"IN_FLIGHT", "AMBIGUOUS"}
  BY <1>1 DEF ActionsInv, HoldInv, KnowledgeInv, Holding
<1>3. \/ attempt'[t].pc = "leaving" /\ attempt'[t].verdict = "output" /\ Settles(a, "SUCCEEDED")
      \/ /\ attempt'[t].pc = "failing" /\ attempt'[t].verdict = "AMBIGUOUS"
         /\ Settles(a, "SUCCEEDED") \/ UNCHANGED action
  BY Names, JudgeMoves DEF Complete, Settles
<1>4. \/ /\ action[a].status = "IN_FLIGHT" /\ action'[a].status = "SUCCEEDED"
         /\ HasActionRow(a)' /\ action'[a].step = action[a].step
         /\ \A b \in Actions \ {a} : action'[b] = action[b]
      \/ UNCHANGED action /\ attempt'[t].pc = "failing"
  BY <1>1, <1>3, SettlingARow DEF Terminal
<1>5. \A s \in Attempts : ActionOf[s] = a /\ s # t => attempt[s].pc \notin Holding
  BY <1>2 DEF ActionsInv, HoldInv
<1> HIDE DEF a
<1>6. ChargedInv'
  BY <1>1, <1>2, <1>3, <1>4, SettlingKeepsCharged DEF HasActionRow
<1>7. HoldInv'
  BY <1>1, <1>2, <1>3, <1>4, <1>5 DEF ActionsInv, HoldInv, HasActionRow, Moved, Holding, a
<1>8. KnowledgeInv'
  BY <1>1, <1>3 DEF ActionsInv, KnowledgeInv, Moved
<1>9. OutcomeIsHonest'
  BY <1>1, <1>2, <1>3, <1>4 DEF ActionsInv, OutcomeIsHonest, Moved, a
<1> QED BY <1>6, <1>7, <1>8, <1>9 DEF ActionsInv

LEMMA FailKeeps ==
  ASSUME TypeOK, CredentialsInv, ActionsInv, NEW t \in Attempts, Fail(t)
  PROVE  ActionsInv'
<1> DEFINE a == ActionOf[t]
           verdict == attempt[t].verdict
<1>1. /\ Moved(t) /\ UNCHANGED <<posted, ledger>> /\ attempt[t].pc = "failing"
      /\ a \in Actions /\ \A s \in Attempts : ActionOf[s] \in Actions
  BY WritingMoves, ActionsAssumption DEF ActionsInv, Fail
<1>2. /\ HasActionRow(a) /\ action[a].step = t
      /\ verdict \in {"FAILED", "CANCELLED", "AMBIGUOUS"}
      /\ verdict \in {"FAILED", "CANCELLED"} => posted[a] = {}
  BY <1>1 DEF ActionsInv, HoldInv, KnowledgeInv, Holding
<1>3. attempt'[t].pc = "leaving" /\ attempt'[t].verdict \in {"error", "retry"}
  BY Names, JudgeMoves DEF Fail
<1>4. CASE Settles(a, verdict)
  <2>1. /\ action[a].status = "IN_FLIGHT" /\ action'[a].status = verdict
        /\ HasActionRow(a)' /\ action'[a].step = action[a].step
        /\ \A b \in Actions \ {a} : action'[b] = action[b]
    BY <1>1, <1>2, <1>4, SettlingARow DEF Terminal
  <2>2. \A s \in Attempts : ActionOf[s] = a /\ s # t => attempt[s].pc \notin Holding
    BY <1>2 DEF ActionsInv, HoldInv
  <2> HIDE DEF a, verdict
  <2>3. ChargedInv'
    BY <1>1, <1>2, <1>3, <2>1, SettlingKeepsCharged DEF HasActionRow
  <2>4. HoldInv'
    BY <1>1, <1>2, <1>3, <2>1, <2>2 DEF ActionsInv, HoldInv, HasActionRow, Moved, Holding, a
  <2>5. KnowledgeInv'
    BY <1>1, <1>3 DEF ActionsInv, KnowledgeInv, Moved
  <2>6. OutcomeIsHonest'
    BY <1>1, <1>2, <1>3, <2>1 DEF ActionsInv, OutcomeIsHonest, Moved, a
  <2> QED BY <2>3, <2>4, <2>5, <2>6 DEF ActionsInv
<1>5. CASE UNCHANGED action
  BY <1>1, <1>3, <1>5, QuietStep DEF Holding
<1> QED BY <1>4, <1>5 DEF Fail, FailRow, Settles

LEMMA ActionsStep ==
  ASSUME TypeOK, CredentialsInv, ActionsInv, NEW t \in Attempts, OneAttempt(t)
  PROVE  ActionsInv'
<1>1. CASE Check(t)
  <2>1. attempt'[t].pc \in {"done", "checked"} /\ (attempt'[t].verdict = "output" =>
          attempt[t].verdict = "output" \/ action[ActionOf[t]].status = "SUCCEEDED")
    BY <1>1, Names, GoMoves, JudgeMoves DEF Check
  <2> QED BY <1>1, <2>1, LocalMoves, QuietStep DEF Check, Holding
<1>2. CASE Resolve(t)
  <2>1. attempt'[t].pc \in {"done", "resolved"} /\ (attempt'[t].verdict = "output" =>
          attempt[t].verdict = "output")
    <3>1. CASE attempt' = [attempt EXCEPT ![t].pc = "resolved", ![t].secret = credential[Uses[ActionOf[t]]]]
      BY <3>1 DEF TypeOK, AttemptRecord
    <3>2. CASE Judge(t, "done", "error")
      BY <3>2, Names, JudgeMoves
    <3> QED BY <1>2, <3>1, <3>2 DEF Resolve
  <2> QED BY <1>2, <2>1, LocalMoves, QuietStep DEF Resolve, Holding
<1>3. CASE Reserve(t)
  <2>1. attempt'[t].pc \in {"done", "reserved"} /\ (attempt'[t].verdict = "output" =>
          attempt[t].verdict = "output")
    BY <1>3, Names, GoMoves, JudgeMoves DEF Reserve
  <2> QED BY <1>3, <2>1, LocalMoves, QuietStep DEF Reserve, Holding
<1>4. CASE ClaimExisting(t)
  <2>1. attempt'[t].pc \in {"leaving", "stale"} /\ (attempt'[t].verdict = "output" =>
          attempt[t].verdict = "output" \/ action[ActionOf[t]].status = "SUCCEEDED")
    BY <1>4, Names, GoMoves, JudgeMoves, ExistingIsJudged
  <2> QED BY <1>4, <2>1, LocalMoves, QuietStep DEF ClaimExisting, Holding
<1>5. CASE Leave(t)
  <2>1. attempt'[t].pc = "done" /\ attempt'[t].verdict = attempt[t].verdict
    BY <1>5, Names, GoMoves DEF Leave
  <2> QED BY <1>5, <2>1, LocalMoves, QuietStep DEF Leave, Holding
<1>6. CASE Crash(t)
  <2>1. attempt'[t].pc = "done" /\ attempt'[t].verdict = "crashed"
    BY <1>6, Names, JudgeMoves DEF Crash
  <2> QED BY <1>6, <2>1, LocalMoves, QuietStep DEF Crash, Holding
<1> QED BY <1>1, <1>2, <1>3, <1>4, <1>5, <1>6, ChargeKeeps, ClaimInsertKeeps, MarkStaleKeeps,
           StopBeforeKeeps, SendKeeps, ReceiveKeeps, CompleteKeeps, FailKeeps DEF OneAttempt

-------------------------------------------------------------------------------
(* The types after a step of an attempt.                                     *)
LEMMA TypeStep ==
  ASSUME TypeOK, CredentialsInv, ActionsInv, NEW t \in Attempts, OneAttempt(t)
  PROVE  TypeOK' /\ UNCHANGED <<clock, credentialVars>>
<1>1. UNCHANGED <<clock, credentialVars>>
  BY DEF OneAttempt, Check, Resolve, Reserve, Charge, ClaimInsert, ClaimExisting, MarkStale,
         AbortBefore, RefuseBefore, Send, Receive, Complete, Fail, Leave, Crash
<1>2. Moved(t)
  BY LocalMoves, WritingMoves DEF OneAttempt, ActionsInv
<1>3. action' \in [Actions -> ActionRow \cup {NoAction}]
  <2>1. CASE ClaimInsert(t) \/ MarkStale(t) \/ Complete(t) \/ Fail(t)
    BY <2>1, WritingMoves DEF ActionsInv
  <2>2. CASE ~(ClaimInsert(t) \/ MarkStale(t) \/ Complete(t) \/ Fail(t))
    BY <2>2 DEF TypeOK, OneAttempt, Check, Resolve, Reserve, Charge, ClaimExisting,
                AbortBefore, RefuseBefore, Send, Receive, Leave, Crash
  <2> QED BY <2>1, <2>2
<1>4. slots' \in [Actions -> [owner : Attempts \cup {"none"}, expires : Nat]]
  <2>1. CASE Reserve(t)
    BY <2>1, ActionsAssumption DEF Reserve, TypeOK
  <2>2. CASE Leave(t)
    BY <2>2 DEF Leave, NoSlot, TypeOK
  <2>3. CASE ~(Reserve(t) \/ Leave(t))
    BY <2>3 DEF TypeOK, OneAttempt, Check, Resolve, Charge, ClaimInsert, ClaimExisting, MarkStale,
                AbortBefore, RefuseBefore, Send, Receive, Complete, Fail, Crash
  <2> QED BY <2>1, <2>2, <2>3
<1>5. posted' \in [Actions -> SUBSET Attempts]
  <2>1. CASE Send(t)
    BY <2>1 DEF Send, TypeOK
  <2>2. CASE ~Send(t)
    BY <2>2 DEF TypeOK, OneAttempt, Check, Resolve, Reserve, Charge, ClaimInsert, ClaimExisting,
                MarkStale, AbortBefore, RefuseBefore, Receive, Complete, Fail, Leave, Crash
  <2> QED BY <2>1, <2>2
<1> QED BY <1>1, <1>2, <1>3, <1>4, <1>5 DEF TypeOK, Moved, KeepsSecret

LEMMA InvInit == Init => IInv
<1> SUFFICES ASSUME Init PROVE IInv
  OBVIOUS
<1>1. TypeOK
  BY DEF Init, TypeOK, NoSlot, Unstarted, Attempt, AttemptRecord, Places, Early, Verdicts
<1>2. CredentialsInv
  BY DEF Init, CredentialInit, CredentialsInv, CredentialsTypeOK, NoCredential, NoCall
<1>3. ActionsInv
  BY ActionsAssumption DEF Init, ActionsInv, ChargedInv, HoldInv, KnowledgeInv, OutcomeIsHonest,
     HasActionRow, NoAction, Unstarted, Attempt, Holding
<1> QED BY <1>1, <1>2, <1>3 DEF IInv

LEMMA InvStep == IInv /\ [Next]_vars => IInv'
<1> SUFFICES ASSUME IInv, [Next]_vars PROVE IInv'
  OBVIOUS
<1> USE DEF IInv
<1>0. ASSUME UNCHANGED actionVars, UNCHANGED ledger, clock' \in Nat
      PROVE  TypeOK' /\ ActionsInv'
  <2>1. TypeOK'
    BY <1>0 DEF TypeOK, actionVars
  <2>2. ActionsInv'
    BY <1>0 DEF actionVars, ActionsInv, ChargedInv, HoldInv, KnowledgeInv, OutcomeIsHonest,
                HasActionRow, IsAdmitted
  <2> QED BY <2>1, <2>2
<1>1. ASSUME UNCHANGED credentialVars PROVE CredentialsInv'
  BY <1>1 DEF CredentialsInv, CredentialsTypeOK, credentialVars
<1>2. CASE Tick /\ UNCHANGED <<ledger, credentialVars, actionVars>>
  <2>1. clock' \in Nat
    BY <1>2 DEF Tick, TypeOK
  <2> QED BY <1>0, <1>1, <1>2, <2>1
<1>3. CASE CredentialStep /\ UNCHANGED <<clock, ledger, actionVars>>
  <2>1. clock' \in Nat
    BY <1>3 DEF TypeOK
  <2> QED BY <1>0, <1>3, <2>1, CredentialStepKeeps
<1>4. ASSUME NEW t \in Attempts, OneAttempt(t) PROVE IInv'
  BY <1>1, <1>4, TypeStep, ActionsStep
<1>5. CASE UNCHANGED vars
  BY <1>0, <1>1, <1>5 DEF vars, actionVars, credentialVars, TypeOK
<1> QED BY <1>2, <1>3, <1>4, <1>5 DEF Next, AttemptStep, OneAttempt

(* The inductive invariant holds of every behaviour.                         *)
THEOREM InvCorrect == Spec => []IInv
BY InvInit, InvStep, PTL DEF Spec

(* A message is carried out at most once and never uncharged, for any number *)
(* of attempts (claimIntegrationAction, admitIntegrationAction).             *)
THEOREM PostedOnceCorrect == Spec => []PostedOnce
<1>1. IInv => PostedOnce
  <2> SUFFICES ASSUME IInv, NEW a \in Actions
               PROVE  /\ Cardinality(posted[a]) <= 1
                      /\ posted[a] # {} => IsAdmitted(ledger, Metric, a)
    BY DEF PostedOnce
  <2>1. CASE posted[a] = {}
    BY <2>1, FS_EmptySet
  <2>2. CASE posted[a] # {}
    <3>1. HasActionRow(a) /\ posted[a] = {action[a].step}
      BY <2>2 DEF IInv, ActionsInv, HoldInv
    <3>2. IsAdmitted(ledger, Metric, a)
      BY <3>1 DEF IInv, ActionsInv, ChargedInv
    <3>3. Cardinality(posted[a]) = 1
      BY <3>1, FS_Singleton
    <3> QED BY <3>2, <3>3
  <2> QED BY <2>1, <2>2
<1> QED BY <1>1, InvCorrect, PTL

(* What the row and the attempts say of the message is true, whoever wrote   *)
(* it last (completeIntegrationAction, failIntegrationAction).               *)
THEOREM OutcomeCorrect == Spec => []OutcomeIsHonest
<1>1. IInv => OutcomeIsHonest
  BY DEF IInv, ActionsInv
<1> QED BY <1>1, InvCorrect, PTL

(* A row moves as canTransitionIntegrationAction allows.                     *)
THEOREM RowsCorrect == Spec => RowsMoveAsAllowed
<1>1. IInv /\ [Next]_vars =>
        \A a \in Actions : action'[a].status # action[a].status
                             => CanTransition(action[a].status, action'[a].status)
  <2> SUFFICES ASSUME IInv, [Next]_vars, NEW a \in Actions,
                      action'[a].status # action[a].status
               PROVE  CanTransition(action[a].status, action'[a].status)
    OBVIOUS
  <2> USE DEF IInv
  <2>1. ASSUME NEW t \in Attempts, ClaimInsert(t)
        PROVE  CanTransition(action[a].status, action'[a].status)
    <3>1. action[ActionOf[t]].status = "none" /\ action'[ActionOf[t]].status = "IN_FLIGHT"
      BY <2>1, ActionsAssumption DEF ClaimInsert, InFlightRow, NoAction, TypeOK
    <3>2. a = ActionOf[t]
      BY <2>1 DEF ClaimInsert, TypeOK
    <3> QED BY <3>1, <3>2 DEF CanTransition
  <2>2. ASSUME NEW b \in Actions, NEW status \in Terminal, Settles(b, status)
        PROVE  CanTransition(action[a].status, action'[a].status)
    BY <2>2, SettlingARow DEF CanTransition
  <2>3. ASSUME NEW t \in Attempts, MarkStale(t) \/ Complete(t) \/ Fail(t)
        PROVE  \E status \in Terminal : Settles(ActionOf[t], status)
    <3>1. CASE MarkStale(t)
      BY <3>1 DEF MarkStale, Settles, IsInFlight, Terminal
    <3>2. CASE Complete(t)
      BY <3>2 DEF Complete, Settles, Terminal
    <3>3. CASE Fail(t)
      BY <3>3 DEF Fail, FailRow, Settles, Terminal, ActionsInv, KnowledgeInv
    <3> QED BY <2>3, <3>1, <3>2, <3>3
  <2>4. ASSUME NEW t \in Attempts, OneAttempt(t)
        PROVE  CanTransition(action[a].status, action'[a].status)
    <3>1. ClaimInsert(t) \/ MarkStale(t) \/ Complete(t) \/ Fail(t)
      BY <2>4 DEF OneAttempt, Check, Resolve, Reserve, Charge, ClaimExisting, AbortBefore,
                  RefuseBefore, Send, Receive, Leave, Crash
    <3>2. ActionOf[t] \in Actions
      BY ActionsAssumption
    <3> QED BY <2>1, <2>2, <2>3, <3>1, <3>2
  <2> QED BY <2>4 DEF Next, AttemptStep, OneAttempt, vars, actionVars
<1> QED BY <1>1, InvCorrect, PTL DEF Spec, RowsMoveAsAllowed

(* A revoked credential stays revoked, and an active one opens, however the  *)
(* writes of users interleave.                                               *)
THEOREM RevocationCorrect == Spec => RevocationIsFinal
<1>1. IInv /\ [Next]_vars =>
        \A c \in CredentialIds :
          /\ credential[c].status = "deleted" => credential'[c] = credential[c]
          /\ credential'[c].status = "active" => SecretOf(c, credential'[c]) # Invalid
  <2> SUFFICES ASSUME IInv, [Next]_vars, NEW c \in CredentialIds
               PROVE  /\ credential[c].status = "deleted" => credential'[c] = credential[c]
                      /\ credential'[c].status = "active" => SecretOf(c, credential'[c]) # Invalid
    OBVIOUS
  <2>1. CredentialsInv'
    BY InvStep DEF IInv
  <2>2. credential'[c].status = "active" => SecretOf(c, credential'[c]) # Invalid
    <3> SUFFICES ASSUME credential'[c].status = "active"
                 PROVE  SecretOf(c, credential'[c]) # Invalid
      OBVIOUS
    <3>1. credential'[c] \in CredentialRow
      BY <2>1 DEF CredentialsInv, CredentialsTypeOK, NoCredential
    <3>2. PICK u \in Managers : credential'[c].material = SealedAs(c, u, credential'[c].version)
      BY <2>1 DEF CredentialsInv
    <3>3. credential'[c].version \in Versions
      BY <3>1 DEF CredentialRow
    <3> QED BY <3>2, <3>3, SealedOpens
  <2>3. ASSUME CredentialStep, credential[c].status = "deleted"
        PROVE  credential'[c] = credential[c]
    <3>0. credential \in [CredentialIds -> CredentialRow \cup {NoCredential}]
      BY DEF IInv, CredentialsInv, CredentialsTypeOK
    <3>1. ASSUME NEW u \in Managers, NEW d \in CredentialIds, CreateCredential(u, d)
          PROVE  credential'[c] = credential[c]
      BY <2>3, <3>0, <3>1 DEF CreateCredential, NoCredential
    <3>2. ASSUME NEW u \in Managers, WriteRotation(u) PROVE credential'[c] = credential[c]
      BY <2>3, <3>0, <3>2 DEF WriteRotation, NotDeleted, IsActive
    <3>3. ASSUME NEW u \in Managers, WriteRevocation(u) PROVE credential'[c] = credential[c]
      BY <2>3, <3>0, <3>3 DEF WriteRevocation, IsActive
    <3> QED BY <2>3, <3>1, <3>2, <3>3 DEF CredentialStep, BeginChange
  <2>4. CredentialStep \/ UNCHANGED credential
    BY TypeStep DEF IInv, Next, AttemptStep, OneAttempt, credentialVars, vars
  <2> QED BY <2>2, <2>3, <2>4
<1> QED BY <1>1, InvCorrect, PTL DEF Spec, RevocationIsFinal
===============================================================================
