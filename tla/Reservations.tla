----------------------------- MODULE Reservations -----------------------------
(***************************************************************************)
(* The concurrency reservations of one workspace and one operation class:  *)
(* the counter row workspace_concurrency_states.activeCount and the lease  *)
(* rows workspace_concurrency_reservations it is meant to count.           *)
(*   lib/concurrency/service.ts, lib/usage/retention.ts                    *)
(*                                                                         *)
(* Clients (agent runs, dispatchers, workflow workers, integration steps)  *)
(* run transactions in READ COMMITTED mode.  The variables rows and count  *)
(* hold committed data; what a transaction has written and not committed   *)
(* is in client[c], and the row locks it holds follow from client[c].      *)
(***************************************************************************)
EXTENDS Naturals, FiniteSets

CONSTANTS
  Clients,    \* activities that reserve
  Owners,     \* ownerId values
  Owner,      \* Owner[c]: the ownerId c passes (a worker process has several clients)
  Sources,    \* sourceId values
  Rows,       \* bound of the model: reservation ids ever generated
  Limit,      \* the workspace's limit for the operation class
  Lease,      \* leaseMs, in ticks
  Retention,  \* getOperationalRetentionCutoff, in ticks
  MaxOffers,  \* bound of the model: handoffs ever put on the queue
  MaxTime     \* bound of the model: the last tick

ASSUME ReservationsAssumption ==
  /\ IsFiniteSet(Rows)
  /\ Owner \in [Clients -> Owners]
  /\ Limit \in Nat \ {0} /\ Lease \in Nat \ {0}
  /\ Retention \in Nat /\ MaxOffers \in Nat /\ MaxTime \in Nat

VARIABLES
  clock,    \* the time new Date() reads
  rows,     \* rows[r]: the reservation with id r
  count,    \* activeCount
  offers,   \* handoffs put on the queue: a row and the owner it was reserved under
  client    \* client[c]: the call c is in, or the reservation it works under

vars == <<clock, rows, count, offers, client>>

Now == 0..MaxTime
Time == 0..(MaxTime + Lease)
(* A row that is released or deleted is never read again.                   *)
NoRow == [status |-> "unused"]
Closed == [status |-> "closed"]
Row == [status : {"open"}, source : Sources, owner : Owners, created : Now, expires : Time]
Offer == [row : Rows, from : Owners]

(* locking, reaping and deciding are inside acquireWorkspaceReservation,    *)
(* adopting inside transferWorkspaceReservation, counting inside            *)
(* releaseWorkspaceReservation.                                             *)
Client ==
       [pc : {"idle"}]
  \cup [pc : {"locking"}, now : Now, source : Sources]
  \cup [pc : {"reaping"}, now : Now, source : Sources, read : 0..Limit]
  \cup [pc : {"deciding"}, now : Now, source : Sources, read : 0..Limit, reaped : SUBSET Rows]
  \cup [pc : {"adopting"}, now : Now, offer : Offer]
  \cup [pc : {"working", "counting"}, row : Rows]

Idle == [pc |-> "idle"]

TypeOK ==
  /\ clock \in Now
  /\ rows \in [Rows -> Row \cup {NoRow, Closed}]
  /\ count \in 0..Limit
  /\ offers \subseteq Offer
  /\ client \in [Clients -> Client]

Init ==
  /\ clock = 0
  /\ rows = [r \in Rows |-> NoRow]
  /\ count = 0
  /\ offers = {}
  /\ client = [c \in Clients |-> Idle]

-------------------------------------------------------------------------------
Open == {r \in Rows : rows[r].status = "open"}

(* Mutated form of HoldsState: the state row is read without FOR UPDATE.    *)
HoldsNoState(c) == c \notin Clients

(* The locks a transaction holds until it commits: SELECT ... FOR UPDATE on *)
(* the state row, and the reservation rows it has updated.                  *)
HoldsState(c) == client[c].pc \in {"reaping", "deciding"}
LockedBy(c) ==
  IF client[c].pc = "deciding" THEN client[c].reaped
  ELSE IF client[c].pc = "counting" THEN {client[c].row}
  ELSE {}
StateFree == \A c \in Clients : ~HoldsState(c)
Unlocked(r) == \A c \in Clients : r \notin LockedBy(c)

Become(c, local) == client' = [client EXCEPT ![c] = local]

(* Math.max(0, n - k), greatest(n - k, 0)                                   *)
Less(n, k) == IF n <= k THEN 0 ELSE n - k

(* Rows the reaping update matches: not released, expiresAt <= now.         *)
Expired(now) == {r \in Open : rows[r].expires <= now}

(* The row acquire selects as `existing` after its reaping; the partial      *)
(* unique index allows one.                                                 *)
Existing(c) == {r \in Open \ client[c].reaped : rows[r].source = client[c].source}

Active(c) == {r \in Existing(c) : rows[r].expires > client[c].now}

(* Mutated form of HasCapacity: <= for <.                                   *)
HasCapacityOffByOne(active) == active <= Limit

HasCapacity(active) == active < Limit

(* activeCount after the reaping, from the state row as it was locked.      *)
ActiveCount(c) == Less(client[c].read, Cardinality(client[c].reaped))

(* Mutated form of OwnsOpenRow: release by id alone.                        *)
OpenRow(c, r) == c \in Clients /\ r \in Open

OwnsOpenRow(c, r) == r \in Open /\ rows[r].owner = Owner[c]

-------------------------------------------------------------------------------
AcquireBegin(c, s) ==
  /\ client[c].pc = "idle"
  /\ Become(c, [pc |-> "locking", now |-> clock, source |-> s])
  /\ UNCHANGED <<clock, rows, count, offers>>

AcquireLock(c) ==
  /\ client[c].pc = "locking" /\ StateFree
  /\ Become(c, [pc |-> "reaping", now |-> client[c].now, source |-> client[c].source,
                read |-> count])
  /\ UNCHANGED <<clock, rows, count, offers>>

(* The update waits for the rows another transaction has locked.            *)
AcquireReap(c) ==
  /\ client[c].pc = "reaping"
  /\ \A r \in Expired(client[c].now) : Unlocked(r)
  /\ Become(c, [pc |-> "deciding", now |-> client[c].now, source |-> client[c].source,
                read |-> client[c].read, reaped |-> Expired(client[c].now)])
  /\ UNCHANGED <<clock, rows, count, offers>>

CloseRows(closing) == [r \in Rows |-> IF r \in closing THEN Closed ELSE rows[r]]

(* The reservation of this source exists: commit the reaping, and return    *)
(* before the counter is written.                                           *)
AcquireDuplicate(c) ==
  /\ client[c].pc = "deciding"
  /\ \E r \in Active(c) : Become(c, [pc |-> "working", row |-> r])
  /\ rows' = CloseRows(client[c].reaped)
  /\ UNCHANGED <<clock, count, offers>>

AcquireFull(c) ==
  /\ client[c].pc = "deciding" /\ Active(c) = {}
  /\ ~HasCapacity(ActiveCount(c))
  /\ rows' = CloseRows(client[c].reaped)
  /\ count' = ActiveCount(c)
  /\ Become(c, Idle)
  /\ UNCHANGED <<clock, offers>>

(* The unique index refuses a second open row of the source, which fails    *)
(* the transaction: a transfer whose `now` is old enough can move expiresAt *)
(* back below the `now` of a transaction that has already reaped.           *)
AcquireInsert(c) ==
  /\ client[c].pc = "deciding" /\ Active(c) = {}
  /\ HasCapacity(ActiveCount(c))
  /\ Existing(c) = {}
  /\ \E r \in Rows :
       /\ rows[r] = NoRow
       /\ rows' = [CloseRows(client[c].reaped) EXCEPT ![r] =
            [status |-> "open", source |-> client[c].source, owner |-> Owner[c],
             created |-> client[c].now, expires |-> client[c].now + Lease]]
       /\ Become(c, [pc |-> "working", row |-> r])
  /\ count' = ActiveCount(c) + 1
  /\ UNCHANGED <<clock, offers>>

(* renewWorkspaceReservation: one guarded update.                           *)
Renew(c) ==
  /\ client[c].pc = "working"
  /\ LET r == client[c].row IN
     /\ OwnsOpenRow(c, r) /\ Unlocked(r) /\ rows[r].expires >= clock
     /\ rows' = [rows EXCEPT ![r].expires = clock + Lease]
  /\ UNCHANGED <<clock, count, offers, client>>

(* The dispatcher leaves its reservation to whoever takes the queued job.   *)
HandOff(c) ==
  /\ client[c].pc = "working"
  /\ Cardinality(offers) < MaxOffers
  /\ offers' = offers \cup {[row |-> client[c].row, from |-> Owner[c]]}
  /\ Become(c, Idle)
  /\ UNCHANGED <<clock, rows, count>>

(* A job may be delivered more than once.                                   *)
AdoptBegin(c, o) ==
  /\ client[c].pc = "idle"
  /\ Become(c, [pc |-> "adopting", now |-> clock, offer |-> o])
  /\ UNCHANGED <<clock, rows, count, offers>>

Adoptable(c) ==
  LET r == client[c].offer.row IN
  r \in Open /\ rows[r].owner = client[c].offer.from /\ rows[r].expires >= client[c].now

Adopt(c) ==
  /\ client[c].pc = "adopting"
  /\ LET r == client[c].offer.row IN
     /\ Unlocked(r) /\ Adoptable(c)
     /\ rows' = [rows EXCEPT ![r].owner = Owner[c], ![r].expires = client[c].now + Lease]
     /\ Become(c, [pc |-> "working", row |-> r])
  /\ UNCHANGED <<clock, count, offers>>

AdoptMiss(c) ==
  /\ client[c].pc = "adopting"
  /\ Unlocked(client[c].offer.row) /\ ~Adoptable(c)
  /\ Become(c, Idle)
  /\ UNCHANGED <<clock, rows, count, offers>>

ReleaseRow(c) ==
  /\ client[c].pc = "working"
  /\ Unlocked(client[c].row) /\ OwnsOpenRow(c, client[c].row)
  /\ Become(c, [client[c] EXCEPT !.pc = "counting"])
  /\ UNCHANGED <<clock, rows, count, offers>>

(* Mutated form of ReleaseMiss: a release that matched no row still counts  *)
(* the state down.                                                          *)
ReleaseMissCounts(c) ==
  /\ client[c].pc = "working" /\ StateFree
  /\ Unlocked(client[c].row) /\ ~OwnsOpenRow(c, client[c].row)
  /\ count' = Less(count, 1)
  /\ Become(c, Idle)
  /\ UNCHANGED <<clock, rows, offers>>

ReleaseMiss(c) ==
  /\ client[c].pc = "working"
  /\ Unlocked(client[c].row) /\ ~OwnsOpenRow(c, client[c].row)
  /\ Become(c, Idle)
  /\ UNCHANGED <<clock, rows, count, offers>>

(* Needs the state row after the reservation row: the opposite order to     *)
(* AcquireReap.                                                             *)
ReleaseCount(c) ==
  /\ client[c].pc = "counting" /\ StateFree
  /\ rows' = CloseRows({client[c].row})
  /\ count' = Less(count, 1)
  /\ Become(c, Idle)
  /\ UNCHANGED <<clock, offers>>

(* The process dies, a statement fails, or PostgreSQL breaks a deadlock by  *)
(* aborting the transaction: nothing uncommitted remains.                   *)
Fail(c) ==
  /\ client[c].pc # "idle"
  /\ Become(c, Idle)
  /\ UNCHANGED <<clock, rows, count, offers>>

(* purgeExpiredReservations deletes old rows.  Deleting a released row      *)
(* changes nothing any operation could see; deleting an expired one that    *)
(* nobody has reaped does.                                                  *)
PurgeExpired(r) ==
  /\ r \in Open /\ Unlocked(r)
  /\ rows[r].created + Retention < clock /\ rows[r].expires < clock
  /\ rows' = CloseRows({r})
  /\ UNCHANGED <<clock, count, offers, client>>

Tick ==
  /\ clock < MaxTime
  /\ clock' = clock + 1
  /\ UNCHANGED <<rows, count, offers, client>>

ClientStep(c) ==
  \/ \E s \in Sources : AcquireBegin(c, s)
  \/ AcquireLock(c) \/ AcquireReap(c)
  \/ AcquireDuplicate(c) \/ AcquireFull(c) \/ AcquireInsert(c)
  \/ Renew(c) \/ HandOff(c)
  \/ \E o \in offers : AdoptBegin(c, o)
  \/ Adopt(c) \/ AdoptMiss(c)
  \/ ReleaseRow(c) \/ ReleaseMiss(c) \/ ReleaseCount(c)
  \/ Fail(c)

Next ==
  \/ \E c \in Clients : ClientStep(c)
  \/ \E r \in Rows : PurgeExpired(r)
  \/ Tick

Spec == Init /\ [][Next]_vars

-------------------------------------------------------------------------------
(* Admission control holds however releases, reaping, retention and failed  *)
(* transactions interleave: the counter acquire decides by never drops      *)
(* below the reservations that are really open (a release of a row another  *)
(* transaction has reaped, or reaped twice, would decrement it twice), so   *)
(* there are never more open reservations than the limit.                   *)
CountCoversOpenRows == Cardinality(Open) <= count

OpenWithinLimit == Cardinality(Open) <= Limit

(* Nobody takes a reservation away from a live holder: an open row closes   *)
(* only when its lease has run out, or by a release under its owner's id.   *)
OnlyOwnersCloseLiveRows ==
  [][\A r \in Open : rows'[r] = Closed =>
       \/ rows[r].expires <= clock
       \/ \E c \in Clients : client[c] = [pc |-> "counting", row |-> r] /\ rows[r].owner = Owner[c]
    ]_vars
===============================================================================
