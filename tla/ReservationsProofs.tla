-------------------------- MODULE ReservationsProofs --------------------------
(***************************************************************************)
(* Admission control for any number of clients, owners and reservations:   *)
(* the counter covers the open rows, which never exceed the limit.         *)
(***************************************************************************)
EXTENDS Reservations, FiniteSetTheorems, TLAPS

(* What row locks and the state lock keep true between the statements of a  *)
(* transaction: the activeCount an acquire has read is still the committed  *)
(* one, only one acquire holds the state row, and the rows a transaction    *)
(* has updated are open and its own.                                        *)
Locks ==
  /\ \A c \in Clients : HoldsState(c) => client[c].read = count
  /\ \A c, e \in Clients : HoldsState(c) /\ HoldsState(e) => c = e
  /\ \A c \in Clients : LockedBy(c) \subseteq Open
  /\ \A c, e \in Clients : LockedBy(c) \cap LockedBy(e) # {} => c = e

Inv == TypeOK /\ Locks /\ CountCoversOpenRows

-------------------------------------------------------------------------------
(* The local state a pc implies.                                            *)
LEMMA ClientShape ==
  ASSUME NEW x \in Client
  PROVE  /\ x.pc \in {"idle", "locking", "reaping", "deciding", "adopting", "working", "counting"}
         /\ x.pc \in {"locking", "reaping", "deciding"} => x.now \in Now /\ x.source \in Sources
         /\ x.pc \in {"reaping", "deciding"} => x.read \in 0..Limit
         /\ x.pc = "deciding" => x.reaped \subseteq Rows
         /\ x.pc = "adopting" => x.now \in Now /\ x.offer \in Offer
         /\ x.pc \in {"working", "counting"} =>
              x.row \in Rows /\ x = [pc |-> x.pc, row |-> x.row]
  BY DEF Client

(* Open rows are finitely many, whatever is closed.                         *)
LEMMA OpenFinite ==
  ASSUME TypeOK
  PROVE  /\ IsFiniteSet(Open) /\ Cardinality(Open) \in Nat
         /\ \A S \in SUBSET Open : IsFiniteSet(S) /\ Cardinality(S) \in Nat
                                   /\ Cardinality(S) <= Cardinality(Open)
                                   /\ Cardinality(Open \ S) = Cardinality(Open) - Cardinality(S)
<1>1. IsFiniteSet(Open)
  BY FS_Subset, ReservationsAssumption DEF Open
<1>2. ASSUME NEW S \in SUBSET Open
      PROVE  /\ IsFiniteSet(S) /\ Cardinality(S) \in Nat /\ Cardinality(S) <= Cardinality(Open)
             /\ Cardinality(Open \ S) = Cardinality(Open) - Cardinality(S)
  <2>1. IsFiniteSet(S) /\ Cardinality(S) <= Cardinality(Open)
    BY <1>1, FS_Subset
  <2>2. Cardinality(Open \ S) = Cardinality(Open) - Cardinality(Open \cap S)
    BY <1>1, FS_Difference
  <2>3. Open \cap S = S
    OBVIOUS
  <2> QED BY <2>1, <2>2, <2>3, FS_CardinalityType
<1> QED BY <1>1, <1>2, FS_CardinalityType

(* Initially no row is open, no lock is held and the counter is zero.       *)
THEOREM InitInv == Init => Inv
<1> SUFFICES ASSUME Init PROVE Inv
  OBVIOUS
<1>1. TypeOK
  BY ReservationsAssumption DEF Init, TypeOK, Client, Idle, Now
<1>2. Open = {}
  BY DEF Init, Open, NoRow
<1>3. Locks
  BY DEF Init, Locks, HoldsState, LockedBy, Idle
<1>4. CountCoversOpenRows
  BY <1>2, FS_EmptySet DEF Init, CountCoversOpenRows
<1> QED BY <1>1, <1>3, <1>4 DEF Inv

(* A record of one of the shapes is a client state.                         *)
LEMMA ClientMoves ==
  ASSUME TypeOK, NEW c \in Clients, NEW x \in Client, Become(c, x)
  PROVE  client' \in [Clients -> Client]
  BY DEF TypeOK, Become

(* Closing rows leaves every row a row.                                     *)
LEMMA ClosingKeepsTypes ==
  ASSUME TypeOK, NEW S
  PROVE  CloseRows(S) \in [Rows -> Row \cup {NoRow, Closed}]
  BY DEF TypeOK, CloseRows

(* activeCount after the reaping is the committed counter less the rows     *)
(* reaped, of which it covers every one.                                    *)
LEMMA ActiveCountIsExact ==
  ASSUME Inv, NEW c \in Clients, client[c].pc = "deciding"
  PROVE  /\ client[c].reaped \subseteq Open
         /\ Cardinality(client[c].reaped) \in Nat
         /\ ActiveCount(c) = count - Cardinality(client[c].reaped)
         /\ ActiveCount(c) \in 0..Limit
         /\ Cardinality(Open \ client[c].reaped) <= ActiveCount(c)
<1>1. client[c].reaped \subseteq Open /\ client[c].read = count
  BY DEF Inv, Locks, LockedBy, HoldsState
<1>2. /\ Cardinality(client[c].reaped) \in Nat /\ Cardinality(Open) \in Nat
      /\ Cardinality(client[c].reaped) <= Cardinality(Open)
      /\ Cardinality(Open \ client[c].reaped) = Cardinality(Open) - Cardinality(client[c].reaped)
  BY <1>1, OpenFinite DEF Inv
<1>3. count \in 0..Limit /\ Cardinality(Open) <= count
  BY DEF Inv, TypeOK, CountCoversOpenRows
<1> QED BY <1>1, <1>2, <1>3, ReservationsAssumption DEF ActiveCount, Less

(* Every action keeps the types; the counter stays within the limit because *)
(* an insert needs capacity.                                                *)
LEMMA TypeStep ==
  ASSUME Inv, Next
  PROVE  TypeOK'
<1> USE ReservationsAssumption
<1> TypeOK
  BY DEF Inv
<1>0. \A c \in Clients : client[c] \in Client
  BY DEF TypeOK
<1>1. ASSUME NEW c \in Clients, NEW s \in Sources, AcquireBegin(c, s) PROVE TypeOK'
  BY <1>1 DEF TypeOK, AcquireBegin, Become, Client
<1>2. ASSUME NEW c \in Clients, AcquireLock(c) PROVE TypeOK'
  BY <1>2 DEF TypeOK, AcquireLock, Become, Client
<1>3. ASSUME NEW c \in Clients, AcquireReap(c) PROVE TypeOK'
  <2>1. client[c].now \in Now /\ client[c].source \in Sources /\ client[c].read \in 0..Limit
    BY <1>0, <1>3, ClientShape DEF AcquireReap
  <2>2. Expired(client[c].now) \in SUBSET Rows
    BY DEF Expired, Open
  <2>3. client' \in [Clients -> Client]
    BY <1>3, <2>1, <2>2, ClientMoves DEF AcquireReap, Client
  <2> QED BY <1>3, <2>3 DEF TypeOK, AcquireReap
<1>4. ASSUME NEW c \in Clients, AcquireDuplicate(c) PROVE TypeOK'
  <2>1. client' \in [Clients -> Client]
    BY <1>4, ClientMoves DEF AcquireDuplicate, Active, Existing, Open, Client
  <2>2. rows' \in [Rows -> Row \cup {NoRow, Closed}]
    BY <1>4, ClosingKeepsTypes DEF AcquireDuplicate
  <2> QED BY <1>4, <2>1, <2>2 DEF TypeOK, AcquireDuplicate
<1>5. ASSUME NEW c \in Clients, AcquireFull(c) PROVE TypeOK'
  <2>1. client' \in [Clients -> Client]
    BY <1>5, ClientMoves DEF AcquireFull, Idle, Client
  <2>2. rows' \in [Rows -> Row \cup {NoRow, Closed}]
    BY <1>5, ClosingKeepsTypes DEF AcquireFull
  <2>3. count' \in 0..Limit
    BY <1>5, ActiveCountIsExact DEF AcquireFull
  <2> QED BY <1>5, <2>1, <2>2, <2>3 DEF TypeOK, AcquireFull
<1>6. ASSUME NEW c \in Clients, AcquireInsert(c) PROVE TypeOK'
  <2>1. PICK r \in Rows :
          /\ rows' = [CloseRows(client[c].reaped) EXCEPT ![r] =
               [status |-> "open", source |-> client[c].source, owner |-> Owner[c],
                created |-> client[c].now, expires |-> client[c].now + Lease]]
          /\ Become(c, [pc |-> "working", row |-> r])
    BY <1>6 DEF AcquireInsert
  <2>2. client[c].now \in Now /\ client[c].source \in Sources
    BY <1>0, <1>6, ClientShape DEF AcquireInsert
  <2>3. [status |-> "open", source |-> client[c].source, owner |-> Owner[c],
         created |-> client[c].now, expires |-> client[c].now + Lease] \in Row
    BY <2>2 DEF Row, Now, Time
  <2>4. rows' \in [Rows -> Row \cup {NoRow, Closed}]
    BY <2>1, <2>3, ClosingKeepsTypes
  <2>5. client' \in [Clients -> Client]
    BY <2>1, ClientMoves DEF Client
  <2>6. count' = ActiveCount(c) + 1 /\ ActiveCount(c) < Limit
    BY <1>6 DEF AcquireInsert, HasCapacity
  <2>7. ActiveCount(c) \in 0..Limit
    BY <1>6, ActiveCountIsExact DEF AcquireInsert
  <2>8. count' \in 0..Limit
    BY <2>6, <2>7
  <2> QED BY <1>6, <2>4, <2>5, <2>8 DEF TypeOK, AcquireInsert
<1>7. ASSUME NEW c \in Clients, Renew(c) PROVE TypeOK'
  <2>1. client[c].row \in Open /\ client[c].row \in Rows
    BY <1>7 DEF Renew, OwnsOpenRow, Open
  <2>2. rows[client[c].row] \in Row
    BY <2>1 DEF TypeOK, Open, NoRow, Closed
  <2>3. [rows[client[c].row] EXCEPT !.expires = clock + Lease] \in Row
    BY <2>2 DEF Row, TypeOK, Now, Time
  <2>4. rows' \in [Rows -> Row \cup {NoRow, Closed}]
    BY <1>7, <2>1, <2>3 DEF TypeOK, Renew
  <2> QED BY <1>7, <2>4 DEF TypeOK, Renew
<1>8. ASSUME NEW c \in Clients, HandOff(c) PROVE TypeOK'
  <2>1. client[c].row \in Rows
    BY <1>0, <1>8, ClientShape DEF HandOff
  <2>2. client' \in [Clients -> Client]
    BY <1>8, ClientMoves DEF HandOff, Idle, Client
  <2> QED BY <1>8, <2>1, <2>2 DEF TypeOK, HandOff, Offer
<1>9. ASSUME NEW c \in Clients, Adopt(c) PROVE TypeOK'
  <2> DEFINE r == client[c].offer.row
  <2>1. client[c].now \in Now /\ r \in Rows
    BY <1>0, <1>9, ClientShape DEF Adopt, Offer
  <2>2. rows[r] \in Row
    BY <1>9, <2>1 DEF TypeOK, Adopt, Adoptable, Open, NoRow, Closed
  <2> HIDE DEF r
  <2>t. client[c].now + Lease \in Time /\ Owner[c] \in Owners
    BY <2>1 DEF Now, Time
  <2>3. [rows[r] EXCEPT !.owner = Owner[c], !.expires = client[c].now + Lease] \in Row
    BY <2>t, <2>2 DEF Row
  <2>4. rows' = [rows EXCEPT ![r] = [rows[r] EXCEPT !.owner = Owner[c], !.expires = client[c].now + Lease]]
    BY <1>9, <2>1 DEF Adopt, TypeOK, r
  <2>5. rows' \in [Rows -> Row \cup {NoRow, Closed}]
    BY <2>1, <2>3, <2>4 DEF TypeOK
  <2>6. client' \in [Clients -> Client]
    BY <1>9, <2>1, ClientMoves DEF Adopt, Client, r
  <2> QED BY <1>9, <2>5, <2>6 DEF TypeOK, Adopt
<1>10. ASSUME NEW c \in Clients, AdoptMiss(c) PROVE TypeOK'
  BY <1>10, ClientMoves DEF TypeOK, AdoptMiss, Idle, Client
<1>11. ASSUME NEW c \in Clients, ReleaseRow(c) PROVE TypeOK'
  BY <1>11 DEF TypeOK, ReleaseRow, Become, Client
<1>12. ASSUME NEW c \in Clients, ReleaseMiss(c) PROVE TypeOK'
  BY <1>12, ClientMoves DEF TypeOK, ReleaseMiss, Idle, Client
<1>13. ASSUME NEW c \in Clients, ReleaseCount(c) PROVE TypeOK'
  <2>1. client' \in [Clients -> Client]
    BY <1>13, ClientMoves DEF ReleaseCount, Idle, Client
  <2>2. rows' \in [Rows -> Row \cup {NoRow, Closed}]
    BY <1>13, ClosingKeepsTypes DEF ReleaseCount
  <2>3. count' \in 0..Limit
    BY <1>13 DEF TypeOK, ReleaseCount, Less
  <2> QED BY <1>13, <2>1, <2>2, <2>3 DEF TypeOK, ReleaseCount
<1>14. ASSUME NEW c \in Clients, Fail(c) PROVE TypeOK'
  BY <1>14, ClientMoves DEF TypeOK, Fail, Idle, Client
<1>15. ASSUME NEW c \in Clients, NEW o \in offers, AdoptBegin(c, o) PROVE TypeOK'
  BY <1>15 DEF TypeOK, AdoptBegin, Become, Client
<1>16. ASSUME NEW r \in Rows, PurgeExpired(r) PROVE TypeOK'
  BY <1>16, ClosingKeepsTypes DEF TypeOK, PurgeExpired
<1>17. ASSUME Tick PROVE TypeOK'
  BY <1>17 DEF TypeOK, Tick, Now
<1> QED BY <1>1, <1>2, <1>3, <1>4, <1>5, <1>6, <1>7, <1>8, <1>9, <1>10, <1>11, <1>12, <1>13, <1>14, <1>15, <1>16, <1>17 DEF Next, ClientStep

-------------------------------------------------------------------------------
(* After closing a set of rows the open ones are the others.                *)
LEMMA ClosingOpen ==
  ASSUME NEW S, rows' = CloseRows(S)
  PROVE  Open' = Open \ S
  BY DEF CloseRows, Open, Closed

(* Writing the owner and the deadline of an open row leaves it open.        *)
LEMMA StatusUntouched ==
  ASSUME Inv, NEW r \in Open, NEW o, NEW t,
         \/ rows' = [rows EXCEPT ![r].expires = t]
         \/ rows' = [rows EXCEPT ![r].owner = o, ![r].expires = t]
  PROVE  Open' = Open
<1>1. r \in Rows /\ rows[r] \in Row
  BY DEF Open, Inv, TypeOK, NoRow, Closed
<1>2. rows'[r].status = rows[r].status
  BY <1>1 DEF Row, Inv, TypeOK
<1>3. \A q \in Rows : q # r => rows'[q] = rows[q]
  BY <1>1 DEF Inv, TypeOK
<1> QED BY <1>1, <1>2, <1>3 DEF Open

(* A step of client c keeps the locks, if c does not take the state row or  *)
(* rows of another, nobody's rows are closed, and nobody who has read the   *)
(* counter sees it change.                                                  *)
LEMMA LocksMove ==
  ASSUME Inv, TypeOK', NEW c \in Clients, NEW x, Become(c, x),
         \A e \in Clients \ {c} : HoldsState(e) => count' = count /\ ~HoldsState(c)',
         HoldsState(c)' => client'[c].read = count',
         LockedBy(c)' \subseteq Open',
         \A e \in Clients \ {c} : LockedBy(e) \subseteq Open' /\ LockedBy(e) \cap LockedBy(c)' = {}
  PROVE  Locks'
<1>1. \A e \in Clients \ {c} : client'[e] = client[e]
  BY DEF Inv, TypeOK, Become
<1>2. \A e \in Clients \ {c} : LockedBy(e)' = LockedBy(e) /\ (HoldsState(e)' <=> HoldsState(e))
  BY <1>1 DEF LockedBy, HoldsState
<1>3. \A e \in Clients : HoldsState(e)' => client'[e].read = count'
  BY <1>1, <1>2 DEF Inv, Locks
<1>4. \A d, e \in Clients : HoldsState(d)' /\ HoldsState(e)' => d = e
  BY <1>2 DEF Inv, Locks
<1>5. \A e \in Clients : LockedBy(e)' \subseteq Open'
  BY <1>2
<1>6. \A d, e \in Clients : (LockedBy(d) \cap LockedBy(e))' # {} => d = e
  <2> SUFFICES ASSUME NEW d \in Clients, NEW e \in Clients, d # e
               PROVE  LockedBy(d)' \cap LockedBy(e)' = {}
    OBVIOUS
  <2>1. CASE d = c
    BY <2>1, <1>2
  <2>2. CASE e = c
    BY <2>2, <1>2
  <2>3. CASE d # c /\ e # c
    BY <2>3, <1>2 DEF Inv, Locks
  <2> QED BY <2>1, <2>2, <2>3
<1> QED BY <1>3, <1>4, <1>5, <1>6 DEF Locks

(* The common case: c ends with no lock, and only rows it had locked close. *)
LEMMA LocksDrop ==
  ASSUME Inv, TypeOK', NEW c \in Clients, NEW x, Become(c, x),
         x.pc \in {"idle", "locking", "adopting", "working"},
         \A e \in Clients \ {c} : HoldsState(e) => count' = count,
         Open \ LockedBy(c) \subseteq Open'
  PROVE  Locks'
<1>1. client'[c] = x
  BY DEF Inv, TypeOK, Become
<1>2. ~HoldsState(c)' /\ LockedBy(c)' = {}
  BY <1>1 DEF HoldsState, LockedBy
<1>3. \A e \in Clients \ {c} : LockedBy(e) \subseteq Open /\ LockedBy(e) \cap LockedBy(c) = {}
  BY DEF Inv, Locks
<1>4. \A e \in Clients \ {c} : LockedBy(e) \subseteq Open'
  BY <1>3
<1> QED BY <1>2, <1>4, LocksMove

(* Every step keeps the locking discipline: the state row has one holder,   *)
(* who read the committed counter, and locked rows are open and locked      *)
(* once.                                                                    *)
LEMMA LocksStep ==
  ASSUME Inv, Next
  PROVE  Locks'
<1> TypeOK'
  BY TypeStep
<1> USE DEF Idle
<1>1. ASSUME NEW c \in Clients, NEW s \in Sources, AcquireBegin(c, s) PROVE Locks'
  BY <1>1, LocksDrop DEF AcquireBegin, Open
<1>2. ASSUME NEW c \in Clients, AcquireLock(c) PROVE Locks'
  <2>1. client'[c] = [pc |-> "reaping", now |-> client[c].now, source |-> client[c].source, read |-> count]
    BY <1>2 DEF AcquireLock, Become, Inv, TypeOK
  <2>2. LockedBy(c)' = {} /\ client'[c].read = count' /\ Open' = Open
    BY <1>2, <2>1 DEF LockedBy, AcquireLock, Open
  <2>3. \A e \in Clients : ~HoldsState(e) /\ LockedBy(e) \subseteq Open
    BY <1>2 DEF AcquireLock, StateFree, Inv, Locks
  <2> QED BY <1>2, <2>2, <2>3, LocksMove DEF AcquireLock
<1>3. ASSUME NEW c \in Clients, AcquireReap(c) PROVE Locks'
  <2>1. client'[c] = [pc |-> "deciding", now |-> client[c].now, source |-> client[c].source,
                      read |-> client[c].read, reaped |-> Expired(client[c].now)]
    BY <1>3 DEF AcquireReap, Become, Inv, TypeOK
  <2>2. HoldsState(c) /\ client[c].read = count
    BY <1>3 DEF AcquireReap, HoldsState, Inv, Locks
  <2>3. LockedBy(c)' = Expired(client[c].now) /\ client'[c].read = count' /\ Open' = Open
    BY <1>3, <2>1, <2>2 DEF LockedBy, AcquireReap, Open
  <2>4. \A e \in Clients \ {c} : ~HoldsState(e) /\ LockedBy(e) \subseteq Open
    BY <2>2 DEF Inv, Locks
  <2>5. \A e \in Clients : LockedBy(e) \cap Expired(client[c].now) = {}
    BY <1>3 DEF AcquireReap, Unlocked
  <2>6. Expired(client[c].now) \subseteq Open
    BY DEF Expired
  <2> QED BY <1>3, <2>3, <2>4, <2>5, <2>6, LocksMove DEF AcquireReap
<1>4. ASSUME NEW c \in Clients, AcquireDuplicate(c) PROVE Locks'
  <2>1. LockedBy(c) = client[c].reaped /\ Open' = Open \ client[c].reaped
    BY <1>4, ClosingOpen DEF AcquireDuplicate, LockedBy
  <2> QED BY <1>4, <2>1, LocksDrop DEF AcquireDuplicate
<1>5. ASSUME NEW c \in Clients, AcquireFull(c) PROVE Locks'
  <2>1. LockedBy(c) = client[c].reaped /\ Open' = Open \ client[c].reaped
    BY <1>5, ClosingOpen DEF AcquireFull, LockedBy
  <2>2. \A e \in Clients \ {c} : ~HoldsState(e)
    BY <1>5 DEF AcquireFull, HoldsState, Inv, Locks
  <2> QED BY <1>5, <2>1, <2>2, LocksDrop DEF AcquireFull
<1>6. ASSUME NEW c \in Clients, AcquireInsert(c) PROVE Locks'
  <2>1. LockedBy(c) = client[c].reaped
    BY <1>6 DEF AcquireInsert, LockedBy
  <2>2. Open \ client[c].reaped \subseteq Open'
    BY <1>6 DEF AcquireInsert, CloseRows, Open, Inv, TypeOK
  <2>3. \A e \in Clients \ {c} : ~HoldsState(e)
    BY <1>6 DEF AcquireInsert, HoldsState, Inv, Locks
  <2> QED BY <1>6, <2>1, <2>2, <2>3, LocksDrop DEF AcquireInsert
<1>7. ASSUME NEW c \in Clients, Renew(c) PROVE Locks'
  <2>1. Open' = Open
    BY <1>7, StatusUntouched DEF Renew, OwnsOpenRow, Open, Inv, TypeOK
  <2> QED BY <1>7, <2>1 DEF Renew, Inv, Locks, HoldsState, LockedBy
<1>8. ASSUME NEW c \in Clients, HandOff(c) PROVE Locks'
  BY <1>8, LocksDrop DEF HandOff, Open
<1>9. ASSUME NEW c \in Clients, Adopt(c) PROVE Locks'
  <2>1. Open' = Open
    BY <1>9, StatusUntouched DEF Adopt, Adoptable, Open, Inv, TypeOK
  <2> QED BY <1>9, <2>1, LocksDrop DEF Adopt
<1>10. ASSUME NEW c \in Clients, AdoptMiss(c) PROVE Locks'
  BY <1>10, LocksDrop DEF AdoptMiss, Open
<1>11. ASSUME NEW c \in Clients, ReleaseRow(c) PROVE Locks'
  <2>0. client[c] = [pc |-> "working", row |-> client[c].row]
    BY <1>11, ClientShape DEF ReleaseRow, Inv, TypeOK
  <2>a. [client[c] EXCEPT !.pc = "counting"] = [pc |-> "counting", row |-> client[c].row]
    BY <2>0
  <2>1. client'[c].pc = "counting" /\ client'[c].row = client[c].row
    BY <1>11, <2>a DEF ReleaseRow, Become, Inv, TypeOK
  <2>2. LockedBy(c)' = {client[c].row} /\ ~HoldsState(c)' /\ Open' = Open
    BY <1>11, <2>1 DEF LockedBy, HoldsState, ReleaseRow, Open
  <2>3. client[c].row \in Open /\ \A e \in Clients : client[c].row \notin LockedBy(e)
    BY <1>11 DEF ReleaseRow, OwnsOpenRow, Unlocked
  <2>4. \A e \in Clients : LockedBy(e) \subseteq Open
    BY DEF Inv, Locks
  <2> QED BY <1>11, <2>2, <2>3, <2>4, LocksMove DEF ReleaseRow
<1>12. ASSUME NEW c \in Clients, ReleaseMiss(c) PROVE Locks'
  BY <1>12, LocksDrop DEF ReleaseMiss, Open
<1>13. ASSUME NEW c \in Clients, ReleaseCount(c) PROVE Locks'
  <2>1. LockedBy(c) = {client[c].row} /\ Open' = Open \ {client[c].row}
    BY <1>13, ClosingOpen DEF ReleaseCount, LockedBy
  <2>2. \A e \in Clients : ~HoldsState(e)
    BY <1>13 DEF ReleaseCount, StateFree
  <2> QED BY <1>13, <2>1, <2>2, LocksDrop DEF ReleaseCount
<1>14. ASSUME NEW c \in Clients, Fail(c) PROVE Locks'
  BY <1>14, LocksDrop DEF Fail, Open
<1>15. ASSUME NEW c \in Clients, NEW o \in offers, AdoptBegin(c, o) PROVE Locks'
  BY <1>15, LocksDrop DEF AdoptBegin, Open
<1>16. ASSUME NEW r \in Rows, PurgeExpired(r) PROVE Locks'
  <2>1. Open' = Open \ {r}
    BY <1>16, ClosingOpen DEF PurgeExpired
  <2>2. \A e \in Clients : r \notin LockedBy(e)
    BY <1>16 DEF PurgeExpired, Unlocked
  <2> QED BY <1>16, <2>1, <2>2 DEF PurgeExpired, Inv, Locks, HoldsState, LockedBy
<1>17. ASSUME Tick PROVE Locks'
  BY <1>17 DEF Tick, Inv, Locks, HoldsState, LockedBy, Open
<1> QED BY <1>1, <1>2, <1>3, <1>4, <1>5, <1>6, <1>7, <1>8, <1>9, <1>10, <1>11, <1>12, <1>13, <1>14, <1>15, <1>16, <1>17 DEF Next, ClientStep

(* Only a commit changes the open rows or the counter: a duplicate closes   *)
(* without counting, the other two ends of acquire set the counter to at    *)
(* least the rows left, and a release takes one from each.                  *)
LEMMA CountStep ==
  ASSUME Inv, Next
  PROVE  CountCoversOpenRows'
<1>0. /\ Cardinality(Open) \in Nat /\ count \in Nat /\ Cardinality(Open) <= count
      /\ \A S \in SUBSET Open : Cardinality(S) \in Nat /\ Cardinality(S) <= Cardinality(Open)
      /\ IsFiniteSet(Open)
  <2>1. TypeOK /\ Cardinality(Open) <= count
    BY DEF Inv, CountCoversOpenRows
  <2>2. count \in Nat
    BY <2>1, ReservationsAssumption DEF TypeOK
  <2> QED BY <2>1, <2>2, OpenFinite
<1>1. ASSUME Open' \subseteq Open, count' = count PROVE CountCoversOpenRows'
  <2>1. Cardinality(Open') \in Nat /\ Cardinality(Open') <= Cardinality(Open)
    BY <1>0, <1>1
  <2>2. CountCoversOpenRows' <=> Cardinality(Open') <= count'
    BY DEF CountCoversOpenRows
  <2> QED BY <1>0, <1>1, <2>1, <2>2
<1>2. ASSUME NEW c \in Clients, AcquireDuplicate(c) PROVE CountCoversOpenRows'
  BY <1>1, <1>2, ClosingOpen DEF AcquireDuplicate
<1>3. ASSUME NEW c \in Clients, AcquireFull(c) PROVE CountCoversOpenRows'
  <2>1. Open' = Open \ client[c].reaped
    BY <1>3, ClosingOpen DEF AcquireFull
  <2> QED BY <1>3, <2>1, ActiveCountIsExact DEF AcquireFull, CountCoversOpenRows
<1>4. ASSUME NEW c \in Clients, AcquireInsert(c) PROVE CountCoversOpenRows'
  <2> DEFINE left == Open \ client[c].reaped
  <2>1. PICK r \in Rows : Open' = left \cup {r} /\ r \notin left
    BY <1>4 DEF AcquireInsert, CloseRows, Open, Inv, TypeOK, NoRow, Closed
  <2>2. IsFiniteSet(left) /\ Cardinality(left) \in Nat
    BY <1>0, FS_Subset, FS_CardinalityType
  <2>3. Cardinality(left \cup {r}) = Cardinality(left) + 1
    BY <2>1, <2>2, FS_AddElement
  <2>4. Cardinality(left) <= ActiveCount(c) /\ ActiveCount(c) \in 0..Limit
    BY <1>4, ActiveCountIsExact DEF AcquireInsert
  <2>5. count' = ActiveCount(c) + 1
    BY <1>4 DEF AcquireInsert
  <2> HIDE DEF left
  <2>6. Cardinality(left \cup {r}) <= ActiveCount(c) + 1
    BY <2>2, <2>3, <2>4
  <2> QED BY <2>1, <2>5, <2>6 DEF CountCoversOpenRows
<1>5. ASSUME NEW c \in Clients, ReleaseCount(c) PROVE CountCoversOpenRows'
  <2>1. client[c].row \in Open
    BY <1>5 DEF ReleaseCount, Inv, Locks, LockedBy
  <2>2. Cardinality(Open \ {client[c].row}) = Cardinality(Open) - 1
    BY <2>1, <1>0, FS_RemoveElement
  <2>3. Open' = Open \ {client[c].row} /\ count' = Less(count, 1)
    BY <1>5, ClosingOpen DEF ReleaseCount
  <2>4. Cardinality(Open) - 1 <= Less(count, 1)
    BY <1>0 DEF Less
  <2> QED BY <2>2, <2>3, <2>4 DEF CountCoversOpenRows
<1>6. ASSUME NEW c \in Clients, Renew(c) \/ Adopt(c) PROVE CountCoversOpenRows'
  <2>1. Open' = Open
    BY <1>6 DEF Renew, OwnsOpenRow, Adopt, Adoptable, Open, Inv, TypeOK, Row, NoRow, Closed
  <2> QED BY <1>1, <1>6, <2>1 DEF Renew, Adopt
<1>7. ASSUME NEW r \in Rows, PurgeExpired(r) PROVE CountCoversOpenRows'
  BY <1>1, <1>7, ClosingOpen DEF PurgeExpired
<1>8. ASSUME rows' = rows, count' = count PROVE CountCoversOpenRows'
  BY <1>1, <1>8 DEF Open
<1> QED BY <1>2, <1>3, <1>4, <1>5, <1>6, <1>7, <1>8
        DEF Next, ClientStep, AcquireBegin, AcquireLock, AcquireReap, HandOff, AdoptBegin,
            AdoptMiss, ReleaseRow, ReleaseMiss, Fail, Tick

(* The inductive invariant of the admission proofs.                         *)
THEOREM InvCorrect == Spec => []Inv
<1>1. Inv /\ UNCHANGED vars => Inv'
  BY DEF Inv, TypeOK, Locks, HoldsState, LockedBy, CountCoversOpenRows, Open, vars
<1>2. Inv /\ Next => Inv'
  BY TypeStep, LocksStep, CountStep DEF Inv
<1> QED BY InitInv, <1>1, <1>2, PTL DEF Spec

(* The types hold, the counter's bounds among them: it never exceeds the    *)
(* limit.                                                                   *)
THEOREM TypeCorrect == Spec => []TypeOK
<1>1. Inv => TypeOK
  BY DEF Inv
<1> QED BY <1>1, InvCorrect, PTL

(* The counter acquire decides by covers every open reservation, whatever   *)
(* interleaves, is lost or is aborted.                                      *)
THEOREM CountCorrect == Spec => []CountCoversOpenRows
<1>1. Inv => CountCoversOpenRows
  BY DEF Inv
<1> QED BY <1>1, InvCorrect, PTL

(* Admission control: never more open reservations than the limit.          *)
THEOREM AdmissionCorrect == Spec => []OpenWithinLimit
<1>1. Inv => OpenWithinLimit
  BY OpenFinite, ReservationsAssumption DEF Inv, TypeOK, CountCoversOpenRows, OpenWithinLimit
<1> QED BY <1>1, InvCorrect, PTL

-------------------------------------------------------------------------------
(* What a row lock protects: the rows a transaction reaps have expired, the *)
(* row it releases is its client's own.                                     *)
Held ==
  /\ \A c \in Clients : client[c].pc \in {"locking", "reaping", "deciding"} => client[c].now <= clock
  /\ \A c \in Clients : client[c].pc = "deciding" =>
       \A r \in client[c].reaped : rows[r].expires <= client[c].now
  /\ \A c \in Clients : client[c].pc = "counting" => rows[client[c].row].owner = Owner[c]

(* A row locked by another client keeps its contents, and no client's       *)
(* capture of the time lies ahead of the clock.                             *)
LEMMA HeldMove ==
  ASSUME Inv, Held, NEW c \in Clients, NEW x, Become(c, x), clock' = clock,
         \A e \in Clients \ {c} : \A r \in LockedBy(e) : rows'[r] = rows[r],
         x.pc \in {"locking", "reaping", "deciding"} => x.now <= clock,
         x.pc = "deciding" => \A r \in x.reaped : rows'[r].expires <= x.now,
         x.pc = "counting" => rows'[x.row].owner = Owner[c]
  PROVE  Held'
<1>1. client'[c] = x /\ \A e \in Clients \ {c} : client'[e] = client[e]
  BY DEF Inv, TypeOK, Become
<1> QED BY <1>1 DEF Held, LockedBy

(* Every step keeps Held.                                                   *)
LEMMA HeldStep ==
  ASSUME Inv, Held, Next
  PROVE  Held'
<1>0. \A c \in Clients : client[c] \in Client
  BY DEF Inv, TypeOK
<1>d. \A d, e \in Clients : d # e => LockedBy(d) \cap LockedBy(e) = {}
  BY DEF Inv, Locks
<1> USE DEF Idle
<1>1. ASSUME NEW c \in Clients, NEW s \in Sources, AcquireBegin(c, s) PROVE Held'
  BY <1>1, HeldMove DEF AcquireBegin, Inv, TypeOK, Now
<1>2. ASSUME NEW c \in Clients, AcquireLock(c) PROVE Held'
  BY <1>2, HeldMove DEF AcquireLock, Held
<1>3. ASSUME NEW c \in Clients, AcquireReap(c) PROVE Held'
  BY <1>3, HeldMove DEF AcquireReap, Held, Expired
<1>4. ASSUME NEW c \in Clients, AcquireDuplicate(c) PROVE Held'
  <2>1. \A e \in Clients \ {c} : \A r \in LockedBy(e) : rows'[r] = rows[r]
    BY <1>4, <1>d DEF AcquireDuplicate, CloseRows, LockedBy, Inv, Locks, Open
  <2> QED BY <1>4, <2>1, HeldMove DEF AcquireDuplicate
<1>5. ASSUME NEW c \in Clients, AcquireFull(c) PROVE Held'
  <2>1. \A e \in Clients \ {c} : \A r \in LockedBy(e) : rows'[r] = rows[r]
    BY <1>5, <1>d DEF AcquireFull, CloseRows, LockedBy, Inv, Locks, Open
  <2> QED BY <1>5, <2>1, HeldMove DEF AcquireFull
<1>6. ASSUME NEW c \in Clients, AcquireInsert(c) PROVE Held'
  <2>1. PICK q \in Rows :
          /\ rows[q] = NoRow
          /\ rows' = [CloseRows(client[c].reaped) EXCEPT ![q] =
               [status |-> "open", source |-> client[c].source, owner |-> Owner[c],
                created |-> client[c].now, expires |-> client[c].now + Lease]]
          /\ Become(c, [pc |-> "working", row |-> q])
    BY <1>6 DEF AcquireInsert
  <2>2. q \notin Open
    BY <2>1 DEF NoRow, Open
  <2>3. ASSUME NEW e \in Clients \ {c}, NEW r \in LockedBy(e) PROVE rows'[r] = rows[r]
    <3>1. r \in Open /\ r \in Rows /\ r # q
      BY <2>2 DEF Inv, Locks, Open
    <3>2. r \notin client[c].reaped
      BY <1>6, <1>d DEF AcquireInsert, LockedBy
    <3> QED BY <2>1, <3>1, <3>2 DEF CloseRows
  <2> QED BY <1>6, <2>1, <2>3, HeldMove DEF AcquireInsert
<1>7. ASSUME NEW c \in Clients, Renew(c) PROVE Held'
  <2>1. \A e \in Clients : \A r \in LockedBy(e) : r # client[c].row /\ r \in Rows
    BY <1>7 DEF Renew, Unlocked, Inv, Locks, Open
  <2>2. \A e \in Clients : \A r \in LockedBy(e) : rows'[r] = rows[r]
    BY <1>7, <2>1 DEF Renew, Inv, TypeOK
  <2> QED BY <1>7, <2>2 DEF Renew, Held, LockedBy
<1>8. ASSUME NEW c \in Clients, HandOff(c) PROVE Held'
  BY <1>8, HeldMove DEF HandOff
<1>9. ASSUME NEW c \in Clients, Adopt(c) PROVE Held'
  <2>1. \A e \in Clients : \A r \in LockedBy(e) : r # client[c].offer.row /\ r \in Rows
    BY <1>9 DEF Adopt, Unlocked, Inv, Locks, Open
  <2>2. \A e \in Clients : \A r \in LockedBy(e) : rows'[r] = rows[r]
    BY <1>9, <2>1 DEF Adopt, Inv, TypeOK
  <2> QED BY <1>9, <2>2, HeldMove DEF Adopt
<1>10. ASSUME NEW c \in Clients, AdoptMiss(c) PROVE Held'
  BY <1>10, HeldMove DEF AdoptMiss
<1>11. ASSUME NEW c \in Clients, ReleaseRow(c) PROVE Held'
  <2>1. client[c] = [pc |-> "working", row |-> client[c].row]
    BY <1>0, <1>11, ClientShape DEF ReleaseRow
  <2>a. [client[c] EXCEPT !.pc = "counting"] = [pc |-> "counting", row |-> client[c].row]
    BY <2>1
  <2>2. Become(c, [pc |-> "counting", row |-> client[c].row])
    BY <1>11, <2>a DEF ReleaseRow
  <2> QED BY <1>11, <2>2, HeldMove DEF ReleaseRow, OwnsOpenRow
<1>12. ASSUME NEW c \in Clients, ReleaseMiss(c) PROVE Held'
  BY <1>12, HeldMove DEF ReleaseMiss
<1>13. ASSUME NEW c \in Clients, ReleaseCount(c) PROVE Held'
  <2>1. \A e \in Clients \ {c} : \A r \in LockedBy(e) : rows'[r] = rows[r]
    BY <1>13, <1>d DEF ReleaseCount, CloseRows, LockedBy, Inv, Locks, Open
  <2> QED BY <1>13, <2>1, HeldMove DEF ReleaseCount
<1>14. ASSUME NEW c \in Clients, Fail(c) PROVE Held'
  BY <1>14, HeldMove DEF Fail
<1>15. ASSUME NEW c \in Clients, NEW o \in offers, AdoptBegin(c, o) PROVE Held'
  BY <1>15, HeldMove DEF AdoptBegin
<1>16. ASSUME NEW r \in Rows, PurgeExpired(r) PROVE Held'
  <2>1. \A e \in Clients : \A q \in LockedBy(e) : q # r /\ q \in Rows
    BY <1>16 DEF PurgeExpired, Unlocked, Inv, Locks, Open
  <2>2. \A e \in Clients : \A q \in LockedBy(e) : rows'[q] = rows[q]
    BY <1>16, <2>1 DEF PurgeExpired, CloseRows
  <2> QED BY <1>16, <2>2 DEF PurgeExpired, Held, LockedBy
<1>17. ASSUME Tick PROVE Held'
  <2>1. \A c \in Clients : client[c].pc \in {"locking", "reaping", "deciding"} => client[c].now \in Nat
    BY <1>0, ClientShape, ReservationsAssumption DEF Now
  <2> QED BY <1>17, <2>1, ReservationsAssumption DEF Tick, Held, Inv, TypeOK, Now
<1> QED BY <1>1, <1>2, <1>3, <1>4, <1>5, <1>6, <1>7, <1>8, <1>9, <1>10, <1>11, <1>12, <1>13, <1>14, <1>15, <1>16, <1>17 DEF Next, ClientStep

(* A transaction reaps only rows whose lease has run out, and counts down   *)
(* only rows it owns, however old the `now` it captured is.                 *)
THEOREM HeldCorrect == Spec => []Held
<1>1. Init => Held
  BY DEF Init, Held, Idle
<1>2. Held /\ UNCHANGED vars => Held'
  BY DEF Held, vars
<1>3. Inv /\ Held /\ Next => Held'
  BY HeldStep
<1> QED BY <1>1, <1>2, <1>3, InvCorrect, PTL DEF Spec

(* Which rows a step closes, and on whose behalf.                           *)
LEMMA ClosedRows ==
  ASSUME Inv, Held, Next, NEW r \in Open, rows'[r] = Closed
  PROVE  \/ rows[r].expires <= clock
         \/ \E c \in Clients : client[c] = [pc |-> "counting", row |-> r] /\ rows[r].owner = Owner[c]
<1>0. /\ r \in Rows /\ rows[r] # Closed /\ rows[r] \in Row
      /\ \A c \in Clients : client[c] \in Client
  BY DEF Open, Inv, TypeOK, NoRow, Closed
<1>1. ASSUME rows' = rows PROVE FALSE
  BY <1>0, <1>1
<1>2. ASSUME NEW c \in Clients, client[c].pc = "deciding", r \in client[c].reaped
      PROVE  rows[r].expires <= clock
  <2>1. rows[r].expires <= client[c].now /\ client[c].now <= clock
    BY <1>2 DEF Held
  <2>2. client[c].now \in Nat /\ rows[r].expires \in Nat /\ clock \in Nat
    BY <1>0, <1>2, ClientShape, ReservationsAssumption DEF Now, Time, Row, Inv, TypeOK
  <2> QED BY <2>1, <2>2
<1>3. ASSUME NEW c \in Clients, AcquireDuplicate(c) \/ AcquireFull(c) PROVE rows[r].expires <= clock
  BY <1>0, <1>2, <1>3 DEF AcquireDuplicate, AcquireFull, CloseRows
<1>4. ASSUME NEW c \in Clients, AcquireInsert(c) PROVE rows[r].expires <= clock
  <2>1. r \in client[c].reaped
    BY <1>0, <1>4 DEF AcquireInsert, CloseRows, Closed
  <2> QED BY <1>2, <1>4, <2>1 DEF AcquireInsert
<1>5. ASSUME NEW c \in Clients, Renew(c) \/ Adopt(c) PROVE FALSE
  BY <1>0, <1>5 DEF Renew, Adopt, Inv, TypeOK, Row, Closed
<1>6. ASSUME NEW c \in Clients, ReleaseCount(c)
      PROVE  client[c] = [pc |-> "counting", row |-> r] /\ rows[r].owner = Owner[c]
  BY <1>0, <1>6, ClientShape DEF ReleaseCount, CloseRows, Held
<1>7. ASSUME NEW q \in Rows, PurgeExpired(q) PROVE rows[r].expires <= clock
  <2>1. q = r
    BY <1>0, <1>7 DEF PurgeExpired, CloseRows
  <2>2. rows[r].expires \in Nat /\ clock \in Nat
    BY <1>0, ReservationsAssumption DEF Now, Time, Row, Inv, TypeOK
  <2> QED BY <1>7, <2>1, <2>2 DEF PurgeExpired
<1> QED BY <1>1, <1>3, <1>4, <1>5, <1>6, <1>7
        DEF Next, ClientStep, AcquireBegin, AcquireLock, AcquireReap, HandOff, AdoptBegin,
            AdoptMiss, ReleaseRow, ReleaseMiss, Fail, Tick

(* A live reservation is closed by its owner's release only: what acquire   *)
(* reaps and retention purges has expired.                                  *)
THEOREM OwnersCorrect == Spec => OnlyOwnersCloseLiveRows
<1>1. Inv /\ Held /\ [Next]_vars =>
        [\A r \in Open : rows'[r] = Closed =>
           \/ rows[r].expires <= clock
           \/ \E c \in Clients : client[c] = [pc |-> "counting", row |-> r] /\ rows[r].owner = Owner[c]
        ]_vars
  BY ClosedRows
<1> QED BY <1>1, InvCorrect, HeldCorrect, PTL DEF Spec, OnlyOwnersCloseLiveRows
===============================================================================
