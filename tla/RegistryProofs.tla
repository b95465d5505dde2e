--------------------------- MODULE RegistryProofs ---------------------------
(***************************************************************************)
(* The two registries that the connections of a process share.             *)
(*                                                                         *)
(* First the named locks: the registry agrees with what the clients were   *)
(* told, until one of them sets its pseudo_thread_id, for every number of  *)
(* connections, names, timeouts, pseudo ids and every hold limit.          *)
(*                                                                         *)
(* Then the list of open handles and the walk of SHOW PROCESSLIST, for any *)
(* finite set of handles and any number of opens and statements.  At is a  *)
(* recursive function, so the proof goes by way of a chain: a sequence of  *)
(* different handles that the next pointers join, from the head to NULL.   *)
(* A chain is what At, Positions and Registered show (ChainAt, by the      *)
(* least position where they would differ), and each operation on the list *)
(* turns one chain into another.                                           *)
(***************************************************************************)
EXTENDS NamedLocks, ProcessList, FiniteSetTheorems, TLAPS

(* The inductive invariant: agreement needs that ids identify connections. *)
LocksInv == TypeOK /\ (~renamed => IdsDistinct /\ GrantsMatchRegistry)

(* The sleep of one turn of the GET_LOCK() loop is a natural number, and so *)
(* is the time slept so far.                                               *)
LEMMA WaitTypes ==
    ASSUME NEW t \in Timeout \cup {0}, NEW w \in Nat
    PROVE  /\ SleepMs(t, w) \in Nat
           /\ \A slept \in SleptMs(SleepMs(t, w)) : WaitedAfter(t, w, slept) \in Nat
<1>1. t \in Int /\ MsPerSecond \in Nat /\ Slice \in Nat /\ MaxTimeoutMs \in Nat
  BY NamedLocksAssumption
<1>2. TimeoutMs(t) \in Int
  BY <1>1 DEF TimeoutMs
<1>3. SleepMs(t, w) \in Nat
  BY <1>1, <1>2 DEF SleepMs
<1> QED
  BY <1>1, <1>3 DEF SleptMs, WaitedAfter

(* NoWait is a value of the type of wait[c].                               *)
LEMMA NoWaitType == NoWait \in [name : Name, timeout : Timeout \cup {0}, waited : Nat]
  BY NamedLocksAssumption, Zenon DEF NoWait

(* The return values of the registry calls differ from each other.         *)
LEMMA ResultsDiffer == Got # Busy /\ Got # NoMem /\ Busy # NoMem /\ Got # Absent /\ Busy # Absent
<1>1. Got.value # Busy.value /\ Got.ok # NoMem.ok /\ Busy.ok # NoMem.ok /\ Got.null # Absent.null
      /\ Busy.null # Absent.null
  BY DEF Got, Busy, NoMem, Absent
<1> QED
  BY <1>1, Zenon

(* Initially nothing is held.                                              *)
LEMMA InitInv == LocksInit => LocksInv
<1> SUFFICES ASSUME LocksInit PROVE LocksInv
  BY Zenon
<1> USE DEF LocksInit, InitRegistry
<1>1. TypeOK
  <2>1. /\ owner \in [Name -> Nat \cup {NoOwner}] /\ hold \in [Name -> 0 .. MaxHold]
        /\ \A n \in Name : (hold[n] = 0) <=> (owner[n] = NoOwner)
        /\ granted \in [Conn -> [Name -> 0 .. MaxHold]]
    BY MaxHoldAssumption DEF NoOwner
  <2>2. renamed \in BOOLEAN
    BY Zenon
  <2> QED
    BY <2>1, <2>2, NoWaitType DEF TypeOK
<1>2. IdsDistinct
  BY DEF IdsDistinct
<1>3. GrantsMatchRegistry
  BY Zenon DEF GrantsMatchRegistry
<1> QED
  BY <1>1, <1>2, <1>3, Zenon DEF LocksInv

(* What an attempt does to the registry: a new entry, one more hold of the *)
(* caller's entry, or nothing and then no success is reported.             *)
LEMMA TryGetEffect ==
    ASSUME NEW id, NEW n \in Name, NEW r, TryGet(id, n, r)
    PROVE  \/ /\ r = Got /\ hold[n] = 0
              /\ owner' = [owner EXCEPT ![n] = id] /\ hold' = [hold EXCEPT ![n] = 1]
           \/ /\ r = Got /\ hold[n] \in 1 .. MaxHold - 1 /\ owner[n] = id
              /\ owner' = owner /\ hold' = [hold EXCEPT ![n] = @ + 1]
           \/ r \in {Busy, NoMem} /\ owner' = owner /\ hold' = hold
  BY Zenon DEF TryGet, registryVars

(* What a release does: one hold less of the caller's entry, or nothing.   *)
LEMMA ReleaseEffect ==
    ASSUME NEW id, NEW n \in Name, NEW r, Release(id, n, r)
    PROVE  \/ /\ r = Got /\ hold[n] # 0 /\ owner[n] = id
              /\ hold' = [hold EXCEPT ![n] = hold[n] - 1]
              /\ owner' = [owner EXCEPT ![n] = IF hold[n] = 1 THEN NoOwner ELSE owner[n]]
           \/ r # Got /\ owner' = owner /\ hold' = hold
  BY ResultsDiffer, Zenon DEF Release, registryVars

(* A turn of the GET_LOCK() loop keeps the types.                          *)
LEMMA AttemptType ==
    ASSUME TypeOK, NEW c \in Conn, NEW n \in Name, NEW t \in Timeout \cup {0}, NEW w \in Nat,
           Attempt(c, n, t, w)
    PROVE  TypeOK'
<1>1. PICK r : TryGet(connid[c], n, r)
  BY Zenon DEF Attempt
<1>2. /\ owner' \in [Name -> Nat \cup {NoOwner}] /\ hold' \in [Name -> 0 .. MaxHold]
      /\ \A m \in Name : (hold'[m] = 0) <=> (owner'[m] = NoOwner)
  <2> USE MaxHoldAssumption DEF TypeOK, NoOwner
  <2>1. CASE /\ hold[n] = 0 /\ owner' = [owner EXCEPT ![n] = connid[c]]
             /\ hold' = [hold EXCEPT ![n] = 1]
    BY <2>1
  <2>2. CASE /\ hold[n] \in 1 .. MaxHold - 1 /\ owner[n] = connid[c]
             /\ owner' = owner /\ hold' = [hold EXCEPT ![n] = @ + 1]
    BY <2>2
  <2>3. CASE owner' = owner /\ hold' = hold
    BY <2>3, Zenon
  <2>4. \/ /\ hold[n] = 0 /\ owner' = [owner EXCEPT ![n] = connid[c]]
           /\ hold' = [hold EXCEPT ![n] = 1]
        \/ /\ hold[n] \in 1 .. MaxHold - 1 /\ owner[n] = connid[c]
           /\ owner' = owner /\ hold' = [hold EXCEPT ![n] = @ + 1]
        \/ owner' = owner /\ hold' = hold
    BY <1>1, TryGetEffect, Zenon
  <2> QED
    BY <2>1, <2>2, <2>3, <2>4, Zenon
<1>4. granted' \in [Conn -> [Name -> 0 .. MaxHold]]
  <2>1. \/ granted' = granted
        \/ granted' = [granted EXCEPT ![c][n] = IF @ < MaxHold THEN @ + 1 ELSE @]
    BY Zenon DEF Attempt
  <2>2. granted \in [Conn -> [Name -> 0 .. MaxHold]] /\ granted[c] \in [Name -> 0 .. MaxHold]
    BY Zenon DEF TypeOK
  <2>3. [granted[c] EXCEPT ![n] = IF @ < MaxHold THEN @ + 1 ELSE @] \in [Name -> 0 .. MaxHold]
    BY <2>2, MaxHoldAssumption
  <2> QED
    BY <2>1, <2>2, <2>3, Zenon
<1>5. ret' \in [Conn -> {"none", "acquired", "timeout", "error"}]
  BY Zenon DEF TypeOK, Attempt
<1>6. status' \in [Conn -> {"closed", "idle", "waiting"}]
  BY Zenon DEF TypeOK, Attempt
<1>7. wait' \in [Conn -> [name : Name, timeout : Timeout \cup {0}, waited : Nat]]
  <2>1. \/ wait' = [wait EXCEPT ![c] = NoWait]
        \/ wait' = [wait EXCEPT ![c] = [name |-> n, timeout |-> t, waited |-> w]]
    BY Zenon DEF Attempt
  <2>2. wait \in [Conn -> [name : Name, timeout : Timeout \cup {0}, waited : Nat]]
    BY Zenon DEF TypeOK
  <2>3. [name |-> n, timeout |-> t, waited |-> w]
            \in [name : Name, timeout : Timeout \cup {0}, waited : Nat]
    BY Zenon
  <2> QED
    BY <2>1, <2>2, <2>3, NoWaitType, Zenon
<1>8. nextId' \in Nat \ {0} /\ connid' \in [Conn -> Nat] /\ renamed' \in BOOLEAN
  BY Zenon DEF TypeOK, Attempt
<1> QED
  BY <1>2, <1>4, <1>5, <1>6, <1>7, <1>8, Zenon DEF TypeOK

(* The sweep of the registry for one owner keeps the registry's types.     *)
LEMMA RemoveOwnedType ==
    ASSUME TypeOK, NEW id, RemoveOwned(id)
    PROVE  /\ owner' \in [Name -> Nat \cup {NoOwner}] /\ hold' \in [Name -> 0 .. MaxHold]
           /\ \A m \in Name : (hold'[m] = 0) <=> (owner'[m] = NoOwner)
  BY MaxHoldAssumption DEF TypeOK, RemoveOwned, OwnedBy, NoOwner

(* Every step keeps the types.                                             *)
LEMMA TypeStep == ASSUME TypeOK, [LocksNext]_locksVars PROVE TypeOK'
<1>1. ASSUME NEW c \in Conn, Open(c) PROVE TypeOK'
  BY <1>1 DEF TypeOK, Open, registryVars
<1>2. ASSUME NEW c \in Conn, NEW n \in Name, NEW t \in Timeout, GetLock(c, n, t) PROVE TypeOK'
  BY <1>2, AttemptType, Zenon DEF GetLock
<1>3. ASSUME NEW c \in Conn, Wake(c) PROVE TypeOK'
  <2>1. wait[c] \in [name : Name, timeout : Timeout \cup {0}, waited : Nat]
    BY Zenon DEF TypeOK
  <2>2. wait[c].name \in Name /\ wait[c].timeout \in Timeout \cup {0} /\ wait[c].waited \in Nat
    BY <2>1, Zenon
  <2>3. PICK slept \in SleptMs(SleepMs(wait[c].timeout, wait[c].waited)) :
           Attempt(c, wait[c].name, wait[c].timeout,
                   WaitedAfter(wait[c].timeout, wait[c].waited, slept))
    BY <1>3, Zenon DEF Wake
  <2>4. WaitedAfter(wait[c].timeout, wait[c].waited, slept) \in Nat
    BY <2>2, WaitTypes, Zenon
  <2> QED
    BY <2>2, <2>3, <2>4, AttemptType, Zenon
<1>4. ASSUME NEW c \in Conn, NEW n \in Name, ReleaseLock(c, n) PROVE TypeOK'
  <2>1. PICK r : Release(connid[c], n, r) /\
           granted' = [granted EXCEPT ![c][n] = IF r = Got /\ @ > 0 THEN @ - 1 ELSE @]
    BY <1>4, Zenon DEF ReleaseLock
  <2>2. UNCHANGED <<nextId, connid, status, wait, ret, renamed>>
    BY <1>4, Zenon DEF ReleaseLock
  <2>3. /\ owner' \in [Name -> Nat \cup {NoOwner}] /\ hold' \in [Name -> 0 .. MaxHold]
        /\ \A m \in Name : (hold'[m] = 0) <=> (owner'[m] = NoOwner)
    <3> USE MaxHoldAssumption DEF NoOwner
    <3>0. /\ owner \in [Name -> Nat \cup {NoOwner}] /\ hold \in [Name -> 0 .. MaxHold]
          /\ \A m \in Name : (hold[m] = 0) <=> (owner[m] = NoOwner)
          /\ connid[c] \in Nat
      BY Zenon DEF TypeOK
    <3>1. CASE owner' = owner /\ hold' = hold
      BY <3>0, <3>1, Zenon
    <3>2. CASE /\ hold[n] # 0 /\ owner[n] = connid[c]
               /\ hold' = [hold EXCEPT ![n] = hold[n] - 1]
               /\ owner' = [owner EXCEPT ![n] = IF hold[n] = 1 THEN NoOwner ELSE owner[n]]
      <4>1. hold[n] \in 1 .. MaxHold /\ hold[n] - 1 \in 0 .. MaxHold
        BY <3>0, <3>2
      <4>2. hold' \in [Name -> 0 .. MaxHold]
        BY <3>0, <3>2, <4>1, Zenon
      <4>3. owner' \in [Name -> Nat \cup {NoOwner}]
        BY <3>0, <3>2, Zenon
      <4>4. \A m \in Name \ {n} : hold'[m] = hold[m] /\ owner'[m] = owner[m]
        BY <3>0, <3>2, Zenon
      <4>5. hold'[n] = hold[n] - 1 /\ owner'[n] = IF hold[n] = 1 THEN NoOwner ELSE connid[c]
        BY <3>0, <3>2, Zenon
      <4>6. connid[c] # NoOwner
        BY <3>0
      <4> QED
        BY <3>0, <4>1, <4>2, <4>3, <4>4, <4>5, <4>6
    <3> QED
      BY <2>1, <3>1, <3>2, ReleaseEffect, Zenon
  <2>4. granted \in [Conn -> [Name -> 0 .. MaxHold]] /\ granted[c] \in [Name -> 0 .. MaxHold]
    BY Zenon DEF TypeOK
  <2>5. [granted[c] EXCEPT ![n] = IF r = Got /\ @ > 0 THEN @ - 1 ELSE @]
           \in [Name -> 0 .. MaxHold]
    BY <2>4, MaxHoldAssumption
  <2>6. granted' \in [Conn -> [Name -> 0 .. MaxHold]]
    BY <2>1, <2>4, <2>5, Zenon
  <2> QED
    BY <2>2, <2>3, <2>6, Zenon DEF TypeOK
<1>5. ASSUME NEW c \in Conn, ReleaseAllLocks(c) PROVE TypeOK'
  <2>1. granted' \in [Conn -> [Name -> 0 .. MaxHold]]
    BY <1>5, MaxHoldAssumption DEF TypeOK, ReleaseAllLocks
  <2>2. RemoveOwned(connid[c]) /\ UNCHANGED <<nextId, connid, status, wait, ret, renamed>>
    BY <1>5, Zenon DEF ReleaseAllLocks
  <2> QED
    BY <2>1, <2>2, RemoveOwnedType, Zenon DEF TypeOK
<1>6. ASSUME NEW c \in Conn, Destroy(c) PROVE TypeOK'
  <2>1. granted' \in [Conn -> [Name -> 0 .. MaxHold]]
    BY <1>6, MaxHoldAssumption DEF TypeOK, Destroy
  <2>2. /\ status' \in [Conn -> {"closed", "idle", "waiting"}]
        /\ ret' \in [Conn -> {"none", "acquired", "timeout", "error"}]
    BY <1>6, Zenon DEF TypeOK, Destroy
  <2>3. RemoveOwned(connid[c]) /\ UNCHANGED <<nextId, connid, wait, renamed>>
    BY <1>6, Zenon DEF Destroy
  <2> QED
    BY <2>1, <2>2, <2>3, RemoveOwnedType, Zenon DEF TypeOK
<1>7. ASSUME NEW c \in Conn, NEW id \in PseudoIds, SetPseudoThreadId(c, id) PROVE TypeOK'
  <2>1. id \in Nat
    BY NamedLocksAssumption, Zenon
  <2> QED
    BY <1>7, <2>1, Zenon DEF TypeOK, SetPseudoThreadId, registryVars
<1>8. CASE UNCHANGED locksVars
  BY <1>8, Zenon DEF TypeOK, locksVars, registryVars, connVars
<1> QED
  BY <1>1, <1>2, <1>3, <1>4, <1>5, <1>6, <1>7, <1>8, Zenon DEF LocksNext

(* Setting a pseudo_thread_id is remembered.                               *)
LEMMA RenamedStays ==
    ASSUME TypeOK, [LocksNext]_locksVars, ~renamed'
    PROVE  ~renamed /\ \A c \in Conn, id \in PseudoIds : ~SetPseudoThreadId(c, id)
<1>1. \A c \in Conn, id \in PseudoIds : ~SetPseudoThreadId(c, id)
  BY Zenon DEF SetPseudoThreadId
<1>2. \A c \in Conn : Open(c) \/ ReleaseAllLocks(c) \/ Destroy(c) => renamed' = renamed
  BY Zenon DEF Open, ReleaseAllLocks, Destroy
<1>3. \A c \in Conn, n \in Name : ReleaseLock(c, n) => renamed' = renamed
  BY Zenon DEF ReleaseLock
<1>4. ASSUME NEW c \in Conn, NEW n, NEW t, NEW w, Attempt(c, n, t, w) PROVE renamed' = renamed
  BY <1>4, Zenon DEF Attempt
<1>5. \A c \in Conn, n \in Name, t \in Timeout : GetLock(c, n, t) => renamed' = renamed
  BY <1>4, Zenon DEF GetLock
<1>6. \A c \in Conn : Wake(c) => renamed' = renamed
  BY <1>4, Zenon DEF Wake
<1>7. (UNCHANGED locksVars) => renamed' = renamed
  BY Zenon DEF locksVars, connVars
<1>8. renamed' = renamed
  BY <1>1, <1>2, <1>3, <1>5, <1>6, <1>7, Zenon DEF LocksNext
<1> QED
  BY <1>1, <1>8, Zenon

(* Fresh ids come from a counter, and only SET pseudo_thread_id changes    *)
(* the id of an open connection.                                           *)
LEMMA IdsStep == ASSUME TypeOK, IdsDistinct, [LocksNext]_locksVars, ~renamed' PROVE IdsDistinct'
<1>1. ASSUME NEW c \in Conn, Open(c) PROVE IdsDistinct'
  BY <1>1 DEF TypeOK, IdsDistinct, Open
<1>2. ASSUME NEW c \in Conn, status[c] # "closed", UNCHANGED <<nextId, connid>>,
             NEW s, status' = [status EXCEPT ![c] = s]
      PROVE  IdsDistinct'
  BY <1>2, Zenon DEF TypeOK, IdsDistinct
<1>3. ASSUME UNCHANGED <<nextId, connid, status>> PROVE IdsDistinct'
  BY <1>3, Zenon DEF IdsDistinct
<1>4. ASSUME NEW c \in Conn, NEW n, NEW t, NEW w, status[c] # "closed", Attempt(c, n, t, w)
      PROVE  IdsDistinct'
  <2>1. UNCHANGED <<nextId, connid>> /\ \E s : status' = [status EXCEPT ![c] = s]
    BY <1>4, Zenon DEF Attempt
  <2> QED
    BY <1>2, <1>4, <2>1, Zenon
<1>5. ASSUME NEW c \in Conn, NEW n \in Name, NEW t \in Timeout, GetLock(c, n, t)
      PROVE  IdsDistinct'
  BY <1>4, <1>5, Zenon DEF GetLock
<1>6. ASSUME NEW c \in Conn, Wake(c) PROVE IdsDistinct'
  BY <1>4, <1>6, Zenon DEF Wake
<1>7. ASSUME NEW c \in Conn, NEW n \in Name, ReleaseLock(c, n) PROVE IdsDistinct'
  BY <1>3, <1>7, Zenon DEF ReleaseLock
<1>8. ASSUME NEW c \in Conn, ReleaseAllLocks(c) PROVE IdsDistinct'
  BY <1>3, <1>8, Zenon DEF ReleaseAllLocks
<1>9. ASSUME NEW c \in Conn, Destroy(c) PROVE IdsDistinct'
  BY <1>2, <1>9, Zenon DEF Destroy
<1>10. CASE UNCHANGED locksVars
  BY <1>3, <1>10, Zenon DEF locksVars, connVars
<1> QED
  BY <1>1, <1>5, <1>6, <1>7, <1>8, <1>9, <1>10, RenamedStays, Zenon DEF LocksNext

(* A turn of the GET_LOCK() loop gives the caller one hold more exactly    *)
(* when the registry counts one more for its id.                           *)
LEMMA AttemptGrants ==
    ASSUME TypeOK, IdsDistinct, GrantsMatchRegistry, NEW c \in Conn, NEW n \in Name,
           NEW t, NEW w, status[c] # "closed", Attempt(c, n, t, w)
    PROVE  GrantsMatchRegistry'
<1>1. PICK r \in {Got, Busy, NoMem} :
        /\ TryGet(connid[c], n, r)
        /\ r = Got => granted' = [granted EXCEPT ![c][n] = IF @ < MaxHold THEN @ + 1 ELSE @]
        /\ r # Got => granted' = granted
  BY ResultsDiffer, Zenon DEF Attempt
<1>2. connid' = connid /\ status'[c] # "closed"
      /\ \A d \in Conn : d # c => status'[d] = status[d]
  BY Zenon DEF Attempt, TypeOK
<1>3. ASSUME NEW m \in Name, owner'[m] = owner[m], hold'[m] = hold[m],
             \A d \in Conn : granted'[d][m] = granted[d][m]
      PROVE  \/ hold'[m] = 0 /\ \A d \in Conn : granted'[d][m] = 0
             \/ \E e \in Conn :
                  /\ status'[e] # "closed" /\ connid'[e] = owner'[m]
                  /\ hold'[m] > 0 /\ granted'[e][m] = hold'[m]
                  /\ \A d \in Conn \ {e} : granted'[d][m] = 0
  <2>1. CASE hold[m] = 0 /\ \A d \in Conn : granted[d][m] = 0
    BY <2>1, <1>3, Zenon
  <2>2. ASSUME NEW e \in Conn, status[e] # "closed", connid[e] = owner[m],
               hold[m] > 0, granted[e][m] = hold[m],
               \A d \in Conn \ {e} : granted[d][m] = 0
        PROVE  /\ status'[e] # "closed" /\ connid'[e] = owner'[m]
               /\ hold'[m] > 0 /\ granted'[e][m] = hold'[m]
               /\ \A d \in Conn \ {e} : granted'[d][m] = 0
    BY <2>2, <1>2, <1>3, Zenon
  <2> QED
    BY <2>1, <2>2, Zenon DEF GrantsMatchRegistry
<1>4. CASE r # Got
  BY <1>1, <1>3, <1>4, TryGetEffect, Zenon DEF GrantsMatchRegistry
<1>5. CASE r = Got
  <2>1. granted' = [granted EXCEPT ![c] =
                      [granted[c] EXCEPT ![n] = IF @ < MaxHold THEN @ + 1 ELSE @]]
    BY <1>1, <1>5, Zenon
  <2>2. granted[c] \in [Name -> 0 .. MaxHold] /\ granted \in [Conn -> [Name -> 0 .. MaxHold]]
    BY Zenon DEF TypeOK
  <2>3. \A d \in Conn, m \in Name : m # n \/ d # c => granted'[d][m] = granted[d][m]
    BY <2>1, <2>2, Zenon
  <2>4. granted'[c][n] = IF granted[c][n] < MaxHold THEN granted[c][n] + 1 ELSE granted[c][n]
    BY <2>1, <2>2, Zenon
  <2>5. \A m \in Name : m # n => owner'[m] = owner[m] /\ hold'[m] = hold[m]
    BY <1>1, <1>5, TryGetEffect, ResultsDiffer, Zenon DEF TypeOK
  <2>6. /\ connid'[c] = owner'[n] /\ hold'[n] > 0 /\ granted'[c][n] = hold'[n]
        /\ \A d \in Conn \ {c} : granted'[d][n] = 0
    <3>1. CASE /\ hold[n] = 0
               /\ owner' = [owner EXCEPT ![n] = connid[c]] /\ hold' = [hold EXCEPT ![n] = 1]
      <4>1. \A d \in Conn : granted[d][n] = 0
        BY <3>1, Zenon DEF GrantsMatchRegistry
      <4>2. hold'[n] = 1 /\ owner'[n] = connid[c]
        BY <3>1, Zenon DEF TypeOK
      <4>3. granted'[c][n] = 1
        BY <4>1, <2>4, MaxHoldAssumption
      <4>4. \A d \in Conn \ {c} : granted'[d][n] = 0
        BY <4>1, <2>3, Zenon
      <4> QED
        BY <4>2, <4>3, <4>4, <1>2
    <3>2. CASE /\ hold[n] \in 1 .. MaxHold - 1 /\ owner[n] = connid[c]
               /\ owner' = owner /\ hold' = [hold EXCEPT ![n] = @ + 1]
      <4>1. PICK e \in Conn : /\ status[e] # "closed" /\ connid[e] = owner[n]
                              /\ granted[e][n] = hold[n]
                              /\ \A d \in Conn \ {e} : granted[d][n] = 0
        BY <3>2, Zenon DEF GrantsMatchRegistry
      <4>2. e = c
        BY <4>1, <3>2, Zenon DEF IdsDistinct
      <4>3. hold'[n] = hold[n] + 1
        BY <3>2, Zenon DEF TypeOK
      <4>4. granted'[c][n] = hold[n] + 1
        <5>1. granted[c][n] = hold[n] /\ hold[n] < MaxHold
          BY <4>1, <4>2, <3>2, MaxHoldAssumption
        <5> QED
          BY <5>1, <2>4, Zenon
      <4>5. \A d \in Conn \ {c} : granted'[d][n] = 0
        BY <4>1, <4>2, <2>3, Zenon
      <4>6. hold'[n] > 0
        BY <4>3, <3>2
      <4> QED
        BY <4>3, <4>4, <4>5, <4>6, <3>2, <1>2, Zenon
    <3> QED
      BY <3>1, <3>2, <1>1, <1>5, TryGetEffect, ResultsDiffer, Zenon
  <2>7. ASSUME NEW m \in Name
        PROVE  \/ hold'[m] = 0 /\ \A d \in Conn : granted'[d][m] = 0
               \/ \E e \in Conn :
                    /\ status'[e] # "closed" /\ connid'[e] = owner'[m]
                    /\ hold'[m] > 0 /\ granted'[e][m] = hold'[m]
                    /\ \A d \in Conn \ {e} : granted'[d][m] = 0
    <3>1. CASE m = n
      BY <3>1, <1>2, <2>6, Zenon
    <3>2. CASE m # n
      BY <3>2, <1>3, <2>3, <2>5, Zenon
    <3> QED
      BY <3>1, <3>2, Zenon
  <2> QED
    BY <2>7, Zenon DEF GrantsMatchRegistry
<1> QED
  BY <1>4, <1>5, Zenon

(* Sweeping the entries of one connection's id takes that connection's     *)
(* holds, all of them, and nobody else's.                                  *)
LEMMA SweepGrants ==
    ASSUME TypeOK, IdsDistinct, GrantsMatchRegistry, NEW c \in Conn, status[c] # "closed",
           RemoveOwned(connid[c]), connid' = connid,
           \A d \in Conn \ {c} : status'[d] = status[d] /\ granted'[d] = granted[d],
           \A m \in Name : granted'[c][m] = 0
    PROVE  GrantsMatchRegistry'
<1> SUFFICES ASSUME NEW n \in Name
             PROVE  \/ hold'[n] = 0 /\ \A d \in Conn : granted'[d][n] = 0
                    \/ \E e \in Conn :
                         /\ status'[e] # "closed" /\ connid'[e] = owner'[n]
                         /\ hold'[n] > 0 /\ granted'[e][n] = hold'[n]
                         /\ \A d \in Conn \ {e} : granted'[d][n] = 0
  BY Zenon DEF GrantsMatchRegistry
<1>1. CASE hold[n] = 0
  <2>1. hold'[n] = 0 /\ \A d \in Conn : granted[d][n] = 0
    BY <1>1, Zenon DEF GrantsMatchRegistry, RemoveOwned, OwnedBy
  <2> QED
    BY <2>1, Zenon
<1>2. CASE hold[n] # 0
  <2>1. PICK e \in Conn : /\ status[e] # "closed" /\ connid[e] = owner[n]
                          /\ hold[n] > 0 /\ granted[e][n] = hold[n]
                          /\ \A d \in Conn \ {e} : granted[d][n] = 0
    BY <1>2, Zenon DEF GrantsMatchRegistry
  <2>2. CASE e = c
    <3>1. hold'[n] = 0
      BY <1>2, <2>1, <2>2, Zenon DEF RemoveOwned, OwnedBy
    <3>2. \A d \in Conn : granted'[d][n] = 0
      BY <2>1, <2>2, Zenon
    <3> QED
      BY <3>1, <3>2, Zenon
  <2>3. CASE e # c
    <3>1. owner[n] # connid[c]
      BY <2>1, <2>3, Zenon DEF IdsDistinct
    <3>2. hold'[n] = hold[n] /\ owner'[n] = owner[n]
      BY <3>1, Zenon DEF RemoveOwned, OwnedBy
    <3> QED
      BY <2>1, <2>3, <3>2
  <2> QED
    BY <2>2, <2>3, Zenon
<1> QED
  BY <1>1, <1>2, Zenon

(* A release takes one hold from the caller and one from the registry.     *)
LEMMA ReleaseGrants ==
    ASSUME TypeOK, IdsDistinct, GrantsMatchRegistry, NEW c \in Conn, NEW n \in Name,
           ReleaseLock(c, n)
    PROVE  GrantsMatchRegistry'
<1>1. PICK r : /\ Release(connid[c], n, r)
               /\ granted' = [granted EXCEPT ![c][n] = IF r = Got /\ @ > 0 THEN @ - 1 ELSE @]
  BY Zenon DEF ReleaseLock
<1>2. connid' = connid /\ status' = status /\ status[c] # "closed"
  BY Zenon DEF ReleaseLock
<1>3. /\ granted \in [Conn -> [Name -> 0 .. MaxHold]] /\ granted[c] \in [Name -> 0 .. MaxHold]
      /\ hold \in [Name -> 0 .. MaxHold] /\ owner \in [Name -> Nat \cup {NoOwner}]
  BY Zenon DEF TypeOK
<1>4. \A d \in Conn, m \in Name : m # n \/ d # c => granted'[d][m] = granted[d][m]
  BY <1>1, <1>3, Zenon
<1>5. granted'[c][n] = IF r = Got /\ granted[c][n] > 0 THEN granted[c][n] - 1 ELSE granted[c][n]
  BY <1>1, <1>3, Zenon
<1>6. CASE r # Got
  <2>1. owner' = owner /\ hold' = hold /\ \A d \in Conn, m \in Name : granted'[d][m] = granted[d][m]
    BY <1>1, <1>4, <1>5, <1>6, ReleaseEffect, Zenon
  <2> QED
    BY <2>1, <1>2 DEF GrantsMatchRegistry
<1>7. CASE r = Got
  <2>1. /\ hold[n] # 0 /\ owner[n] = connid[c]
        /\ hold' = [hold EXCEPT ![n] = hold[n] - 1]
        /\ owner' = [owner EXCEPT ![n] = IF hold[n] = 1 THEN NoOwner ELSE owner[n]]
    BY <1>1, <1>7, ReleaseEffect, Zenon
  <2>2. PICK e \in Conn : /\ status[e] # "closed" /\ connid[e] = owner[n]
                          /\ granted[e][n] = hold[n]
                          /\ \A d \in Conn \ {e} : granted[d][n] = 0
    BY <2>1, Zenon DEF GrantsMatchRegistry
  <2>3. e = c
    BY <1>2, <2>1, <2>2, Zenon DEF IdsDistinct
  <2>4. hold[n] \in 1 .. MaxHold /\ hold'[n] = hold[n] - 1 /\ granted'[c][n] = hold[n] - 1
        /\ \A d \in Conn \ {c} : granted'[d][n] = 0
    BY <1>3, <1>4, <1>5, <1>7, <2>1, <2>2, <2>3, MaxHoldAssumption
  <2>5. hold[n] # 1 => owner'[n] = connid'[c]
    BY <1>2, <1>3, <2>1, Zenon
  <2>6. \A m \in Name \ {n} : /\ hold'[m] = hold[m] /\ owner'[m] = owner[m]
                             /\ \A d \in Conn : granted'[d][m] = granted[d][m]
    BY <1>3, <1>4, <2>1, Zenon
  <2>7. ASSUME NEW m \in Name \ {n}
        PROVE  \/ hold'[m] = 0 /\ \A d \in Conn : granted'[d][m] = 0
               \/ \E f \in Conn :
                    /\ status'[f] # "closed" /\ connid'[f] = owner'[m]
                    /\ hold'[m] > 0 /\ granted'[f][m] = hold'[m]
                    /\ \A d \in Conn \ {f} : granted'[d][m] = 0
    <3>1. CASE hold[m] = 0 /\ \A d \in Conn : granted[d][m] = 0
      BY <3>1, <2>6, Zenon
    <3>2. ASSUME NEW f \in Conn, status[f] # "closed", connid[f] = owner[m],
                 hold[m] > 0, granted[f][m] = hold[m],
                 \A d \in Conn \ {f} : granted[d][m] = 0
          PROVE  /\ status'[f] # "closed" /\ connid'[f] = owner'[m]
                 /\ hold'[m] > 0 /\ granted'[f][m] = hold'[m]
                 /\ \A d \in Conn \ {f} : granted'[d][m] = 0
      BY <3>2, <1>2, <2>6, Zenon
    <3> QED
      BY <3>1, <3>2, Zenon DEF GrantsMatchRegistry
  <2>8. \/ hold'[n] = 0 /\ \A d \in Conn : granted'[d][n] = 0
        \/ /\ status'[c] # "closed" /\ connid'[c] = owner'[n]
           /\ hold'[n] > 0 /\ granted'[c][n] = hold'[n]
           /\ \A d \in Conn \ {c} : granted'[d][n] = 0
    BY <1>2, <2>4, <2>5
  <2> QED
    BY <2>7, <2>8 DEF GrantsMatchRegistry
<1> QED
  BY <1>6, <1>7, Zenon

(* Every step keeps the agreement.                                         *)
LEMMA GrantsStep ==
    ASSUME TypeOK, IdsDistinct, GrantsMatchRegistry, [LocksNext]_locksVars, ~renamed'
    PROVE  GrantsMatchRegistry'
<1>1. ASSUME NEW c \in Conn, Open(c) PROVE GrantsMatchRegistry'
  <2>1. /\ hold' = hold /\ owner' = owner /\ granted' = granted
        /\ \A d \in Conn \ {c} : status'[d] = status[d] /\ connid'[d] = connid[d]
    BY <1>1, Zenon DEF Open, TypeOK, registryVars
  <2>2. status[c] = "closed"
    BY <1>1, Zenon DEF Open
  <2>3. ASSUME NEW n \in Name
        PROVE  \/ hold'[n] = 0 /\ \A d \in Conn : granted'[d][n] = 0
               \/ \E f \in Conn :
                    /\ status'[f] # "closed" /\ connid'[f] = owner'[n]
                    /\ hold'[n] > 0 /\ granted'[f][n] = hold'[n]
                    /\ \A d \in Conn \ {f} : granted'[d][n] = 0
    <3>1. CASE hold[n] = 0 /\ \A d \in Conn : granted[d][n] = 0
      BY <3>1, <2>1, Zenon
    <3>2. ASSUME NEW f \in Conn, status[f] # "closed", connid[f] = owner[n],
                 hold[n] > 0, granted[f][n] = hold[n],
                 \A d \in Conn \ {f} : granted[d][n] = 0
          PROVE  /\ status'[f] # "closed" /\ connid'[f] = owner'[n]
                 /\ hold'[n] > 0 /\ granted'[f][n] = hold'[n]
                 /\ \A d \in Conn \ {f} : granted'[d][n] = 0
      BY <2>1, <2>2, <3>2, Zenon
    <3> QED
      BY <3>1, <3>2, Zenon DEF GrantsMatchRegistry
  <2> QED
    BY <2>3, Zenon DEF GrantsMatchRegistry
<1>2. ASSUME NEW c \in Conn, NEW n \in Name, NEW t \in Timeout, GetLock(c, n, t)
      PROVE  GrantsMatchRegistry'
  BY <1>2, AttemptGrants, Zenon DEF GetLock
<1>3. ASSUME NEW c \in Conn, Wake(c) PROVE GrantsMatchRegistry'
  <2>1. wait[c] \in [name : Name, timeout : Timeout \cup {0}, waited : Nat]
    BY Zenon DEF TypeOK
  <2>2. wait[c].name \in Name /\ status[c] # "closed"
    BY <2>1, <1>3, Zenon DEF Wake
  <2> QED
    BY <1>3, <2>2, AttemptGrants, Zenon DEF Wake
<1>4. ASSUME NEW c \in Conn, NEW n \in Name, ReleaseLock(c, n) PROVE GrantsMatchRegistry'
  BY <1>4, ReleaseGrants, Zenon
<1>5. ASSUME NEW c \in Conn, ReleaseAllLocks(c) PROVE GrantsMatchRegistry'
  <2>1. \A m \in Name : m \notin OwnedBy(connid[c]) => granted[c][m] = 0
    BY <1>5, Zenon DEF GrantsMatchRegistry, OwnedBy, TypeOK
  <2>2. granted'[c] = [m \in Name |-> IF m \in OwnedBy(connid[c]) THEN 0 ELSE granted[c][m]]
    BY <1>5, Zenon DEF ReleaseAllLocks, TypeOK
  <2>3. \A m \in Name : granted'[c][m] = 0
    BY <2>1, <2>2, Zenon
  <2>4. /\ status[c] # "closed" /\ RemoveOwned(connid[c]) /\ connid' = connid
        /\ \A d \in Conn \ {c} : status'[d] = status[d] /\ granted'[d] = granted[d]
    BY <1>5, Zenon DEF ReleaseAllLocks, TypeOK
  <2> QED
    BY <2>3, <2>4, SweepGrants, Zenon
<1>6. ASSUME NEW c \in Conn, Destroy(c) PROVE GrantsMatchRegistry'
  <2>1. \A m \in Name : granted'[c][m] = 0
    BY <1>6, Zenon DEF Destroy, TypeOK
  <2>2. /\ status[c] # "closed" /\ RemoveOwned(connid[c]) /\ connid' = connid
        /\ \A d \in Conn \ {c} : status'[d] = status[d] /\ granted'[d] = granted[d]
    BY <1>6, Zenon DEF Destroy, TypeOK
  <2> QED
    BY <2>1, <2>2, SweepGrants, Zenon
<1>7. CASE UNCHANGED locksVars
  BY <1>7, Zenon DEF GrantsMatchRegistry, locksVars, registryVars, connVars
<1> QED
  BY <1>1, <1>2, <1>3, <1>4, <1>5, <1>6, <1>7, RenamedStays, Zenon DEF LocksNext

(* Types, and the guard against an overflow of hold_count in               *)
(* try_get_named_lock: no reachable state breaks them.                     *)
THEOREM TypeCorrect == LocksSpec => []TypeOK
<1>1. LocksInit => TypeOK
  BY InitInv, Zenon DEF LocksInv
<1>2. TypeOK /\ [LocksNext]_locksVars => TypeOK'
  BY TypeStep, Zenon
<1> QED
  BY <1>1, <1>2, PTL DEF LocksSpec

(* Clients and registry agree for every set of connections and names,      *)
(* until a pseudo_thread_id is set: the locks GET_LOCK() granted are       *)
(* exclusive, counted correctly, and gone once their connection is closed. *)
THEOREM GrantsAgree == LocksSpec => []LocksAgree
<1>1. LocksInit => LocksInv
  BY InitInv, Zenon
<1>2. LocksInv /\ [LocksNext]_locksVars => LocksInv'
  BY TypeStep, IdsStep, GrantsStep, RenamedStays, Zenon DEF LocksInv
<1>3. LocksInv => LocksAgree
  BY Zenon DEF LocksInv, LocksAgree
<1> QED
  BY <1>1, <1>2, <1>3, PTL DEF LocksSpec

----------------------------------------------------------------------------
(* A connection inside GET_LOCK() has no answer yet.                       *)
Unanswered == \A c \in Conn : status[c] = "waiting" => ret[c] = "none"

(* What a waiting GET_LOCK() needs in order to answer 0.                   *)
SleptThrough(c) ==
    /\ hold[wait[c].name] > 0 /\ owner[wait[c].name] # connid[c]
    /\ \E slept \in SleptMs(SleepMs(wait[c].timeout, wait[c].waited)) :
          wait[c].waited + slept >= TimeoutMs(wait[c].timeout)

HonestTimeouts == \A c \in Conn : status[c] = "waiting" /\ ret'[c] = "timeout" => SleptThrough(c)

(* A turn of the loop answers 0 only when the name was found held by       *)
(* somebody else and no sleep is left.                                     *)
LEMMA AttemptAnswers ==
    ASSUME TypeOK, NEW c \in Conn, NEW n \in Name, NEW t \in Timeout \cup {0}, NEW w \in Nat,
           Attempt(c, n, t, w)
    PROVE  /\ ret'[c] = "timeout" => /\ hold[n] > 0 /\ owner[n] # connid[c]
                                     /\ t = 0 \/ SleepMs(t, w) = 0
           /\ status'[c] = "waiting" => ret'[c] = "none"
           /\ \A d \in Conn \ {c} : status'[d] = status[d] /\ ret'[d] = ret[d]
<1>1. PICK r \in {Got, Busy, NoMem} :
         /\ TryGet(connid[c], n, r)
         /\ \/ /\ r # Busy /\ status' = [status EXCEPT ![c] = "idle"]
               /\ \E answer \in {"acquired", "error"} : ret' = [ret EXCEPT ![c] = answer]
            \/ /\ r = Busy /\ (t = 0 \/ SleepMs(t, w) = 0)
               /\ status' = [status EXCEPT ![c] = "idle"] /\ ret' = [ret EXCEPT ![c] = "timeout"]
            \/ /\ r = Busy
               /\ status' = [status EXCEPT ![c] = "waiting"] /\ ret' = [ret EXCEPT ![c] = "none"]
  BY ResultsDiffer, Zenon DEF Attempt
<1>2. r = Busy => hold[n] # 0 /\ owner[n] # connid[c]
  BY <1>1, ResultsDiffer, Zenon DEF TryGet
<1>3. /\ hold[n] \in Nat
      /\ status \in [Conn -> {"closed", "idle", "waiting"}]
      /\ ret \in [Conn -> {"none", "acquired", "timeout", "error"}]
  BY MaxHoldAssumption DEF TypeOK
<1> QED
  BY <1>1, <1>2, <1>3

(* Every step answers honestly and leaves a waiting connection without an  *)
(* answer.                                                                 *)
LEMMA AnswersStep ==
    ASSUME TypeOK, Unanswered, [LocksNext]_locksVars
    PROVE  Unanswered' /\ HonestTimeouts
<1>0. /\ status \in [Conn -> {"closed", "idle", "waiting"}]
      /\ ret \in [Conn -> {"none", "acquired", "timeout", "error"}]
      /\ \A c \in Conn : /\ wait[c].name \in Name /\ wait[c].waited \in Nat
                         /\ wait[c].timeout \in Timeout \cup {0}
  BY Zenon DEF TypeOK
<1>1. ASSUME \A c \in Conn : status[c] = "waiting" => ret'[c] = ret[c],
             \A c \in Conn : status'[c] = "waiting" => status[c] = "waiting" /\ ret'[c] = ret[c]
      PROVE  Unanswered' /\ HonestTimeouts
  BY <1>1, Zenon DEF Unanswered, HonestTimeouts
<1>2. ASSUME NEW c \in Conn, Open(c) PROVE Unanswered' /\ HonestTimeouts
  BY <1>0, <1>1, <1>2, Zenon DEF Open
<1>3. ASSUME NEW c \in Conn, NEW n \in Name, NEW t \in Timeout, GetLock(c, n, t)
      PROVE  Unanswered' /\ HonestTimeouts
  <2>1. status[c] = "idle" /\ Attempt(c, n, t, 0)
    BY <1>3, Zenon DEF GetLock
  <2>2. /\ status'[c] = "waiting" => ret'[c] = "none"
        /\ \A d \in Conn \ {c} : status'[d] = status[d] /\ ret'[d] = ret[d]
    BY <2>1, AttemptAnswers, Zenon
  <2> QED
    BY <2>1, <2>2, Zenon DEF Unanswered, HonestTimeouts
<1>4. ASSUME NEW c \in Conn, Wake(c) PROVE Unanswered' /\ HonestTimeouts
  <2> DEFINE t == wait[c].timeout
             w == wait[c].waited
  <2>1. PICK slept \in SleptMs(SleepMs(t, w)) :
           Attempt(c, wait[c].name, t, WaitedAfter(t, w, slept))
    BY <1>4, Zenon DEF Wake
  <2>2. t \in Timeout \cup {0} /\ w \in Nat /\ wait[c].name \in Name
    BY <1>0, Zenon
  <2>3. WaitedAfter(t, w, slept) \in Nat /\ SleepMs(t, w) \in Nat
    BY <2>2, WaitTypes, Zenon
  <2> HIDE DEF t, w
  <2>4. /\ ret'[c] = "timeout" => /\ hold[wait[c].name] > 0 /\ owner[wait[c].name] # connid[c]
                                  /\ t = 0 \/ SleepMs(t, WaitedAfter(t, w, slept)) = 0
        /\ status'[c] = "waiting" => ret'[c] = "none"
        /\ \A d \in Conn \ {c} : status'[d] = status[d] /\ ret'[d] = ret[d]
    BY <2>1, <2>2, <2>3, AttemptAnswers, Zenon
  <2>5. ASSUME t = 0 \/ SleepMs(t, WaitedAfter(t, w, slept)) = 0
        PROVE  w + slept >= TimeoutMs(t)
    <3>1. /\ t \in Int /\ MsPerSecond \in Nat /\ Slice \in Nat \ {0} /\ MaxTimeoutMs \in Nat
          /\ slept \in Nat
      BY <2>2, <2>3, NamedLocksAssumption DEF SleptMs
    <3>2. TimeoutMs(t) \in Int
      BY <3>1 DEF TimeoutMs
    <3>3. CASE t = 0
      <4>1. TimeoutMs(t) = 0
        BY <3>1, <3>3 DEF TimeoutMs
      <4> QED
        BY <2>2, <3>1, <4>1
    <3>4. CASE SleepMs(t, WaitedAfter(t, w, slept)) = 0
      <4>1. t >= 0 /\ TimeoutMs(t) - WaitedAfter(t, w, slept) <= 0
        BY <2>3, <3>1, <3>2, <3>4 DEF SleepMs
      <4> QED
        BY <2>2, <3>1, <3>2, <4>1 DEF WaitedAfter
    <3> QED
      BY <2>5, <3>3, <3>4, Zenon
  <2>6. ret'[c] = "timeout" => SleptThrough(c)
    BY <2>1, <2>4, <2>5, Zenon DEF SleptThrough, t, w
  <2> QED
    BY <2>4, <2>6, Zenon DEF Unanswered, HonestTimeouts
<1>5. ASSUME NEW c \in Conn, NEW n \in Name, ReleaseLock(c, n) PROVE Unanswered' /\ HonestTimeouts
  BY <1>1, <1>5, Zenon DEF ReleaseLock
<1>6. ASSUME NEW c \in Conn, ReleaseAllLocks(c) PROVE Unanswered' /\ HonestTimeouts
  BY <1>1, <1>6, Zenon DEF ReleaseAllLocks
<1>7. ASSUME NEW c \in Conn, Destroy(c) PROVE Unanswered' /\ HonestTimeouts
  BY <1>0, <1>1, <1>7, Zenon DEF Destroy
<1>8. ASSUME NEW c \in Conn, NEW id \in PseudoIds, SetPseudoThreadId(c, id)
      PROVE  Unanswered' /\ HonestTimeouts
  BY <1>1, <1>8, Zenon DEF SetPseudoThreadId
<1>9. CASE UNCHANGED locksVars
  BY <1>1, <1>9, Zenon DEF locksVars, connVars
<1> QED
  BY <1>2, <1>3, <1>4, <1>5, <1>6, <1>7, <1>8, <1>9, Zenon DEF LocksNext

(* The loop of mylite_named_lock_get tries once more after its last sleep: *)
(* whatever the other connections do, a waiting GET_LOCK() answers 0 only  *)
(* while somebody else holds the name and after its whole timeout.         *)
THEOREM TimeoutsHonest == LocksSpec => TimeoutOnlyWhileHeld
<1>1. LocksInit => Unanswered
  BY Zenon DEF LocksInit, Unanswered
<1>2. TypeOK /\ Unanswered /\ [LocksNext]_locksVars => Unanswered'
  BY AnswersStep, Zenon
<1>3. TypeOK /\ Unanswered /\ [LocksNext]_locksVars => HonestTimeouts
  BY AnswersStep, Zenon
<1>4. HonestTimeouts => \A c \in Conn : status[c] = "waiting" /\ ret'[c] = "timeout" =>
          /\ hold[wait[c].name] > 0 /\ owner[wait[c].name] # connid[c]
          /\ \E slept \in SleptMs(SleepMs(wait[c].timeout, wait[c].waited)) :
                wait[c].waited + slept >= TimeoutMs(wait[c].timeout)
  BY Zenon DEF HonestTimeouts, SleptThrough
<1> QED
  BY TypeCorrect, <1>1, <1>2, <1>3, <1>4, PTL DEF LocksSpec, TimeoutOnlyWhileHeld

-----------------------------------------------------------------------------
(* The process list.                                                       *)

N == Cardinality(Handle)

LEMMA HandlesCounted == N \in Nat
  BY HandleAssumption, FS_CardinalityType, Zenon DEF N

-----------------------------------------------------------------------------
(* The linked list.                                                        *)

(* A chain of n handles, g[0] to g[n - 1], each once, and then NULL.       *)
Chain(g, n) ==
    /\ n \in Nat /\ g \in [0 .. n -> Handle \cup {Null}]
    /\ g[0] = head /\ g[n] = Null
    /\ \A i \in 0 .. n - 1 : g[i] \in Handle /\ next[g[i]] = g[i + 1]
    /\ \A i, j \in 0 .. n - 1 : g[i] = g[j] => i = j

Members(g, n) == {g[i] : i \in 0 .. n - 1}

(* A set of naturals has a least element, which stands in for induction.   *)
LEMMA LeastNatural ==
    ASSUME NEW T, T \subseteq Nat, T # {}
    PROVE  \E x \in T : \A y \in T : x <= y
<1> DEFINE R == OpToRel(<, Nat)
<1>1. IsWellFoundedOn(R, Nat)
  BY NatLessThanWellFounded, Zenon
<1>2. \A x, y \in Nat : y < x => <<y, x>> \in R
  BY Zenon DEF OpToRel
<1> HIDE DEF R
<1>3. PICK x \in T : \A y \in T : ~(<<y, x>> \in R)
  BY <1>1, WFMin, Zenon
<1>4. \A y \in T : y \in Nat /\ x \in Nat /\ ~(y < x)
  BY <1>2, <1>3, Zenon
<1>5. \A y \in T : x <= y
  BY <1>4
<1> QED  BY <1>5, Zenon

(* A handle is in the chain once, so it is no longer than there are        *)
(* handles.                                                                *)
LEMMA ChainBounded ==
    ASSUME NEW n, NEW g, Chain(g, n)
    PROVE  /\ n \in Nat /\ n <= N /\ N \in Nat
           /\ Cardinality({g[i] : i \in 0 .. n - 1}) = n
           /\ Cardinality(0 .. n - 1) = n
<1> DEFINE f == [i \in 0 .. n - 1 |-> g[i]]
           S == {g[i] : i \in 0 .. n - 1}
<1>1. n \in Nat
  BY Zenon DEF Chain
<1>2. f \in Injection(0 .. n - 1, Handle) /\ f \in Bijection(0 .. n - 1, S)
  <2>1. f \in [0 .. n - 1 -> Handle] /\ f \in [0 .. n - 1 -> S]
    BY Zenon DEF Chain
  <2>2. \A i, j \in 0 .. n - 1 : f[i] = f[j] => i = j
    BY Zenon DEF Chain
  <2>3. \A t \in S : \E i \in 0 .. n - 1 : f[i] = t
    BY Zenon
  <2> HIDE DEF f, S
  <2>4. f \in Injection(0 .. n - 1, Handle) /\ f \in Injection(0 .. n - 1, S)
    BY <2>1, <2>2, Zenon DEF Injection, IsInjective
  <2>5. f \in Surjection(0 .. n - 1, S)
    BY <2>1, <2>3, Zenon DEF Surjection
  <2> QED  BY <2>4, <2>5, Zenon DEF Bijection
<1>3. IsFiniteSet(0 .. n - 1) /\ Cardinality(0 .. n - 1) = n
  BY <1>1, FS_Interval
<1> HIDE DEF f, S
<1>4. Cardinality(0 .. n - 1) <= N
  BY <1>2, FS_Injection, HandleAssumption, Zenon DEF N
<1>5. Cardinality(S) = Cardinality(0 .. n - 1)
  <2>1. ExistsBijection(0 .. n - 1, S)
    BY <1>2, Zenon DEF ExistsBijection
  <2> QED  BY <1>3, <2>1, FS_Bijection, Zenon
<1> QED  BY <1>1, <1>3, <1>4, <1>5, HandlesCounted, Zenon DEF S

(* The equation that At is defined by. *)
Follows(f) ==
    f = [i \in 0 .. N |-> IF i = 0 THEN head ELSE IF f[i - 1] = Null THEN Null ELSE next[f[i - 1]]]

(* A walk from the head meets the chain, in order. *)
LEMMA ChainAt ==
    ASSUME NEW n, NEW g, Chain(g, n)
    PROVE  At = [i \in 0 .. N |-> IF i < n THEN g[i] ELSE Null]
<1> DEFINE f == [i \in 0 .. N |-> IF i < n THEN g[i] ELSE Null]
<1>1. n \in Nat /\ n <= N /\ N \in Nat
  BY ChainBounded, Zenon
<1>2. Follows(f)
  <2>1. ASSUME NEW i \in 0 .. N
        PROVE  f[i] = IF i = 0 THEN head ELSE IF f[i - 1] = Null THEN Null ELSE next[f[i - 1]]
    <3>1. CASE i = 0
      BY <1>1, <3>1 DEF Chain
    <3>2. CASE i # 0 /\ i - 1 < n
      <4>1. i - 1 \in 0 .. n - 1 /\ i - 1 \in 0 .. N
        BY <1>1, <3>2
      <4>2. f[i - 1] = g[i - 1] /\ g[i - 1] # Null /\ next[g[i - 1]] = g[i]
        BY <1>1, <3>2, <4>1, HandleAssumption DEF Chain
      <4>3. f[i] = g[i]
        <5>1. i < n \/ i = n
          BY <1>1, <3>2
        <5> QED  BY <1>1, <5>1, Zenon DEF Chain
      <4> QED  BY <3>2, <4>2, <4>3, Zenon
    <3>3. CASE i # 0 /\ ~(i - 1 < n)
      BY <1>1, <3>3
    <3> QED  BY <3>1, <3>2, <3>3, Zenon
  <2> HIDE DEF f
  <2>2. f = [i \in 0 .. N |-> f[i]]
    BY Zenon DEF f
  <2> QED  BY <2>1, <2>2, Zenon DEF Follows
<1>3. Follows(At)
  <2>1. At = CHOOSE h : Follows(h)
    BY Zenon DEF At, Follows, N
  <2> HIDE DEF f
  <2> QED  BY <1>2, <2>1, Zenon
<1> HIDE DEF f
<1>4. ASSUME NEW k \in 0 .. N, At[k] # f[k] PROVE FALSE
  <2> DEFINE T == {i \in 0 .. N : At[i] # f[i]}
  <2>1. T \subseteq Nat /\ k \in T
    BY <1>4
  <2>2. PICK m \in T : \A y \in T : m <= y
    <3> HIDE DEF T
    <3> QED  BY <2>1, LeastNatural, Zenon
  <2>3. m \in 0 .. N /\ At[m] # f[m]
    BY Zenon
  <2>4. /\ At[m] = IF m = 0 THEN head ELSE IF At[m - 1] = Null THEN Null ELSE next[At[m - 1]]
        /\ f[m] = IF m = 0 THEN head ELSE IF f[m - 1] = Null THEN Null ELSE next[f[m - 1]]
    BY <1>2, <1>3, <2>3, Zenon DEF Follows
  <2>5. m # 0
    BY <2>3, <2>4, Zenon
  <2>6. m - 1 \in 0 .. N /\ ~(m <= m - 1)
    BY <1>1, <2>3, <2>5
  <2>7. At[m - 1] = f[m - 1]
    BY <2>2, <2>6, Zenon
  <2> QED  BY <2>3, <2>4, <2>5, <2>7, Zenon
<1>5. At = [i \in 0 .. N |-> At[i]]
  BY <1>3, Zenon DEF Follows
<1> QED  BY <1>4, <1>5, Zenon DEF f

(* So Positions and Registered are those of the chain. *)
LEMMA ChainShows ==
    ASSUME NEW n, NEW g, Chain(g, n)
    PROVE  /\ n \in 0 .. N
           /\ \A i \in 0 .. n - 1 : At[i] = g[i] /\ At[i] \in Handle
           /\ At[n] = Null /\ At[N] = Null
           /\ Positions = 0 .. n - 1
           /\ Registered = {g[i] : i \in 0 .. n - 1}
           /\ Cardinality(Positions) = n /\ Cardinality(Registered) = n
<1>1. n \in Nat /\ n <= N /\ N \in Nat
  BY ChainBounded, Zenon
<1>2. At = [i \in 0 .. N |-> IF i < n THEN g[i] ELSE Null]
  BY ChainAt, Zenon
<1>3. \A i \in 0 .. n - 1 : At[i] = g[i] /\ At[i] \in Handle
  BY <1>1, <1>2 DEF Chain
<1>4. \A i \in n .. N : At[i] = Null
  BY <1>1, <1>2
<1>5. Positions = 0 .. n - 1
  <2>1. \A i \in 0 .. N - 1 : i \in 0 .. n - 1 \/ i \in n .. N
    BY <1>1
  <2>2. \A i \in 0 .. n - 1 : i \in 0 .. N - 1 /\ At[i] # Null
    BY <1>1, <1>3, HandleAssumption
  <2> QED  BY <1>4, <2>1, <2>2, Zenon DEF Positions, N
<1>6. Registered = {g[i] : i \in 0 .. n - 1}
  BY <1>3, <1>5, Zenon DEF Registered
<1>7. n \in n .. N /\ N \in n .. N /\ n \in 0 .. N
  BY <1>1
<1> QED  BY <1>3, <1>4, <1>5, <1>6, <1>7, ChainBounded, Zenon

(* The list, without naming the chain. *)
Chained == \E n, g : Chain(g, n)

Ordered ==
    LET n == Cardinality(Positions)
    IN  /\ n \in Nat /\ Positions = 0 .. n - 1
        /\ Registered = {At[i] : i \in 0 .. n - 1} /\ Registered \subseteq Handle
        /\ Cardinality(Registered) = n
        /\ \A i \in 0 .. n - 1 : At[i] \in Handle /\ next[At[i]] = At[i + 1]
        /\ At[0] = head /\ At[n] = Null /\ At[N] = Null

LEMMA ListOrdered == Chained => Ordered
<1> SUFFICES ASSUME NEW n, NEW g, Chain(g, n) PROVE Ordered
  BY Zenon DEF Chained
<1>1. /\ n \in 0 .. N /\ \A i \in 0 .. n - 1 : At[i] = g[i] /\ At[i] \in Handle
      /\ At[n] = Null /\ At[N] = Null /\ Positions = 0 .. n - 1
      /\ Registered = {g[i] : i \in 0 .. n - 1}
      /\ Cardinality(Positions) = n /\ Cardinality(Registered) = n
  BY ChainShows, Zenon
<1>2. n \in Nat /\ g[0] = head /\ g[n] = Null /\ \A i \in 0 .. n - 1 : next[g[i]] = g[i + 1]
  BY Zenon DEF Chain
<1>3. \A i \in 0 .. n : At[i] = g[i]
  <2>1. \A i \in 0 .. n : i \in 0 .. n - 1 \/ i = n
    BY <1>2
  <2> QED  BY <1>1, <1>2, <2>1, Zenon
<1>4. 0 \in 0 .. n /\ \A i \in 0 .. n - 1 : i + 1 \in 0 .. n
  BY <1>2
<1>5. Registered = {At[i] : i \in 0 .. n - 1} /\ Registered \subseteq Handle
  BY <1>1, Zenon
<1>6. \A i \in 0 .. n - 1 : At[i] \in Handle /\ next[At[i]] = At[i + 1]
  BY <1>1, <1>2, <1>3, <1>4, Zenon
<1>7. At[0] = head
  BY <1>2, <1>3, <1>4, Zenon
<1> QED  BY <1>1, <1>2, <1>5, <1>6, <1>7, Zenon DEF Ordered

-----------------------------------------------------------------------------
(* The inductive invariant.                                                *)

Labels == {"freed", "allocated", "open", "executed", "publishing", "counting", "counted",
           "walking", "listed", "closing", "unlisted"}
Shot == [first : Nat, last : Nat]
Row == [handle : Handle, shot : Shot]

Types ==
    /\ head \in Handle \cup {Null} /\ next \in [Handle -> Handle \cup {Null}]
    /\ registry \in Handle \cup {Null} /\ snap \subseteq Handle
    /\ session \in [Handle -> Nat] /\ shot \in [Handle -> Shot]
    /\ pc \in [Handle -> Labels]
    /\ count \in [Handle -> Nat] /\ cur \in [Handle -> Handle \cup {Null}]
    /\ rows \in [Handle -> Seq(Row)]
    /\ always \in [Handle -> SUBSET Handle] /\ ever \in [Handle -> SUBSET Handle]
    /\ ops \in [Handle -> Nat]

(* The mutexes are held where the thread is, and guard the snapshot.       *)
Guarded(h) ==
    /\ h \in snap <=> pc[h] = "publishing"
    /\ registry = h <=> pc[h] = "walking"
    /\ pc[h] = "publishing" => shot[h].first = session[h]
    /\ pc[h] # "publishing" => shot[h].first = shot[h].last

HandlesOf(r) == {r[i].handle : i \in 1 .. Len(r)}

(* The rows a handle has collected, and nothing left of an earlier walk.   *)
Collected(h) ==
    /\ pc[h] \notin {"walking", "listed"} => rows[h] = <<>>
    /\ Len(rows[h]) <= count[h]
    /\ \A i \in 1 .. Len(rows[h]) : rows[h][i].shot.first = rows[h][i].shot.last
    /\ pc[h] = "listed" =>
          /\ always[h] \subseteq HandlesOf(rows[h]) /\ HandlesOf(rows[h]) \subseteq ever[h]
          /\ Cardinality(HandlesOf(rows[h])) = Len(rows[h])

(* Where a handle stands to the list: a walk has copied a prefix of it.    *)
Linked(h) ==
    /\ h \in Registered => pc[h] \notin {"freed", "allocated", "unlisted"}
    /\ pc[h] \notin {"freed", "allocated", "unlisted", "closing"} => h \in Registered
    /\ Collecting(h) => always[h] \subseteq Registered /\ Registered \subseteq ever[h]
    /\ pc[h] = "walking" =>
          /\ Len(rows[h]) <= Cardinality(Positions)
          /\ cur[h] = At[Len(rows[h])]
          /\ \A i \in 1 .. Len(rows[h]) : rows[h][i].handle = At[i - 1]

IInv ==
    /\ Types /\ Chained
    /\ \A h \in Handle : Guarded(h) /\ Collected(h) /\ Linked(h)

-----------------------------------------------------------------------------
(* What the operations do to the list.                                     *)

(* Allocating writes the next pointer of a handle outside the list. *)
LEMMA ChainKept ==
    ASSUME NEW n, NEW g, Chain(g, n), UNCHANGED head,
           \A i \in 0 .. n - 1 : next'[g[i]] = next[g[i]]
    PROVE  Chain(g, n)'
  BY Zenon DEF Chain

(* Registering pushes a handle at the head. *)
LEMMA ChainPushed ==
    ASSUME NEW n, NEW g, Chain(g, n), NEW h \in Handle, h \notin Members(g, n),
           next \in [Handle -> Handle \cup {Null}],
           head' = h, next' = [next EXCEPT ![h] = head]
    PROVE  \E p, m : Chain(p, m)' /\ Members(p, m) = Members(g, n) \cup {h}
<1> DEFINE p == [i \in 0 .. n + 1 |-> IF i = 0 THEN h ELSE g[i - 1]]
<1>1. /\ n \in Nat /\ g \in [0 .. n -> Handle \cup {Null}] /\ g[0] = head /\ g[n] = Null
      /\ \A i \in 0 .. n - 1 : g[i] \in Handle /\ next[g[i]] = g[i + 1] /\ g[i] # h
      /\ \A i, j \in 0 .. n - 1 : g[i] = g[j] => i = j
  BY Zenon DEF Chain, Members
<1>2. \A i \in 1 .. n + 1 : i - 1 \in 0 .. n /\ p[i] = g[i - 1]
  BY <1>1
<1>3. p[0] = h /\ 0 \in 0 .. n + 1
  BY <1>1
<1>4. p \in [0 .. n + 1 -> Handle \cup {Null}]
  BY <1>1
<1> HIDE DEF p
<1>5. \A i \in 1 .. n : i - 1 \in 0 .. n - 1 /\ i \in 1 .. n + 1 /\ i + 1 \in 1 .. n + 1
                        /\ p[i] = g[i - 1] /\ p[i + 1] = g[i] /\ p[i] \in Handle /\ p[i] # h
  <2> SUFFICES ASSUME NEW i \in 1 .. n
               PROVE  /\ i - 1 \in 0 .. n - 1 /\ i \in 1 .. n + 1 /\ i + 1 \in 1 .. n + 1
                      /\ p[i] = g[i - 1] /\ p[i + 1] = g[i] /\ p[i] \in Handle /\ p[i] # h
    BY Zenon
  <2>1. i - 1 \in 0 .. n - 1 /\ i \in 1 .. n + 1 /\ i + 1 \in 1 .. n + 1 /\ (i + 1) - 1 = i
    BY <1>1
  <2> QED  BY <1>1, <1>2, <2>1
<1>6. \A i \in 0 .. (n + 1) - 1 : i = 0 \/ i \in 1 .. n
  BY <1>1
<1>7. p[n + 1] = Null
  <2>1. n + 1 \in 1 .. n + 1 /\ (n + 1) - 1 = n
    BY <1>1
  <2> QED  BY <1>1, <1>2, <2>1, Zenon
<1>8. ASSUME NEW i \in 0 .. (n + 1) - 1 PROVE p[i] \in Handle /\ next'[p[i]] = p[i + 1]
  <2>1. CASE i = 0
    <3>1. 0 + 1 \in 1 .. n + 1 /\ (0 + 1) - 1 = 0
      BY <1>1
    <3>2. p[0 + 1] = head
      BY <1>1, <1>2, <3>1, Zenon
    <3> QED  BY <1>3, <2>1, <3>2, Zenon
  <2>2. CASE i \in 1 .. n
    <3>1. (i - 1) + 1 = i
      BY <1>1, <2>2
    <3>2. next[p[i]] = p[i + 1]
      BY <1>1, <1>5, <2>2, <3>1
    <3> QED  BY <1>5, <2>2, <3>2, Zenon
  <2> QED  BY <1>6, <2>1, <2>2, Zenon
<1>9. ASSUME NEW i \in 0 .. (n + 1) - 1, NEW j \in 0 .. (n + 1) - 1, p[i] = p[j] PROVE i = j
  <2>1. CASE i \in 1 .. n /\ j \in 1 .. n
    <3>1. g[i - 1] = g[j - 1] /\ i - 1 \in 0 .. n - 1 /\ j - 1 \in 0 .. n - 1
      BY <1>5, <1>9, <2>1, Zenon
    <3>2. i - 1 = j - 1
      BY <1>1, <3>1, Zenon
    <3> QED  BY <1>1, <2>1, <3>2
  <2> QED  BY <1>3, <1>5, <1>6, <1>9, <2>1, Zenon
<1>10. {p[i] : i \in 0 .. (n + 1) - 1} = {g[i] : i \in 0 .. n - 1} \cup {h}
  <2>1. \A i \in 0 .. n - 1 : i + 1 \in 0 .. (n + 1) - 1 /\ p[i + 1] = g[i]
    <3> SUFFICES ASSUME NEW i \in 0 .. n - 1
                 PROVE  i + 1 \in 0 .. (n + 1) - 1 /\ p[i + 1] = g[i]
      BY Zenon
    <3>1. i + 1 \in 0 .. (n + 1) - 1 /\ i + 1 \in 1 .. n + 1 /\ (i + 1) - 1 = i
      BY <1>1
    <3> QED  BY <1>2, <3>1, Zenon
  <2>2. 0 \in 0 .. (n + 1) - 1
    BY <1>1
  <2> QED  BY <1>3, <1>5, <1>6, <2>1, <2>2
<1>11. n + 1 \in Nat
  BY <1>1
<1>12. Chain(p, n + 1)'
  BY <1>3, <1>4, <1>7, <1>8, <1>9, <1>11, Zenon DEF Chain
<1>13. Members(p, n + 1) = Members(g, n) \cup {h}
  BY <1>10, Zenon DEF Members
<1> QED  BY <1>12, <1>13, Zenon

(* Unregistering unlinks a handle, wherever in the list it is. *)
Unlinking(h, S) ==
    /\ head' = IF head = h THEN next[h] ELSE head
    /\ \A x \in S \ {h} : next'[x] = IF next[x] = h THEN next[h] ELSE next[x]

LEMMA ChainUnlinked ==
    ASSUME NEW n, NEW g, Chain(g, n), NEW h \in Members(g, n),
           next \in [Handle -> Handle \cup {Null}],
           Unlinking(h, Members(g, n))
    PROVE  \E q, m : Chain(q, m)' /\ Members(q, m) = Members(g, n) \ {h}
<1> USE DEF Unlinking
<1>0. PICK k \in 0 .. n - 1 : h = g[k]
  BY Zenon DEF Members
<1> USE <1>0
<1> DEFINE q == [i \in 0 .. n - 1 |-> IF i < k THEN g[i] ELSE g[i + 1]]
<1>1. /\ n \in Nat /\ g \in [0 .. n -> Handle \cup {Null}] /\ g[0] = head /\ g[n] = Null
      /\ \A i \in 0 .. n - 1 : g[i] \in Handle /\ next[g[i]] = g[i + 1] /\ g[i] # Null
      /\ \A i, j \in 0 .. n - 1 : g[i] = g[j] => i = j
  BY HandleAssumption, Zenon DEF Chain
<1>2. /\ \A i \in 0 .. n - 1 : i + 1 \in 0 .. n /\ i \in 0 .. n
      /\ k \in Nat /\ n - 1 \in Nat
  BY <1>1
<1>3. \A i \in 0 .. n - 1 : (i < k => q[i] = g[i]) /\ (~(i < k) => q[i] = g[i + 1])
  BY Zenon
<1>4. q \in [0 .. n - 1 -> Handle \cup {Null}]
  BY <1>1, <1>2, Zenon
<1> HIDE DEF q
<1>5. \A i \in 0 .. n : g[i] = h => i = k
  <2>1. \A i \in 0 .. n : i \in 0 .. n - 1 \/ i = n
    BY <1>1
  <2> QED  BY <1>1, <2>1, Zenon
<1>6. q[0] = head'
  <2>1. 0 \in 0 .. n - 1 /\ 0 + 1 = 1
    BY <1>1, <1>2
  <2>2. CASE k = 0
    <3>1. head = h /\ next[h] = g[1]
      BY <1>1, <2>1, <2>2, Zenon
    <3>2. q[0] = g[1]
      BY <1>3, <2>1, <2>2
    <3> QED  BY <3>1, <3>2, Zenon
  <2>3. CASE k # 0
    <3>1. 0 < k
      BY <1>2, <2>3
    <3>2. head # h
      BY <1>1, <1>2, <1>5, <2>1, <2>3, Zenon
    <3> QED  BY <1>1, <1>3, <2>1, <3>1, <3>2, Zenon
  <2> QED  BY <2>2, <2>3, Zenon
<1>7. q[n - 1] = Null
  <2>1. n - 1 \in 0 .. n - 1 /\ ~(n - 1 < k) /\ (n - 1) + 1 = n
    BY <1>1, <1>2
  <2> QED  BY <1>1, <1>3, <2>1, Zenon
<1>8. ASSUME NEW i \in 0 .. (n - 1) - 1
      PROVE  /\ q[i] \in {g[j] : j \in 0 .. n - 1} \ {h}
             /\ next'[q[i]] = q[i + 1]
  <2>1. /\ i \in 0 .. n - 1 /\ i + 1 \in 0 .. n - 1 /\ i + 1 \in 0 .. n /\ (i + 1) + 1 \in 0 .. n
        /\ i \in Nat
    BY <1>2
  <2>2. CASE i + 1 < k
    <3>1. i < k /\ i # k /\ i + 1 # k
      BY <1>2, <2>1, <2>2
    <3>2. q[i] = g[i] /\ q[i + 1] = g[i + 1]
      BY <1>3, <2>1, <2>2, <3>1, Zenon
    <3>3. g[i] # h /\ next[g[i]] = g[i + 1] /\ g[i + 1] # h
      BY <1>1, <1>2, <1>5, <2>1, <3>1, Zenon
    <3> QED  BY <2>1, <3>2, <3>3, Zenon DEF Members
  <2>3. CASE i + 1 = k
    <3>1. i < k /\ i # k /\ ~(k < k)
      BY <1>2, <2>1, <2>3
    <3>2. q[i] = g[i] /\ q[i + 1] = g[k + 1]
      BY <1>3, <2>1, <2>3, <3>1, Zenon
    <3>3. g[i] # h /\ next[g[i]] = h /\ next[h] = g[k + 1]
      BY <1>1, <1>2, <1>5, <2>1, <2>3, <3>1, Zenon
    <3> QED  BY <2>1, <3>2, <3>3, Zenon DEF Members
  <2>4. CASE ~(i + 1 < k) /\ i + 1 # k
    <3>1. ~(i < k) /\ ~(i + 1 < k) /\ i + 1 # k /\ (i + 1) + 1 # k
      BY <1>2, <2>1, <2>4
    <3>2. q[i] = g[i + 1] /\ q[i + 1] = g[(i + 1) + 1]
      BY <1>3, <2>1, <3>1, Zenon
    <3>3. g[i + 1] # h /\ next[g[i + 1]] = g[(i + 1) + 1] /\ g[(i + 1) + 1] # h
      BY <1>1, <1>5, <2>1, <3>1, Zenon
    <3> QED  BY <2>1, <3>2, <3>3, Zenon DEF Members
  <2> QED  BY <2>2, <2>3, <2>4, Zenon
<1>9. ASSUME NEW i \in 0 .. (n - 1) - 1, NEW j \in 0 .. (n - 1) - 1, q[i] = q[j] PROVE i = j
  <2>1. /\ i \in 0 .. n - 1 /\ j \in 0 .. n - 1 /\ i \in Nat /\ j \in Nat
        /\ i + 1 \in 0 .. n - 1 /\ j + 1 \in 0 .. n - 1
    BY <1>2
  <2>2. PICK a \in 0 .. n - 1 : q[i] = g[a] /\ a = IF i < k THEN i ELSE i + 1
    BY <1>3, <2>1, Zenon
  <2>3. PICK b \in 0 .. n - 1 : q[j] = g[b] /\ b = IF j < k THEN j ELSE j + 1
    BY <1>3, <2>1, Zenon
  <2>4. a = b
    BY <1>1, <1>9, <2>2, <2>3, ZenonT(30)
  <2> QED  BY <1>2, <2>1, <2>2, <2>3, <2>4
<1>10. {g[i] : i \in 0 .. n - 1} \ {h} \subseteq {q[i] : i \in 0 .. (n - 1) - 1}
  <2> SUFFICES ASSUME NEW i \in 0 .. n - 1, i # k PROVE \E j \in 0 .. (n - 1) - 1 : q[j] = g[i]
    BY <1>5
  <2>1. CASE i < k
    <3>1. i \in 0 .. (n - 1) - 1
      BY <1>2, <2>1
    <3>2. q[i] = g[i]
      BY <1>3, <2>1, Zenon
    <3> QED  BY <3>1, <3>2, Zenon
  <2>2. CASE ~(i < k)
    <3>1. i - 1 \in 0 .. (n - 1) - 1 /\ i - 1 \in 0 .. n - 1 /\ ~(i - 1 < k) /\ (i - 1) + 1 = i
      BY <1>2, <2>2
    <3>2. q[i - 1] = g[i]
      BY <1>3, <3>1, Zenon
    <3> QED  BY <3>1, <3>2, Zenon
  <2> QED  BY <2>1, <2>2, Zenon
<1>11. {q[i] : i \in 0 .. (n - 1) - 1} = {g[i] : i \in 0 .. n - 1} \ {h}
  <2>1. {q[i] : i \in 0 .. (n - 1) - 1} \subseteq {g[i] : i \in 0 .. n - 1} \ {h}
    BY <1>8
  <2> QED  BY <1>10, <2>1, Zenon
<1>12. \A i \in 0 .. (n - 1) - 1 : q[i] \in Handle /\ next'[q[i]] = q[i + 1]
  BY <1>1, <1>8
<1>13. Chain(q, n - 1)'
  BY <1>2, <1>4, <1>6, <1>7, <1>9, <1>12, Zenon DEF Chain
<1>14. Members(q, n - 1) = Members(g, n) \ {h}
  BY <1>11, Zenon DEF Members
<1> QED  BY <1>13, <1>14, Zenon

-----------------------------------------------------------------------------
(* Steps that leave the list alone.                                        *)

ListSame ==
    At' = At /\ Positions' = Positions /\ Registered' = Registered /\ Chained'

LEMMA SameList ==
    ASSUME Chained, UNCHANGED <<head, next>>
    PROVE  ListSame
<1>1. At' = At
  BY Zenon DEF At
<1>2. Positions' = Positions /\ Registered' = Registered
  BY <1>1, Zenon DEF Positions, Registered
<1>3. ASSUME NEW n, NEW g, Chain(g, n) PROVE Chain(g, n)'
  BY <1>3, ChainKept, Zenon
<1> QED  BY <1>1, <1>2, <1>3, Zenon DEF ListSame, Chained

(* Nothing another thread looks at in w changes. *)
Frame(w) ==
    /\ pc'[w] = pc[w] /\ session'[w] = session[w] /\ shot'[w] = shot[w]
    /\ count'[w] = count[w] /\ cur'[w] = cur[w] /\ rows'[w] = rows[w]
    /\ always'[w] = always[w] /\ ever'[w] = ever[w]
    /\ w \in snap' <=> w \in snap
    /\ registry' = w <=> registry = w

LEMMA FrameKeeps ==
    ASSUME NEW w \in Handle, Guarded(w), Collected(w), Linked(w), Frame(w), ListSame
    PROVE  Guarded(w)' /\ Collected(w)' /\ Linked(w)'
<1>1. Guarded(w)'
  BY Zenon DEF Guarded, Frame
<1>2. Collected(w)'
  BY Zenon DEF Collected, Frame
<1>3. Linked(w)'
  BY Zenon DEF Linked, Frame, Collecting, ListSame
<1> QED  BY <1>1, <1>2, <1>3, Zenon

(* A step of one thread, on its own part of the state. *)
LEMMA LocalStep ==
    ASSUME IInv, Types', ListSame, NEW h \in Handle, \A w \in Handle \ {h} : Frame(w),
           Guarded(h)', Collected(h)', Linked(h)'
    PROVE  IInv'
<1>1. ASSUME NEW w \in Handle \ {h} PROVE Guarded(w)' /\ Collected(w)' /\ Linked(w)'
  BY <1>1, FrameKeeps, Zenon DEF IInv
<1> QED  BY <1>1, Zenon DEF IInv, ListSame

LEMMA Went ==
    ASSUME Types, NEW h \in Handle, NEW l \in Labels, pc' = [pc EXCEPT ![h] = l]
    PROVE  pc' \in [Handle -> Labels]
  BY Zenon DEF Types

LEMMA OneMore ==
    ASSUME NEW f \in [Handle -> Nat], NEW h \in Handle
    PROVE  [f EXCEPT ![h] = @ + 1] \in [Handle -> Nat]
  OBVIOUS

LEMMA ExecuteSafe == ASSUME IInv, NEW h \in Handle, Execute(h) PROVE IInv'
<1>1. /\ pc[h] = "open" /\ ops' = [ops EXCEPT ![h] = @ + 1]
      /\ session' = [session EXCEPT ![h] = @ + 1] /\ pc' = [pc EXCEPT ![h] = "executed"]
      /\ UNCHANGED <<head, next, registry, snap, shot, count, cur, rows, always, ever, opens>>
  BY Zenon DEF Execute, Goto, walk, ghosts
<1>2. Types /\ Guarded(h) /\ Collected(h) /\ Linked(h) /\ ListSame
  BY <1>1, SameList, Zenon DEF IInv
<1>3. Types'
  <2>1. "executed" \in Labels
    BY Zenon DEF Labels
  <2>2. ops' \in [Handle -> Nat] /\ session' \in [Handle -> Nat]
    BY <1>1, <1>2, OneMore, Zenon DEF Types
  <2> QED  BY <1>1, <1>2, <2>1, <2>2, Went, Zenon DEF Types
<1>4. pc'[h] = "executed" /\ \A w \in Handle \ {h} : Frame(w)
  BY <1>1, <1>2, Zenon DEF Types, Frame
<1>5. Guarded(h)'
  BY <1>1, <1>2, <1>4, Zenon DEF Guarded
<1>6. Collected(h)'
  BY <1>1, <1>2, <1>4, Zenon DEF Collected
<1>7. Linked(h)'
  BY <1>1, <1>2, <1>4, Zenon DEF Linked, Collecting, ListSame
<1> QED  BY <1>2, <1>3, <1>4, <1>5, <1>6, <1>7, LocalStep, Zenon

LEMMA FailToAllocateSafe == ASSUME IInv, NEW h \in Handle, FailToAllocate(h) PROVE IInv'
<1>1. /\ pc[h] = "counted" /\ pc' = [pc EXCEPT ![h] = "executed"]
      /\ UNCHANGED <<head, next, registry, snap, session, shot>>
      /\ UNCHANGED <<count, cur, rows, always, ever, ops>>
  BY Zenon DEF FailToAllocate, Goto, walk, ghosts, bounds
<1>2. Types /\ Guarded(h) /\ Collected(h) /\ Linked(h) /\ ListSame
  BY <1>1, SameList, Zenon DEF IInv
<1>3. Types'
  <2>1. "executed" \in Labels
    BY Zenon DEF Labels
  <2> QED  BY <1>1, <1>2, <2>1, Went, Zenon DEF Types
<1>4. pc'[h] = "executed" /\ \A w \in Handle \ {h} : Frame(w)
  BY <1>1, <1>2, Zenon DEF Types, Frame
<1>5. Guarded(h)'
  BY <1>1, <1>2, <1>4, Zenon DEF Guarded
<1>6. Collected(h)'
  BY <1>1, <1>2, <1>4, Zenon DEF Collected
<1>7. Linked(h)'
  BY <1>1, <1>2, <1>4, Zenon DEF Linked, Collecting, ListSame
<1> QED  BY <1>2, <1>3, <1>4, <1>5, <1>6, <1>7, LocalStep, Zenon

LEMMA CloseSafe == ASSUME IInv, NEW h \in Handle, Close(h) PROVE IInv'
<1>1. /\ pc[h] = "open" /\ pc' = [pc EXCEPT ![h] = "closing"]
      /\ UNCHANGED <<head, next, registry, snap, session, shot>>
      /\ UNCHANGED <<count, cur, rows, always, ever, ops>>
  BY Zenon DEF Close, Goto, walk, ghosts, bounds
<1>2. Types /\ Guarded(h) /\ Collected(h) /\ Linked(h) /\ ListSame
  BY <1>1, SameList, Zenon DEF IInv
<1>3. Types'
  <2>1. "closing" \in Labels
    BY Zenon DEF Labels
  <2> QED  BY <1>1, <1>2, <2>1, Went, Zenon DEF Types
<1>4. pc'[h] = "closing" /\ \A w \in Handle \ {h} : Frame(w)
  BY <1>1, <1>2, Zenon DEF Types, Frame
<1>5. Guarded(h)'
  BY <1>1, <1>2, <1>4, Zenon DEF Guarded
<1>6. Collected(h)'
  BY <1>1, <1>2, <1>4, Zenon DEF Collected
<1>7. Linked(h)'
  BY <1>1, <1>2, <1>4, Zenon DEF Linked, Collecting, ListSame
<1> QED  BY <1>2, <1>3, <1>4, <1>5, <1>6, <1>7, LocalStep, Zenon

LEMMA FreeSafe == ASSUME IInv, NEW h \in Handle, Free(h) PROVE IInv'
<1>1. /\ pc[h] = "unlisted" /\ pc' = [pc EXCEPT ![h] = "freed"]
      /\ UNCHANGED <<head, next, registry, snap, session, shot>>
      /\ UNCHANGED <<count, cur, rows, always, ever, ops>>
  BY Zenon DEF Free, Goto, walk, ghosts, bounds
<1>2. Types /\ Guarded(h) /\ Collected(h) /\ Linked(h) /\ ListSame
  BY <1>1, SameList, Zenon DEF IInv
<1>3. Types'
  <2>1. "freed" \in Labels
    BY Zenon DEF Labels
  <2> QED  BY <1>1, <1>2, <2>1, Went, Zenon DEF Types
<1>4. pc'[h] = "freed" /\ \A w \in Handle \ {h} : Frame(w)
  BY <1>1, <1>2, Zenon DEF Types, Frame
<1>5. Guarded(h)'
  BY <1>1, <1>2, <1>4, Zenon DEF Guarded
<1>6. Collected(h)'
  BY <1>1, <1>2, <1>4, Zenon DEF Collected
<1>7. Linked(h)'
  BY <1>1, <1>2, <1>4, Zenon DEF Linked, Collecting, ListSame
<1> QED  BY <1>2, <1>3, <1>4, <1>5, <1>6, <1>7, LocalStep, Zenon

LEMMA BeginPublishSafe == ASSUME IInv, NEW h \in Handle, BeginPublish(h) PROVE IInv'
<1>1. /\ pc[h] \in {"executed", "listed"} /\ pc' = [pc EXCEPT ![h] = "publishing"]
      /\ snap' = snap \cup {h} /\ shot' = [shot EXCEPT ![h].first = session[h]]
      /\ count' = [count EXCEPT ![h] = 0] /\ rows' = [rows EXCEPT ![h] = <<>>]
      /\ always' = [always EXCEPT ![h] = {}] /\ ever' = [ever EXCEPT ![h] = {}]
      /\ UNCHANGED <<head, next, registry, session, cur, ops>>
  BY Zenon DEF BeginPublish, Goto, bounds
<1>2. Types /\ Guarded(h) /\ Collected(h) /\ Linked(h) /\ ListSame
  BY <1>1, SameList, Zenon DEF IInv
<1>3. Types'
  <2>1. shot' \in [Handle -> Shot]
    BY <1>1, <1>2, ZenonT(30) DEF Types, Shot
  <2>2. "open" \in Labels /\ "publishing" \in Labels
    BY Zenon DEF Labels
  <2>3. /\ snap' \subseteq Handle /\ count' \in [Handle -> Nat] /\ rows' \in [Handle -> Seq(Row)]
        /\ always' \in [Handle -> SUBSET Handle] /\ ever' \in [Handle -> SUBSET Handle]
    BY <1>1, <1>2 DEF Types
  <2> QED  BY <1>1, <1>2, <2>1, <2>2, <2>3, Went, Zenon DEF Types
<1>4. pc'[h] = "publishing" /\ h \in snap' /\ rows'[h] = <<>> /\ count'[h] = 0
  BY <1>1, <1>2, Zenon DEF Types
<1>5. shot'[h].first = session[h]
  BY <1>1, <1>2, Zenon DEF Types, Shot
<1>6. \A w \in Handle \ {h} : Frame(w)
  <2>1. \A w \in Handle \ {h} : shot'[w] = shot[w]
    BY <1>1, <1>2, Zenon DEF Types
  <2> QED  BY <1>1, <1>2, <2>1, Zenon DEF Types, Frame
<1>7. Guarded(h)'
  BY <1>1, <1>2, <1>4, <1>5, Zenon DEF Guarded
<1>8. Collected(h)'
  BY <1>4 DEF Collected
<1>9. Linked(h)'
  BY <1>1, <1>2, <1>4, Zenon DEF Linked, Collecting, ListSame
<1> QED  BY <1>2, <1>3, <1>6, <1>7, <1>8, <1>9, LocalStep, Zenon

LEMMA EndPublishSafe == ASSUME IInv, NEW h \in Handle, EndPublish(h) PROVE IInv'
<1>1. /\ pc[h] = "publishing" /\ pc' = [pc EXCEPT ![h] = "open"]
      /\ snap' = snap \ {h} /\ shot' = [shot EXCEPT ![h].last = session[h]]
      /\ UNCHANGED <<head, next, registry, session, count, cur, rows, always, ever, ops>>
  BY Zenon DEF EndPublish, Goto, walk, ghosts, bounds
<1>2. Types /\ Guarded(h) /\ Collected(h) /\ Linked(h) /\ ListSame
  BY <1>1, SameList, Zenon DEF IInv
<1>3. Types'
  <2>1. shot' \in [Handle -> Shot]
    BY <1>1, <1>2, ZenonT(30) DEF Types, Shot
  <2>2. "open" \in Labels /\ "publishing" \in Labels
    BY Zenon DEF Labels
  <2>3. /\ snap' \subseteq Handle /\ count' \in [Handle -> Nat] /\ rows' \in [Handle -> Seq(Row)]
        /\ always' \in [Handle -> SUBSET Handle] /\ ever' \in [Handle -> SUBSET Handle]
    BY <1>1, <1>2, Zenon DEF Types
  <2> QED  BY <1>1, <1>2, <2>1, <2>2, <2>3, Went, Zenon DEF Types
<1>4. pc'[h] = "open" /\ h \notin snap'
  BY <1>1, <1>2, Zenon DEF Types
<1>5. shot'[h].first = shot'[h].last
  BY <1>1, <1>2, ZenonT(30) DEF Types, Shot, Guarded
<1>6. \A w \in Handle \ {h} : Frame(w)
  <2>1. \A w \in Handle \ {h} : shot'[w] = shot[w]
    BY <1>1, <1>2, Zenon DEF Types
  <2> QED  BY <1>1, <1>2, <2>1, Zenon DEF Types, Frame
<1>7. Guarded(h)'
  BY <1>1, <1>2, <1>4, <1>5, Zenon DEF Guarded
<1>8. Collected(h)'
  BY <1>1, <1>2, <1>4, Zenon DEF Collected
<1>9. Linked(h)'
  BY <1>1, <1>2, <1>4, Zenon DEF Linked, Collecting, ListSame
<1> QED  BY <1>2, <1>3, <1>6, <1>7, <1>8, <1>9, LocalStep, Zenon

-----------------------------------------------------------------------------
(* Counting and walking.                                                   *)

LEMMA BeginCollectSafe == ASSUME IInv, NEW h \in Handle, BeginCollect(h) PROVE IInv'
<1>1. /\ pc[h] = "open" /\ pc' = [pc EXCEPT ![h] = "counting"]
      /\ ops' = [ops EXCEPT ![h] = @ + 1]
      /\ always' = [always EXCEPT ![h] = Registered] /\ ever' = [ever EXCEPT ![h] = Registered]
      /\ UNCHANGED <<head, next, registry, snap, session, shot, count, cur, rows>>
  BY Zenon DEF BeginCollect, Goto, walk
<1>2. Types /\ Guarded(h) /\ Collected(h) /\ Linked(h) /\ ListSame
  BY <1>1, SameList, Zenon DEF IInv
<1>3. Types'
  <2>1. Registered \subseteq Handle
    BY ListOrdered, Zenon DEF IInv, Ordered
  <2>2. "counting" \in Labels
    BY Zenon DEF Labels
  <2>3. ops' \in [Handle -> Nat]
    BY <1>1, <1>2, OneMore, Zenon DEF Types
  <2> QED  BY <1>1, <1>2, <2>1, <2>2, <2>3, Went, Zenon DEF Types
<1>4. /\ pc'[h] = "counting" /\ always'[h] = Registered /\ ever'[h] = Registered
      /\ \A w \in Handle \ {h} : Frame(w)
  BY <1>1, <1>2, Zenon DEF Types, Frame
<1>5. Guarded(h)'
  BY <1>1, <1>2, <1>4, Zenon DEF Guarded
<1>6. Collected(h)'
  BY <1>1, <1>2, <1>4, Zenon DEF Collected
<1>7. Linked(h)'
  BY <1>1, <1>2, <1>4, Zenon DEF Linked, Collecting, ListSame
<1> QED  BY <1>2, <1>3, <1>4, <1>5, <1>6, <1>7, LocalStep, Zenon

LEMMA CountSessionsSafe == ASSUME IInv, NEW h \in Handle, CountSessions(h) PROVE IInv'
<1>1. /\ pc[h] = "counting" /\ pc' = [pc EXCEPT ![h] = "counted"]
      /\ count' = [count EXCEPT ![h] = Cardinality(Positions)]
      /\ UNCHANGED <<head, next, registry, snap, session, shot, cur, rows, always, ever, ops>>
  BY Zenon DEF CountSessions, Goto, ghosts, bounds
<1>2. Types /\ Guarded(h) /\ Collected(h) /\ Linked(h) /\ ListSame
  BY <1>1, SameList, Zenon DEF IInv
<1>3. Cardinality(Positions) \in Nat
  BY ListOrdered, Zenon DEF IInv, Ordered
<1>4. Types'
  <2>1. "counted" \in Labels
    BY Zenon DEF Labels
  <2>2. count' \in [Handle -> Nat]
    BY <1>1, <1>2, <1>3, Zenon DEF Types
  <2> QED  BY <1>1, <1>2, <2>1, <2>2, Went, Zenon DEF Types
<1>5. pc'[h] = "counted" /\ \A w \in Handle \ {h} : Frame(w)
  BY <1>1, <1>2, Zenon DEF Types, Frame
<1>6. rows'[h] = <<>> /\ count'[h] \in Nat
  BY <1>1, <1>2, <1>3, Zenon DEF Types, Collected
<1>7. Guarded(h)'
  BY <1>1, <1>2, <1>5, Zenon DEF Guarded
<1>8. Collected(h)'
  BY <1>5, <1>6 DEF Collected
<1>9. Linked(h)'
  BY <1>1, <1>2, <1>5, Zenon DEF Linked, Collecting, ListSame
<1> QED  BY <1>2, <1>4, <1>5, <1>7, <1>8, <1>9, LocalStep, Zenon

LEMMA BeginWalkSafe == ASSUME IInv, NEW h \in Handle, BeginWalk(h) PROVE IInv'
<1>1. /\ pc[h] = "counted" /\ pc' = [pc EXCEPT ![h] = "walking"]
      /\ registry = Null /\ registry' = h
      /\ cur' = [cur EXCEPT ![h] = head] /\ rows' = [rows EXCEPT ![h] = <<>>]
      /\ UNCHANGED <<head, next, snap, session, shot, count, always, ever, ops>>
  BY Zenon DEF BeginWalk, Goto, ghosts, bounds
<1>2. Types /\ Guarded(h) /\ Collected(h) /\ Linked(h) /\ ListSame
  BY <1>1, SameList, Zenon DEF IInv
<1>3. Cardinality(Positions) \in Nat /\ At[0] = head
  BY ListOrdered, Zenon DEF IInv, Ordered
<1>4. head \in Handle \cup {Null}
  BY <1>2, Zenon DEF Types
<1>5. Types'
  <2>1. "walking" \in Labels
    BY Zenon DEF Labels
  <2>2. cur' \in [Handle -> Handle \cup {Null}] /\ rows' \in [Handle -> Seq(Row)]
    BY <1>1, <1>2, <1>4 DEF Types
  <2> QED  BY <1>1, <1>2, <2>1, <2>2, Went, Zenon DEF Types
<1>6. pc'[h] = "walking" /\ cur'[h] = head /\ rows'[h] = <<>> /\ count'[h] \in Nat
  BY <1>1, <1>2, Zenon DEF Types
<1>7. \A w \in Handle \ {h} : Frame(w)
  BY <1>1, <1>2, HandleAssumption, Zenon DEF Types, Frame
<1>8. Guarded(h)'
  BY <1>1, <1>2, <1>6, Zenon DEF Guarded
<1>9. Collected(h)'
  BY <1>6 DEF Collected
<1>10. Linked(h)'
  <2>1. /\ Len(rows'[h]) <= Cardinality(Positions) /\ cur'[h] = At[Len(rows'[h])]
        /\ \A i \in 1 .. Len(rows'[h]) : rows'[h][i].handle = At[i - 1]
    BY <1>3, <1>6
  <2> QED  BY <1>1, <1>2, <1>6, <2>1, Zenon DEF Linked, Collecting, ListSame
<1> QED  BY <1>2, <1>5, <1>7, <1>8, <1>9, <1>10, LocalStep, Zenon

LEMMA RetryWalkSafe == ASSUME IInv, NEW h \in Handle, RetryWalk(h) PROVE IInv'
<1>1. /\ pc[h] = "walking" /\ pc' = [pc EXCEPT ![h] = "counting"]
      /\ registry' = Null /\ cur' = [cur EXCEPT ![h] = Null]
      /\ count' = [count EXCEPT ![h] = 0] /\ rows' = [rows EXCEPT ![h] = <<>>]
      /\ UNCHANGED <<head, next, snap, session, shot, always, ever, ops>>
  BY Zenon DEF RetryWalk, Goto, ghosts, bounds
<1>2. Types /\ Guarded(h) /\ Collected(h) /\ Linked(h) /\ ListSame
  BY <1>1, SameList, Zenon DEF IInv
<1>3. registry = h
  BY <1>1, <1>2, Zenon DEF Guarded
<1>4. Types'
  <2>1. "counting" \in Labels
    BY Zenon DEF Labels
  <2>2. /\ count' \in [Handle -> Nat] /\ cur' \in [Handle -> Handle \cup {Null}]
        /\ rows' \in [Handle -> Seq(Row)]
    <3>1. 0 \in Nat /\ <<>> \in Seq(Row)
      OBVIOUS
    <3> QED  BY <1>1, <1>2, <3>1, Zenon DEF Types
  <2> QED  BY <1>1, <1>2, <2>1, <2>2, Went, Zenon DEF Types
<1>5. /\ pc'[h] = "counting" /\ rows'[h] = <<>> /\ count'[h] = 0
      /\ \A w \in Handle \ {h} : Frame(w)
  BY <1>1, <1>2, <1>3, HandleAssumption, Zenon DEF Types, Frame
<1>6. Guarded(h)'
  BY <1>1, <1>2, <1>5, HandleAssumption, Zenon DEF Guarded
<1>7. Collected(h)'
  BY <1>5 DEF Collected
<1>8. Linked(h)'
  BY <1>1, <1>2, <1>5, Zenon DEF Linked, Collecting, ListSame
<1> QED  BY <1>2, <1>4, <1>5, <1>6, <1>7, <1>8, LocalStep, Zenon

(* A walk copies the next handle of the list, whose snapshot nobody is writing. *)
LEMMA CopySessionSafe == ASSUME IInv, NEW h \in Handle, CopySession(h) PROVE IInv'
<1> DEFINE k == Len(rows[h])
           c == cur[h]
           row == [handle |-> c, shot |-> shot[c]]
           n == Cardinality(Positions)
<1>1. /\ pc[h] = "walking" /\ c # Null /\ k < count[h] /\ c \notin snap
      /\ rows' = [rows EXCEPT ![h] = Append(rows[h], row)]
      /\ cur' = [cur EXCEPT ![h] = next[c]]
      /\ UNCHANGED <<head, next, registry, snap, session, shot, pc, count, always, ever, ops>>
  BY Zenon DEF CopySession, ghosts, bounds
<1>2. Types /\ Guarded(h) /\ Collected(h) /\ Linked(h) /\ ListSame
  BY <1>1, SameList, Zenon DEF IInv
<1>3. /\ n \in Nat /\ At[n] = Null
      /\ \A i \in 0 .. n - 1 : At[i] \in Handle /\ next[At[i]] = At[i + 1]
  BY ListOrdered, Zenon DEF IInv, Ordered
<1>4. c \in Handle /\ shot[c] \in Shot /\ next[c] \in Handle \cup {Null}
      /\ rows[h] \in Seq(Row) /\ count[h] \in Nat
  BY <1>1, <1>2, Zenon DEF Types
<1>5. k <= n /\ c = At[k] /\ \A i \in 1 .. k : rows[h][i].handle = At[i - 1]
  BY <1>1, <1>2, Zenon DEF Linked
<1>6. shot[c].first = shot[c].last
  <2>1. Guarded(c)
    BY <1>4, Zenon DEF IInv
  <2> QED  BY <1>1, <2>1, Zenon DEF Guarded
<1>7. row \in Row /\ row.handle = c /\ row.shot = shot[c]
  BY <1>4, Zenon DEF Row
<1> HIDE DEF row, n
<1>8. k \in Nat /\ k + 1 <= n /\ next[c] = At[k + 1]
  <2>1. k \in Nat
    BY <1>4
  <2>2. k # n
    BY <1>1, <1>3, <1>5, Zenon
  <2>3. k \in 0 .. n - 1 /\ k + 1 <= n
    BY <1>3, <1>5, <2>1, <2>2
  <2> QED  BY <1>3, <1>5, <2>1, <2>3, Zenon
<1>9. /\ rows'[h] = Append(rows[h], row) /\ cur'[h] = next[c]
      /\ \A w \in Handle \ {h} : Frame(w)
  BY <1>1, <1>2, Zenon DEF Types, Frame
<1>10. /\ Append(rows[h], row) \in Seq(Row) /\ Len(rows'[h]) = k + 1
       /\ rows'[h][k + 1] = row /\ \A i \in 1 .. k : rows'[h][i] = rows[h][i]
  BY <1>4, <1>7, <1>9
<1>11. Types'
  <2>1. rows' \in [Handle -> Seq(Row)] /\ cur' \in [Handle -> Handle \cup {Null}]
    BY <1>1, <1>2, <1>4, <1>10, Zenon DEF Types
  <2> QED  BY <1>1, <1>2, <2>1, Zenon DEF Types
<1>12. \A i \in 1 .. k + 1 : i \in 1 .. k \/ i = k + 1
  BY <1>8
<1> HIDE DEF k, c
<1>13. Guarded(h)'
  BY <1>1, <1>2, Zenon DEF Guarded
<1>14. Collected(h)'
  <2>1. Len(rows'[h]) <= count'[h]
    BY <1>1, <1>4, <1>8, <1>10
  <2>2. \A i \in 1 .. k : rows[h][i].shot.first = rows[h][i].shot.last
    BY <1>2, Zenon DEF Collected, k
  <2>3. \A i \in 1 .. Len(rows'[h]) : rows'[h][i].shot.first = rows'[h][i].shot.last
    BY <1>6, <1>7, <1>10, <1>12, <2>2, Zenon
  <2>4. pc'[h] = "walking"
    BY <1>1, Zenon
  <2> QED  BY <2>1, <2>3, <2>4, Zenon DEF Collected
<1>15. Linked(h)'
  <2>1. (k + 1) - 1 = k
    BY <1>8
  <2>2. \A i \in 1 .. Len(rows'[h]) : rows'[h][i].handle = At[i - 1]
    BY <1>5, <1>7, <1>10, <1>12, <2>1, Zenon
  <2>3. Len(rows'[h]) <= Cardinality(Positions) /\ cur'[h] = At[Len(rows'[h])]
    BY <1>8, <1>9, <1>10, Zenon DEF n
  <2> QED  BY <1>1, <1>2, <2>2, <2>3, Zenon DEF Linked, Collecting, ListSame
<1> QED  BY <1>2, <1>9, <1>11, <1>13, <1>14, <1>15, LocalStep, Zenon

(* A walk that has come to NULL has met every handle in the list, each once. *)
LEMMA EndWalkSafe == ASSUME IInv, NEW h \in Handle, EndWalk(h) PROVE IInv'
<1> DEFINE k == Len(rows[h])
           n == Cardinality(Positions)
<1>1. /\ pc[h] = "walking" /\ pc' = [pc EXCEPT ![h] = "listed"] /\ cur[h] = Null
      /\ registry' = Null
      /\ UNCHANGED <<head, next, snap, session, shot, count, cur, rows, always, ever, ops>>
  BY Zenon DEF EndWalk, Goto, walk, ghosts, bounds
<1>2. Types /\ Guarded(h) /\ Collected(h) /\ Linked(h) /\ ListSame
  BY <1>1, SameList, Zenon DEF IInv
<1>3. registry = h
  BY <1>1, <1>2, Zenon DEF Guarded
<1>4. Types'
  <2>1. "listed" \in Labels
    BY Zenon DEF Labels
  <2> QED  BY <1>1, <1>2, <2>1, Went, Zenon DEF Types
<1>5. pc'[h] = "listed" /\ \A w \in Handle \ {h} : Frame(w)
  BY <1>1, <1>2, <1>3, HandleAssumption, Zenon DEF Types, Frame
<1>6. /\ n \in Nat /\ Registered = {At[i] : i \in 0 .. n - 1} /\ Cardinality(Registered) = n
      /\ \A i \in 0 .. n - 1 : At[i] # Null
  BY ListOrdered, HandleAssumption, Zenon DEF IInv, Ordered
<1>7. /\ k <= n /\ At[k] = Null /\ \A i \in 1 .. k : rows[h][i].handle = At[i - 1]
      /\ always[h] \subseteq Registered /\ Registered \subseteq ever[h]
  BY <1>1, <1>2, Zenon DEF Linked, Collecting
<1>8. k = n
  <2>1. k \in Nat
    <3>1. rows[h] \in Seq(Row)
      BY <1>2, Zenon DEF Types
    <3> QED  BY <3>1
  <2>2. k \notin 0 .. n - 1
    BY <1>6, <1>7, Zenon
  <2> HIDE DEF k, n
  <2> QED  BY <1>6, <1>7, <2>1, <2>2
<1>9. HandlesOf(rows[h]) = Registered
  <2> HIDE DEF n
  <2>1. \A i \in 1 .. n : i - 1 \in 0 .. n - 1
    BY <1>6
  <2>2. \A i \in 0 .. n - 1 : i + 1 \in 1 .. n /\ (i + 1) - 1 = i
    BY <1>6
  <2>3. HandlesOf(rows[h]) \subseteq Registered
    BY <1>6, <1>7, <1>8, <2>1, Zenon DEF HandlesOf
  <2>4. ASSUME NEW i \in 0 .. n - 1 PROVE At[i] \in HandlesOf(rows[h])
    <3>1. rows[h][i + 1].handle = At[i] /\ i + 1 \in 1 .. Len(rows[h])
      BY <1>7, <1>8, <2>2, Zenon
    <3> QED  BY <3>1, Zenon DEF HandlesOf
  <2> QED  BY <1>6, <2>3, <2>4, Zenon
<1>10. Guarded(h)'
  BY <1>1, <1>2, <1>5, HandleAssumption, Zenon DEF Guarded
<1>11. Collected(h)'
  <2> HIDE DEF n
  <2>1. always[h] \subseteq HandlesOf(rows[h]) /\ HandlesOf(rows[h]) \subseteq ever[h]
        /\ Cardinality(HandlesOf(rows[h])) = Len(rows[h])
    BY <1>6, <1>7, <1>8, <1>9, Zenon
  <2> QED  BY <1>1, <1>2, <1>5, <2>1, Zenon DEF Collected
<1>12. Linked(h)'
  BY <1>1, <1>2, <1>5, Zenon DEF Linked, Collecting, ListSame
<1> QED  BY <1>2, <1>4, <1>5, <1>10, <1>11, <1>12, LocalStep, Zenon

-----------------------------------------------------------------------------
(* Steps that change the list.                                             *)

(* What a chain tells of the list, before and after a step. *)
Shown ==
    \A n, g : Chain(g, n) =>
        /\ At = [i \in 0 .. N |-> IF i < n THEN g[i] ELSE Null]
        /\ Positions = 0 .. n - 1 /\ Registered = Members(g, n)

LEMMA ListShown == Shown
<1> SUFFICES ASSUME NEW n, NEW g, Chain(g, n)
             PROVE  /\ At = [i \in 0 .. N |-> IF i < n THEN g[i] ELSE Null]
                    /\ Positions = 0 .. n - 1 /\ Registered = Members(g, n)
  BY Zenon DEF Shown
<1>1. Positions = 0 .. n - 1 /\ Registered = Members(g, n)
  BY ChainShows, Zenon DEF Members
<1> QED  BY <1>1, ChainAt, Zenon

LEMMA AllocateSafe == ASSUME IInv, NEW h \in Handle, Allocate(h) PROVE IInv'
<1>1. /\ pc[h] = "freed" /\ ops' = [ops EXCEPT ![h] = 0]
      /\ session' = [session EXCEPT ![h] = 0]
      /\ shot' = [shot EXCEPT ![h] = [first |-> 0, last |-> 0]]
      /\ next' = [next EXCEPT ![h] = Null]
      /\ UNCHANGED <<head, registry, snap, count, cur, rows, always, ever>>
  BY Zenon DEF Allocate, walk, ghosts
<1>2. PICK l \in {"allocated", "closing"} : pc' = [pc EXCEPT ![h] = l]
  BY Zenon DEF Allocate, Goto
<1>3. Types /\ Chained /\ Guarded(h) /\ Collected(h) /\ Linked(h)
  BY Zenon DEF IInv
<1>4. h \notin Registered
  BY <1>1, <1>3, Zenon DEF Linked
<1>5. ListSame
  <2>1. PICK n, g : Chain(g, n)
    BY <1>3, Zenon DEF Chained
  <2>2. Registered = Members(g, n) /\ \A i \in 0 .. n - 1 : g[i] \in Handle
    BY <2>1, ListShown, Zenon DEF Shown, Chain
  <2>3. \A i \in 0 .. n - 1 : next'[g[i]] = next[g[i]]
    BY <1>1, <1>3, <1>4, <2>2, Zenon DEF Types, Members
  <2>4. Chain(g, n)'
    BY <1>1, <2>1, <2>3, ChainKept, Zenon
  <2>5. Shown'
    BY ListShown, PTL
  <2>6. /\ At' = [i \in 0 .. N |-> IF i < n THEN g[i] ELSE Null]
        /\ Positions' = 0 .. n - 1 /\ Registered' = Members(g, n)
    BY <2>4, <2>5, Zenon DEF Shown, N
  <2>7. /\ At = [i \in 0 .. N |-> IF i < n THEN g[i] ELSE Null]
        /\ Positions = 0 .. n - 1 /\ Registered = Members(g, n)
    BY <2>1, ListShown, Zenon DEF Shown
  <2>8. Chained'
    BY <2>4, Zenon DEF Chained
  <2> QED  BY <2>6, <2>7, <2>8, Zenon DEF ListSame
<1>6. Types'
  <2>1. l \in Labels
    BY <1>2, Zenon DEF Labels
  <2>2. shot' \in [Handle -> Shot] /\ session' \in [Handle -> Nat] /\ ops' \in [Handle -> Nat]
    <3>1. 0 \in Nat /\ [first |-> 0, last |-> 0] \in Shot
      BY Zenon DEF Shot
    <3> QED  BY <1>1, <1>3, <3>1, Zenon DEF Types
  <2>3. next' \in [Handle -> Handle \cup {Null}]
    BY <1>1, <1>3, Zenon DEF Types
  <2> QED  BY <1>1, <1>2, <1>3, <2>1, <2>2, <2>3, Went, Zenon DEF Types
<1>7. /\ pc'[h] \in {"allocated", "closing"} /\ shot'[h] = [first |-> 0, last |-> 0]
      /\ \A w \in Handle \ {h} : Frame(w)
  BY <1>1, <1>2, <1>3, Zenon DEF Types, Frame
<1>8. Guarded(h)'
  <2>1. shot'[h].first = shot'[h].last
    BY <1>7
  <2> QED  BY <1>1, <1>3, <1>7, <2>1, Zenon DEF Guarded
<1>9. Collected(h)'
  BY <1>1, <1>3, <1>7, Zenon DEF Collected
<1>10. Linked(h)'
  <2>1. h \notin Registered'
    BY <1>4, <1>5, Zenon DEF ListSame
  <2> QED  BY <1>7, <2>1, Zenon DEF Linked, Collecting
<1> QED  BY <1>5, <1>6, <1>7, <1>8, <1>9, <1>10, LocalStep, Zenon

(* While the registry mutex is free no walk is under way, and a step of h on the *)
(* list is as good as local if it adds or removes h alone and keeps account.     *)
LEMMA ListStep ==
    ASSUME IInv, Types', Chained', NEW h \in Handle, registry = Null,
           UNCHANGED <<registry, snap, session, shot, count, cur, rows>>,
           \A w \in Handle \ {h} : pc'[w] = pc[w],
           \A w \in Handle \ {h} : w \in Registered' <=> w \in Registered,
           \A w \in Handle \ {h} : always'[w] \subseteq always[w] /\ ever[w] \subseteq ever'[w],
           \A w \in Handle \ {h} : Collecting(w) =>
              always'[w] \subseteq Registered' /\ Registered' \subseteq ever'[w],
           Guarded(h)', Collected(h)', Linked(h)'
    PROVE  IInv'
<1>1. ASSUME NEW w \in Handle \ {h} PROVE Guarded(w)' /\ Collected(w)' /\ Linked(w)'
  <2>1. /\ Guarded(w) /\ Collected(w) /\ Linked(w) /\ pc'[w] = pc[w]
        /\ always'[w] \subseteq always[w] /\ ever[w] \subseteq ever'[w]
    BY <1>1, Zenon DEF IInv
  <2>2. Guarded(w)'
    BY <2>1, Zenon DEF Guarded
  <2>3. Collected(w)'
    BY <2>1, Zenon DEF Collected
  <2>4. pc[w] # "walking"
    BY <2>1, HandleAssumption, Zenon DEF Guarded
  <2>5. Linked(w)'
    BY <1>1, <2>1, <2>4, Zenon DEF Linked, Collecting
  <2> QED  BY <2>2, <2>3, <2>5, Zenon
<1> QED  BY <1>1, Zenon DEF IInv

LEMMA RegisterSafe == ASSUME IInv, NEW h \in Handle, Register(h) PROVE IInv'
<1>1. /\ pc[h] = "allocated" /\ pc' = [pc EXCEPT ![h] = "open"] /\ registry = Null
      /\ next' = [next EXCEPT ![h] = head] /\ head' = h
      /\ ever' = [w \in Handle |-> IF Collecting(w) THEN ever[w] \cup {h} ELSE ever[w]]
      /\ UNCHANGED <<registry, snap, session, shot, count, cur, rows, always, ops>>
  BY Zenon DEF Register, Goto, walk, bounds
<1>2. Types /\ Chained /\ Guarded(h) /\ Collected(h) /\ Linked(h)
  BY Zenon DEF IInv
<1>3. h \notin Registered
  BY <1>1, <1>2, Zenon DEF Linked
<1>4. Chained' /\ Registered' = Registered \cup {h}
  <2>1. PICK n, g : Chain(g, n)
    BY <1>2, Zenon DEF Chained
  <2>2. Registered = Members(g, n)
    BY <2>1, ListShown, Zenon DEF Shown
  <2>3. next \in [Handle -> Handle \cup {Null}] /\ h \notin Members(g, n)
    BY <1>2, <1>3, <2>2, Zenon DEF Types
  <2>4. PICK p, m : Chain(p, m)' /\ Members(p, m) = Members(g, n) \cup {h}
    BY <1>1, <2>1, <2>3, ChainPushed, Zenon
  <2>5. Shown'
    BY ListShown, PTL
  <2>6. Registered' = Members(p, m)
    BY <2>4, <2>5, Zenon DEF Shown
  <2> QED  BY <2>2, <2>4, <2>6, Zenon DEF Chained
<1>5. Types'
  <2>1. "open" \in Labels
    BY Zenon DEF Labels
  <2>2. ever' \in [Handle -> SUBSET Handle] /\ next' \in [Handle -> Handle \cup {Null}]
    BY <1>1, <1>2, Zenon DEF Types
  <2> QED  BY <1>1, <1>2, <2>1, <2>2, Went, Zenon DEF Types
<1>6. pc'[h] = "open" /\ \A w \in Handle \ {h} : pc'[w] = pc[w]
  BY <1>1, <1>2, Zenon DEF Types
<1>7. \A w \in Handle : ever'[w] = IF Collecting(w) THEN ever[w] \cup {h} ELSE ever[w]
  BY <1>1, Zenon
<1>8. \A w \in Handle \ {h} : Collecting(w) =>
         always'[w] \subseteq Registered' /\ Registered' \subseteq ever'[w]
  <2>1. \A w \in Handle :
           Collecting(w) => always[w] \subseteq Registered /\ Registered \subseteq ever[w]
    BY Zenon DEF IInv, Linked
  <2> QED  BY <1>1, <1>4, <1>7, <2>1, Zenon
<1>9. \A w \in Handle \ {h} : always'[w] \subseteq always[w] /\ ever[w] \subseteq ever'[w]
  BY <1>1, <1>7, Zenon
<1>10. \A w \in Handle \ {h} : w \in Registered' <=> w \in Registered
  BY <1>4, Zenon
<1>11. Guarded(h)'
  BY <1>1, <1>2, <1>6, Zenon DEF Guarded
<1>12. Collected(h)'
  BY <1>1, <1>2, <1>6, Zenon DEF Collected
<1>13. Linked(h)'
  BY <1>4, <1>6, Zenon DEF Linked, Collecting
<1> QED  BY <1>1, <1>4, <1>5, <1>6, <1>8, <1>9, <1>10, <1>11, <1>12, <1>13, ListStep, Zenon

LEMMA ListUnlinked ==
    ASSUME Types, Chained, NEW h \in Handle,
           head' = (IF head = h THEN next[h] ELSE head),
           next' = [x \in Handle |-> IF x \in Registered /\ next[x] = h THEN next[h]
                                     ELSE IF x = h /\ h \in Registered THEN Null ELSE next[x]]
    PROVE  Chained' /\ Registered' = Registered \ {h}
<1>1. PICK n, g : Chain(g, n)
  BY Zenon DEF Chained
<1>2. Registered = Members(g, n) /\ next \in [Handle -> Handle \cup {Null}]
  BY <1>1, ListShown, Zenon DEF Shown, Types
<1>3. /\ n \in Nat /\ g[0] = head /\ g[n] = Null
      /\ \A i \in 0 .. n - 1 : g[i] \in Handle /\ next[g[i]] = g[i + 1]
  BY <1>1, Zenon DEF Chain
<1>4. Shown'
  BY ListShown, PTL
<1>5. CASE h \in Registered
  <2>1. h \in Members(g, n)
    BY <1>2, <1>5, Zenon
  <2>2. Unlinking(h, Members(g, n))
    BY <1>2, <1>3, Zenon DEF Members, Unlinking
  <2>3. PICK q, m : Chain(q, m)' /\ Members(q, m) = Members(g, n) \ {h}
    BY <1>1, <1>2, <2>1, <2>2, ChainUnlinked, Zenon
  <2>4. Registered' = Members(q, m)
    BY <1>4, <2>3, Zenon DEF Shown
  <2> QED  BY <1>2, <2>3, <2>4, Zenon DEF Chained
<1>6. CASE h \notin Registered
  <2>1. \A i \in 0 .. n - 1 : g[i + 1] # h
    <3> SUFFICES ASSUME NEW i \in 0 .. n - 1 PROVE g[i + 1] # h
      BY Zenon
    <3>1. i + 1 \in 0 .. n - 1 \/ i + 1 = n
      BY <1>3
    <3> QED  BY <1>2, <1>3, <1>6, <3>1, HandleAssumption, Zenon DEF Members
  <2>2. head # h
    <3>1. 0 \in 0 .. n - 1 \/ 0 = n
      BY <1>3
    <3> QED  BY <1>2, <1>3, <1>6, <3>1, HandleAssumption, Zenon DEF Members
  <2>3. \A i \in 0 .. n - 1 : next'[g[i]] = next[g[i]]
    BY <1>3, <1>6, <2>1, Zenon
  <2>4. UNCHANGED head
    BY <2>2, Zenon
  <2>5. Chain(g, n)'
    BY <1>1, <2>3, <2>4, ChainKept, Zenon
  <2>6. Registered' = Members(g, n)
    BY <1>4, <2>5, Zenon DEF Shown
  <2> QED  BY <1>2, <1>6, <2>5, <2>6, Zenon DEF Chained
<1> QED  BY <1>5, <1>6, Zenon

LEMMA UnregisterSafe == ASSUME IInv, NEW h \in Handle, Unregister(h) PROVE IInv'
<1>1. /\ pc[h] = "closing" /\ pc' = [pc EXCEPT ![h] = "unlisted"] /\ registry = Null
      /\ head' = (IF head = h THEN next[h] ELSE head)
      /\ next' = [x \in Handle |-> IF x \in Registered /\ next[x] = h THEN next[h]
                                   ELSE IF x = h /\ h \in Registered THEN Null ELSE next[x]]
      /\ always' = [w \in Handle |-> always[w] \ {h}]
      /\ UNCHANGED <<registry, snap, session, shot, count, cur, rows, ever, ops>>
  BY Zenon DEF Unregister, Goto, walk, bounds
<1>2. Types /\ Chained /\ Guarded(h) /\ Collected(h) /\ Linked(h)
  BY Zenon DEF IInv
<1>3. Chained' /\ Registered' = Registered \ {h}
  BY <1>1, <1>2, ListUnlinked, Zenon
<1>4. Types'
  <2>1. "unlisted" \in Labels
    BY Zenon DEF Labels
  <2>2. always' \in [Handle -> SUBSET Handle]
    BY <1>1, <1>2, Zenon DEF Types
  <2>3. next' \in [Handle -> Handle \cup {Null}] /\ head' \in Handle \cup {Null}
    BY <1>1, <1>2, Zenon DEF Types
  <2> QED  BY <1>1, <1>2, <2>1, <2>2, <2>3, Went, Zenon DEF Types
<1>5. pc'[h] = "unlisted" /\ \A w \in Handle \ {h} : pc'[w] = pc[w]
  BY <1>1, <1>2, Zenon DEF Types
<1>6. \A w \in Handle : always'[w] = always[w] \ {h} /\ ever'[w] = ever[w]
  BY <1>1, Zenon
<1>7. \A w \in Handle \ {h} : Collecting(w) =>
         always'[w] \subseteq Registered' /\ Registered' \subseteq ever'[w]
  <2>1. \A w \in Handle :
           Collecting(w) => always[w] \subseteq Registered /\ Registered \subseteq ever[w]
    BY Zenon DEF IInv, Linked
  <2> QED  BY <1>3, <1>6, <2>1, Zenon
<1>8. \A w \in Handle \ {h} : always'[w] \subseteq always[w] /\ ever[w] \subseteq ever'[w]
  BY <1>6, Zenon
<1>9. \A w \in Handle \ {h} : w \in Registered' <=> w \in Registered
  BY <1>3, Zenon
<1>10. Guarded(h)'
  BY <1>1, <1>2, <1>5, Zenon DEF Guarded
<1>11. Collected(h)'
  BY <1>1, <1>2, <1>5, Zenon DEF Collected
<1>12. Linked(h)'
  BY <1>3, <1>5, Zenon DEF Linked, Collecting
<1> QED  BY <1>1, <1>3, <1>4, <1>5, <1>7, <1>8, <1>9, <1>10, <1>11, <1>12, ListStep, Zenon

-----------------------------------------------------------------------------
(* The invariant and what follows from it.                                 *)

LEMMA InitIInv == Init => IInv
<1> SUFFICES ASSUME Init PROVE IInv
  BY Zenon
<1>1. Types
  <2>1. "freed" \in Labels
    BY Zenon DEF Labels
  <2>2. <<>> \in Seq(Row)
    OBVIOUS
  <2>3. [first |-> 0, last |-> 0] \in Shot
    BY Zenon DEF Shot
  <2>4. /\ session \in [Handle -> Nat] /\ count \in [Handle -> Nat] /\ ops \in [Handle -> Nat]
        /\ always \in [Handle -> SUBSET Handle] /\ ever \in [Handle -> SUBSET Handle]
    BY Zenon DEF Init
  <2> QED  BY <2>1, <2>2, <2>3, <2>4, Zenon DEF Init, Types
<1>2. Chain([i \in 0 .. 0 |-> Null], 0)
  BY DEF Init, Chain
<1>3. Chained
  BY <1>2, Zenon DEF Chained
<1>4. Registered = {}
  <2> DEFINE g == [i \in 0 .. 0 |-> Null]
  <2>1. Chain(g, 0)
    BY <1>2, Zenon
  <2> HIDE DEF g
  <2>2. Registered = Members(g, 0)
    BY <2>1, ListShown, Zenon DEF Shown
  <2> QED  BY <2>2 DEF Members
<1>5. ASSUME NEW h \in Handle PROVE Guarded(h) /\ Collected(h) /\ Linked(h)
  <2>1. /\ pc[h] = "freed" /\ snap = {} /\ registry = Null /\ rows[h] = <<>> /\ count[h] = 0
        /\ shot[h] = [first |-> 0, last |-> 0]
    BY Zenon DEF Init
  <2>2. shot[h].first = shot[h].last
    BY <2>1
  <2>3. Guarded(h)
    BY <2>1, <2>2, HandleAssumption, Zenon DEF Guarded
  <2>4. Collected(h)
    BY <2>1 DEF Collected
  <2>5. Linked(h)
    BY <1>4, <2>1, Zenon DEF Linked, Collecting
  <2> QED  BY <2>3, <2>4, <2>5, Zenon
<1> QED  BY <1>1, <1>3, <1>5, Zenon DEF IInv

LEMMA NextIInv == IInv /\ [Next]_vars => IInv'
<1> SUFFICES ASSUME IInv, [Next]_vars PROVE IInv'
  BY Zenon
<1>1. ASSUME NEW h \in Handle, Continue(h) PROVE IInv'
  BY <1>1, RegisterSafe, BeginPublishSafe, EndPublishSafe, CountSessionsSafe, FailToAllocateSafe,
     BeginWalkSafe, CopySessionSafe, RetryWalkSafe, EndWalkSafe, UnregisterSafe, FreeSafe, Zenon
     DEF Continue
<1>2. ASSUME NEW h \in Handle, Allocate(h) \/ Execute(h) \/ BeginCollect(h) \/ Close(h) PROVE IInv'
  BY <1>2, AllocateSafe, ExecuteSafe, BeginCollectSafe, CloseSafe, Zenon
<1>3. CASE UNCHANGED vars
  <2>1. /\ UNCHANGED <<head, next, registry, snap, session, shot, pc, count, cur, rows>>
        /\ UNCHANGED <<always, ever, ops>>
    BY <1>3, Zenon DEF vars, walk, ghosts, bounds
  <2>2. ListSame /\ Types
    BY <2>1, SameList, Zenon DEF IInv
  <2>3. Types'
    BY <2>1, <2>2, Zenon DEF Types
  <2>4. \A w \in Handle : Frame(w)
    BY <2>1, Zenon DEF Frame
  <2> QED  BY <2>2, <2>3, <2>4, FrameKeeps, Zenon DEF IInv, ListSame
<1> QED  BY <1>1, <1>2, <1>3, Zenon DEF Next

(* The inductive invariant holds in every state of the registry. *)
THEOREM InductiveInvariant == Spec => []IInv
  BY InitIInv, NextIInv, PTL DEF Spec

LEMMA IInvList == IInv => RegistryIsOpenHandles
<1> SUFFICES ASSUME IInv PROVE RegistryIsOpenHandles
  BY Zenon
<1>1. Ordered /\ \A h \in Handle : Linked(h)
  BY ListOrdered, Zenon DEF IInv
<1>2. {h \in Listed : pc[h] # "closing"} \subseteq Registered
  BY <1>1, Zenon DEF Listed, Linked
<1>3. Registered \subseteq Listed
  BY <1>1, Zenon DEF Listed, Linked, Ordered
<1> QED  BY <1>1, <1>2, <1>3, Zenon DEF RegistryIsOpenHandles, Ordered, N

LEMMA IInvWalk == IInv => WalkMeetsLiveHandles
<1> SUFFICES ASSUME IInv, NEW h \in Handle, pc[h] = "walking", cur[h] # Null PROVE cur[h] \in Listed
  BY Zenon DEF WalkMeetsLiveHandles
<1> DEFINE n == Cardinality(Positions)
           k == Len(rows[h])
<1>1. /\ n \in Nat /\ At[n] = Null /\ Registered = {At[i] : i \in 0 .. n - 1}
      /\ k <= n /\ cur[h] = At[k] /\ rows[h] \in Seq(Row)
  BY ListOrdered, Zenon DEF IInv, Ordered, Linked, Types
<1>2. k \in Nat /\ k # n
  BY <1>1
<1> HIDE DEF n, k
<1>3. k \in 0 .. n - 1
  BY <1>1, <1>2
<1>4. cur[h] \in Registered
  BY <1>1, <1>3, Zenon
<1> QED  BY <1>4, IInvList, Zenon DEF RegistryIsOpenHandles

(* The list behind processlist_registry_head holds the open handles, each  *)
(* once, whatever the order of opens, failed opens and closes was.         *)
THEOREM RegistryStaysRight == Spec => []RegistryIsOpenHandles
  BY InductiveInvariant, IInvList, PTL

(* The handle that the walk of SHOW PROCESSLIST is about to lock and copy  *)
(* has not been destroyed: closing it waits for the registry mutex.        *)
THEOREM WalksMeetLiveHandles == Spec => []WalkMeetsLiveHandles
  BY InductiveInvariant, IInvWalk, PTL

(* Every listed session is as some statement of it left it, although its   *)
(* thread publishes field by field and takes only its own mutex.           *)
THEOREM RowsStayWhole == Spec => []RowsWhole
<1>1. IInv => RowsWhole
  BY Zenon DEF IInv, Collected, RowsWhole
<1> QED  BY <1>1, InductiveInvariant, PTL

(* SHOW PROCESSLIST lists every session that was open all the time, none   *)
(* twice, none that was not open at any time, and never more than it has   *)
(* memory for, however many handles come and go between its two walks.     *)
THEOREM ListsAreComplete == Spec => []ListComplete
<1>1. IInv => ListComplete
  <2> SUFFICES ASSUME IInv, NEW h \in Handle
               PROVE  /\ Len(rows[h]) <= count[h]
                      /\ pc[h] = "listed" =>
                           /\ always[h] \subseteq HandlesOf(rows[h])
                           /\ HandlesOf(rows[h]) \subseteq ever[h]
                           /\ Cardinality(HandlesOf(rows[h])) = Len(rows[h])
    BY Zenon DEF ListComplete, HandlesOf
  <2> QED  BY Zenon DEF IInv, Collected
<1> QED  BY <1>1, InductiveInvariant, PTL
=============================================================================
