--------------------------- MODULE AdvisoryLocks ---------------------------
(***************************************************************************)
(* The advisory lock of a spec (ADR-018 D2): a row of spec_locks that says *)
(* who is editing.  Writers do not ask for it; it expires, and the next    *)
(* caller takes it over.  Each statement is a step; now() is the clock of  *)
(* the database.                                                           *)
(*                                                                         *)
(* Abstractions: one spec; times are kept as what is left of them; every   *)
(* caller asks for the default time to live.                               *)
(***************************************************************************)
EXTENDS Integers

CONSTANTS
    Holders,       \* the labels callers give themselves
    TTL,           \* DEFAULT_LOCK_TTL_SECONDS
    NoLock

ASSUME TTLAssumption == TTL \in Nat \ {0}
ASSUME NoLockAssumption == NoLock \notin [holder : Holders, left : 0..TTL]

VARIABLES
    row,           \* spec_locks: [holder, left], left = 0 once expired
    call,          \* a caller's last acquire: idle, acquired, refused, held, error
    granted        \* history: what is left of the time a holder was told

locksVars == <<row, call, granted>>

(* The WHERE of ON CONFLICT DO UPDATE. *)
Takeable(h) ==
    \/ row = NoLock
    \/ row.holder = h
    \/ row.left = 0

(* acquireLock: the UPSERT, *)
Acquire(h) ==
    /\ call[h] # "refused"
    /\ IF Takeable(h)
       THEN /\ row' = [holder |-> h, left |-> TTL]
            /\ call' = [call EXCEPT ![h] = "acquired"]
            /\ granted' = [granted EXCEPT ![h] = TTL]
       ELSE /\ call' = [call EXCEPT ![h] = "refused"]
            /\ UNCHANGED <<row, granted>>

(* and, when it was refused, the read of who is in the way: a lock that was  *)
(* released in between is an error.                                          *)
ReadHolder(h) ==
    /\ call[h] = "refused"
    /\ call' = [call EXCEPT ![h] = IF row = NoLock THEN "error" ELSE "held"]
    /\ UNCHANGED <<row, granted>>

(* releaseLock: DELETE ... WHERE holder, however late the caller is.         *)
Released_Anyone(h) == NoLock    \* mutant: the row goes whoever holds it
Released(h) == IF row # NoLock /\ row.holder = h THEN NoLock ELSE row
Release(h) ==
    /\ call[h] # "refused"
    /\ row' = Released(h)
    /\ call' = [call EXCEPT ![h] = "idle"]
    /\ granted' = [granted EXCEPT ![h] = 0]

(* getLock: the live lock. *)
GetLock == IF row # NoLock /\ row.left > 0 THEN row ELSE NoLock

Elapsed(left) == IF left = 0 THEN 0 ELSE left - 1
Tick ==
    /\ row # NoLock /\ row.left > 0
    /\ row' = [row EXCEPT !.left = Elapsed(@)]
    /\ granted' = [h \in Holders |-> Elapsed(granted[h])]
    /\ UNCHANGED call

LocksInit ==
    /\ row = NoLock
    /\ call = [h \in Holders |-> "idle"]
    /\ granted = [h \in Holders |-> 0]

LocksNext ==
    \/ \E h \in Holders : Acquire(h) \/ ReadHolder(h) \/ Release(h)
    \/ Tick

LocksSpec == LocksInit /\ [][LocksNext]_locksVars

-----------------------------------------------------------------------------
(* Whoever was granted the lock and has not released it is who everyone is   *)
(* shown, for all the time that was granted: no take-over, refusal or late   *)
(* release of another caller cuts it short, so two grants never overlap.     *)
GrantIsShown ==
    \A h \in Holders : granted[h] > 0 => GetLock = [holder |-> h, left |-> granted[h]]
=============================================================================
