----------------------------- MODULE AccessLimit -----------------------------
(***************************************************************************)
(* The daily access limit of an application: ensure_access in              *)
(* src/apps/chat/auth.py over cache_incr in src/apps/common/cache.py.      *)
(* One counter, that of one application, identity and day.                 *)
(***************************************************************************)
EXTENDS Integers

CONSTANTS
  Turn,    \* requests that ask a question
  Limits   \* values of max_access_count; 0 is no limit

ASSUME LimitAssumption == Limits \subseteq Nat

VARIABLES
  maximum,  \* Application.max_access_count
  access,   \* where a request is in ensure_access
  counter,  \* app_access:<app>:<identity>:<day>, 0 when the key is absent
  granted,  \* history: how many requests were let in
  resets    \* history: how many times the key was set to its first value

limit == <<maximum, access, counter, granted, resets>>

AccessInit ==
  /\ maximum \in Limits
  /\ access = [r \in Turn |-> "new"]
  /\ counter = 0
  /\ granted = 0
  /\ resets = 0

\* Variant: the limit itself is passed once more.
DecideLate(r, used) ==
  /\ access' = [access EXCEPT ![r] = IF used > maximum + 1 THEN "refused" ELSE "granted"]
  /\ granted' = IF used > maximum + 1 THEN granted ELSE granted + 1

\* The comparison at the end of ensure_access, with what cache_incr returned.
Decide(r, used) ==
  /\ access' = [access EXCEPT ![r] = IF used > maximum THEN "refused" ELSE "granted"]
  /\ granted' = IF used > maximum THEN granted ELSE granted + 1

Unlimited(r) ==
  /\ access[r] = "new" /\ maximum = 0
  /\ access' = [access EXCEPT ![r] = "granted"]
  /\ granted' = granted + 1
  /\ UNCHANGED <<counter, resets>>

\* INCR of a key that is there.
Incr(r) ==
  /\ access[r] = "new" /\ maximum > 0
  /\ counter > 0
  /\ counter' = counter + 1
  /\ Decide(r, counter + 1)
  /\ UNCHANGED resets

\* INCR of a key that is not there: ValueError.
Miss(r) ==
  /\ access[r] = "new" /\ maximum > 0
  /\ counter = 0
  /\ access' = [access EXCEPT ![r] = "missed"]
  /\ UNCHANGED <<counter, granted, resets>>

\* SET after the miss, whatever happened in between.
Set(r) ==
  /\ access[r] = "missed"
  /\ counter' = 1
  /\ resets' = resets + 1
  /\ Decide(r, 1)

EnsureAccess(r) == (Unlimited(r) \/ Incr(r) \/ Miss(r) \/ Set(r)) /\ UNCHANGED maximum

\* The cache loses the counter.
Forget ==
  /\ counter' = 0
  /\ UNCHANGED <<maximum, access, granted, resets>>

AccessNext == Forget \/ \E r \in Turn : EnsureAccess(r)

AccessSpec == AccessInit /\ [][AccessNext]_limit

-----------------------------------------------------------------------------
(***************************************************************************)
(* Each first value lets at most the limit in: it holds exactly when       *)
(* nobody races for the first value and the cache keeps the counter; n     *)
(* first values let in n times as many at worst.                           *)
(***************************************************************************)
GrantedAtMost == maximum > 0 => granted <= maximum * resets
=============================================================================
