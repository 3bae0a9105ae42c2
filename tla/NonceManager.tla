---------------------------- MODULE NonceManager ----------------------------
(***************************************************************************)
(* The nonce cache of the facilitator: src/apps/facilitator/src/services/  *)
(* nonce-manager.ts.  It lives in the memory of one process.  usedNonces   *)
(* and nonceTimestamps always change together and are one variable.        *)
(***************************************************************************)
EXTENDS X402Facilitator

CONSTANTS
  CACHE_TTL   (* 24 h                                                      *)

VARIABLES
  usedSince,      (* [Keys -> time it was found used, or Never]            *)
  pendingNonces   (* SUBSET Keys                                           *)

cacheVars == <<usedSince, pendingNonces>>

Never == -1

CacheInit ==
  /\ usedSince = [k \in Keys |-> Never]
  /\ pendingNonces = {}

IsUsed(k) == usedSince[k] # Never
IsNonceUsedLocally(k) == IsUsed(k) \/ k \in pendingNonces
IsNonceUsedOnChain(k) == usedNonces[k] # Nobody

MarkNoncePending(k) ==
  /\ pendingNonces' = pendingNonces \cup {k}
  /\ UNCHANGED usedSince

MarkNonceUsed(k) ==
  /\ pendingNonces' = pendingNonces \ {k}
  /\ usedSince' = [usedSince EXCEPT ![k] = now]

MarkNonceFailed(k) ==
  /\ pendingNonces' = pendingNonces \ {k}
  /\ UNCHANGED usedSince

(* Hourly: forgets what was found used longer ago than CACHE_TTL.          *)
CleanupOldNonces ==
  /\ \E k \in Keys : IsUsed(k) /\ now - usedSince[k] > CACHE_TTL
  /\ usedSince' = [k \in Keys |->
       IF now - usedSince[k] > CACHE_TTL THEN Never ELSE usedSince[k]]
  /\ UNCHANGED pendingNonces
=============================================================================
