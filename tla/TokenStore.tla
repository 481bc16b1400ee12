----------------------------- MODULE TokenStore -----------------------------
(***************************************************************************)
(* The Redis keyspace of the refresh-token store and the commands the auth *)
(* service sends to it (services/auth/internal/redisstore/token_store.go). *)
(*                                                                         *)
(*   active[f]        rt:{f}:active               the allowlisted token    *)
(*   blacklist[t]     rt:{f}:blacklist:{hash t}   remaining TTL, 0 = none  *)
(*   grace[t]         rt:{f}:rotated:{hash t}     remaining TTL, 0 = none  *)
(*   userFamilies[u]  rt:user:{u}:families        a set that never expires *)
(*                                                                         *)
(* A token stands for its SHA-256 hash; a token names its family, so the   *)
(* per-family blacklist and grace keys are indexed by the token alone, and *)
(* the family id stored in a grace key always equals the caller's.  Every  *)
(* command below is one atomic step of Redis: a plain command, a MULTI     *)
(* block or a script.  Pipelines are not atomic and are split into their   *)
(* commands by the module that issues them.  TTLs count down in Tick       *)
(* steps; a key is gone when its TTL reaches 0.                            *)
(*                                                                         *)
(* The service binds no DPoP key (it passes an empty jkt), so the script's *)
(* JKT_MISMATCH branch is never taken and records carry no jkt.            *)
(***************************************************************************)
EXTENDS Integers

CONSTANTS
  Users,
  Families,       \* family ids (uuid.NewString)
  Tokens,         \* refresh tokens that can ever be minted
  None,           \* a missing key
  RefreshTTL,     \* cfg.RefreshTokenDuration, in ticks
  GraceTTL        \* rotatedGraceTTL, in ticks

ASSUME TTLAssumption == /\ RefreshTTL \in Nat \ {0}
                        /\ GraceTTL \in 1..RefreshTTL
ASSUME NoneAssumption ==
  /\ None \notin Tokens
  /\ None \notin [user : Users, tok : Tokens, kid : Nat, left : 1..RefreshTTL]

VARIABLES active, blacklist, grace, userFamilies

redisVars == <<active, blacklist, grace, userFamilies>>

\* ActiveRefreshTokenRecord with the TTL left on its key.
ActiveRecord == [user : Users, tok : Tokens, kid : Nat, left : 1..RefreshTTL]

RedisTypeOK ==
  /\ active \in [Families -> ActiveRecord \cup {None}]
  /\ blacklist \in [Tokens -> 0..RefreshTTL]
  /\ grace \in [Tokens -> 0..GraceTTL]
  /\ userFamilies \in [Users -> SUBSET Families]

RedisInit ==
  /\ active = [f \in Families |-> None]
  /\ blacklist = [t \in Tokens |-> 0]
  /\ grace = [t \in Tokens |-> 0]
  /\ userFamilies = [u \in Users |-> {}]

ActiveToken(f) == IF active[f] = None THEN None ELSE active[f].tok

-----------------------------------------------------------------------------
(* Rotation: atomicRotateFamilyScript.                                     *)

Outcomes == {"OK", "FAMILY_NOT_FOUND", "USER_MISMATCH", "HASH_MISMATCH",
             "KID_MISMATCH", "BLACKLISTED", "GRACE_HIT"}

\* Mutant: the grace key is never consulted.
RotateOutcome_NoGrace(f, u, t, kid) ==
  IF blacklist[t] > 0 THEN "BLACKLISTED"
  ELSE IF active[f] = None THEN "FAMILY_NOT_FOUND"
  ELSE IF active[f].tok # t THEN "HASH_MISMATCH"
  ELSE "OK"

\* Mutant: a missing record is taken for a first rotation.
RotateOutcome_Upsert(f, u, t, kid) ==
  IF blacklist[t] > 0 THEN IF grace[t] > 0 THEN "GRACE_HIT" ELSE "BLACKLISTED"
  ELSE IF active[f] = None THEN "OK"
  ELSE IF active[f].tok # t THEN "HASH_MISMATCH"
  ELSE "OK"

\* The script's checks, in the order it makes them.
RotateOutcome(f, u, t, kid) ==
  IF blacklist[t] > 0 THEN IF grace[t] > 0 THEN "GRACE_HIT" ELSE "BLACKLISTED"
  ELSE IF active[f] = None THEN "FAMILY_NOT_FOUND"
  ELSE IF active[f].user # u THEN "USER_MISMATCH"
  ELSE IF active[f].tok # t THEN "HASH_MISMATCH"
  ELSE IF active[f].kid # kid THEN "KID_MISMATCH"
  ELSE "OK"

\* Mutant: the consumed token is not blacklisted.
RotateKeys_NoBlacklist(f, u, t, new, kid) ==
  /\ active' = [active EXCEPT ![f] =
                  [user |-> u, tok |-> new, kid |-> kid, left |-> RefreshTTL]]
  /\ grace' = [grace EXCEPT ![t] = GraceTTL]
  /\ UNCHANGED blacklist

\* Mutant: the active key keeps its old TTL.
RotateKeys_KeepTTL(f, u, t, new, kid) ==
  /\ active' = [active EXCEPT ![f] =
                  [user |-> u, tok |-> new, kid |-> kid, left |-> @.left]]
  /\ grace' = [grace EXCEPT ![t] = GraceTTL]
  /\ blacklist' = [blacklist EXCEPT ![t] = RefreshTTL]

\* The three SETEX of the success branch.
RotateKeys(f, u, t, new, kid) ==
  /\ active' = [active EXCEPT ![f] =
                  [user |-> u, tok |-> new, kid |-> kid, left |-> RefreshTTL]]
  /\ grace' = [grace EXCEPT ![t] = GraceTTL]
  /\ blacklist' = [blacklist EXCEPT ![t] = RefreshTTL]

-----------------------------------------------------------------------------
(* Single commands and MULTI blocks.                                       *)

\* SET rt:{f}:active rec EX ttl, the first command of StoreFamilyActiveToken.
SetActive(f, u, t, kid) ==
  active' = [active EXCEPT ![f] =
               [user |-> u, tok |-> t, kid |-> kid, left |-> RefreshTTL]]

DelActive(f) == active' = [active EXCEPT ![f] = None]

SetBlacklist(t) == blacklist' = [blacklist EXCEPT ![t] = RefreshTTL]

SAddFamily(u, f) ==
  userFamilies' = [userFamilies EXCEPT ![u] = @ \cup {f}]

SRemFamilies(u, fs) ==
  userFamilies' = [userFamilies EXCEPT ![u] = @ \ fs]

DelUserFamilies(u) == userFamilies' = [userFamilies EXCEPT ![u] = {}]

\* Mutant: the allowlist entry is left in place.
KillFamily_KeepActive(f, t) == SetBlacklist(t) /\ UNCHANGED active

\* MULTI DEL active, SET blacklist EXEC: LogoutFamily, which trusts the token
\* it is given, and RevokeFamily, which passes the token it has just read.
KillFamily(f, t) == DelActive(f) /\ SetBlacklist(t)

-----------------------------------------------------------------------------
(* Key expiry: one unit of time.                                           *)

Less(n) == IF n = 0 THEN 0 ELSE n - 1

ExpireKeys ==
  /\ active' = [f \in Families |->
                  IF active[f] = None THEN None
                  ELSE IF active[f].left = 1 THEN None
                  ELSE [active[f] EXCEPT !.left = @ - 1]]
  /\ blacklist' = [t \in Tokens |-> Less(blacklist[t])]
  /\ grace' = [t \in Tokens |-> Less(grace[t])]
  /\ UNCHANGED userFamilies
=============================================================================
