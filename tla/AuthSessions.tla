---------------------------- MODULE AuthSessions ----------------------------
(***************************************************************************)
(* The auth service's session operations as concurrent requests over the   *)
(* token store (services/auth/internal/service/auth_service.go, with the   *)
(* TokenStore methods it calls).  Every Redis round trip, and every read   *)
(* of the signing key id, is a step of its own, so that the requests of    *)
(* several clients interleave as they do against one Redis server.         *)
(*                                                                         *)
(* The environment presents any refresh token that was ever delivered, any *)
(* number of times: honest concurrent refreshes, retries after a lost      *)
(* response, and replays are the same behaviour here.  Abort ends a        *)
(* request between two steps: a crash, a cancelled context, a Redis or     *)
(* signing error, or a response lost on its way to the client.             *)
(***************************************************************************)
EXTENDS TokenStore

CONSTANTS
  Procs,            \* request handlers running at the same time
  Ops,              \* the operations the environment calls
  MaxKid,           \* bound: signing-key rotations
  MaxRevokeTries    \* maxRevokeTries

AllOps == {"login", "refresh", "logout", "logoutAll", "list"}

\* The claims of a refresh token, with the time left until it expires.
Claims == [user : Users, fam : Families, kid : 0..MaxKid, left : 0..RefreshTTL]

ASSUME SessionAssumption ==
  /\ Ops \subseteq AllOps
  /\ MaxKid \in Nat
  /\ MaxRevokeTries \in Nat \ {0}
  /\ None \notin Families /\ None \notin Users /\ None \notin Claims

VARIABLES
  issued,       \* the claims of every minted token
  held,         \* tokens delivered to a client
  currentKid,   \* EDDSAMaker.currentKeyID
  pc, loc,      \* where each request is, and its local variables
  spent,        \* history: tokens a rotation has accepted
  age,          \* history: ticks since a spent token was accepted, up to GraceTTL
  stored        \* history: tokens that were ever a family's active token

history == <<spent, age, stored>>
vars == <<redisVars, issued, held, currentKid, pc, loc, history>>

-----------------------------------------------------------------------------
(* State.                                                                  *)

Labels == {"idle", "verified", "stamp", "store", "track", "reply", "rotate",
           "nukeRead", "nukeExec", "logout", "untrack",
           "load", "revoke", "delActive", "clear", "done", "exists", "prune"}

Local == [op : AllOps \cup {None},
          user : Users \cup {None},
          fam : Families \cup {None},
          old : Tokens \cup {None},         \* the presented token
          new : Tokens \cup {None},         \* the minted token
          kid : 0..MaxKid,                  \* GetCurrentKeyID, as it was read
          seen : Tokens \cup {None},        \* RevokeFamily's tx.Get
          tries : 0..(MaxRevokeTries - 1),  \* RevokeFamily's attempt
          snap : SUBSET Families,           \* SMEMBERS
          todo : SUBSET Families,           \* pipeline commands still to run
          recs : [Families -> Tokens \cup {None}],  \* the pipeline's GETs
          owed : SUBSET Families]           \* history: sessions open at the call

Blank == [op |-> None, user |-> None, fam |-> None, old |-> None, new |-> None,
          kid |-> 0, seen |-> None, tries |-> 0, snap |-> {}, todo |-> {},
          recs |-> [f \in Families |-> None], owed |-> {}]

\* Types.  Beyond them: TTLs stay within what the keys were given, and
\* RevokeFamily makes at most maxRevokeTries attempts, whatever races them.
TypeOK ==
  /\ RedisTypeOK
  /\ issued \in [Tokens -> Claims \cup {None}]
  /\ held \in SUBSET Tokens
  /\ currentKid \in 0..MaxKid
  /\ pc \in [Procs -> Labels]
  /\ loc \in [Procs -> Local]
  /\ spent \in SUBSET Tokens
  /\ age \in [Tokens -> 0..GraceTTL]
  /\ stored \in SUBSET Tokens

Minted(t) == issued[t] # None
Fresh(f) == \A t \in Tokens : Minted(t) => issued[t].fam # f
Born(f) == \E t \in stored : issued[t].fam = f
Killed(f) == Born(f) /\ active[f] = None
Delivered(f) == \E t \in held : issued[t].fam = f

Init ==
  /\ RedisInit
  /\ issued = [t \in Tokens |-> None]
  /\ held = {}
  /\ currentKid = 0
  /\ pc = [p \in Procs |-> "idle"]
  /\ loc = [p \in Procs |-> Blank]
  /\ spent = {}
  /\ age = [t \in Tokens |-> 0]
  /\ stored = {}

-----------------------------------------------------------------------------
(* Steps common to the handlers.                                           *)

\* Request p moves to a label, with these local variables.
Move(p, label, locals) ==
  /\ pc' = [pc EXCEPT ![p] = label]
  /\ loc' = [loc EXCEPT ![p] = locals]

Goto(p, label) == Move(p, label, loc[p])
Finish(p) == Move(p, "idle", Blank)

\* EDDSAMaker.CreateRefreshToken: a new token under the current key.
Mint(t, u, f) ==
  /\ ~Minted(t)
  /\ issued' = [issued EXCEPT ![t] =
                  [user |-> u, fam |-> f, kid |-> currentKid, left |-> RefreshTTL]]

\* EDDSAMaker.VerifyRefreshToken succeeds.
Verifies(t) == t \in held /\ issued[t].left > 0

-----------------------------------------------------------------------------
(* Login and Register: mintTokenPair for a new family.                     *)

BeginLogin(p, u, f, t) ==
  /\ "login" \in Ops /\ pc[p] = "idle"
  /\ Fresh(f)
  /\ Mint(t, u, f)
  /\ Move(p, "stamp", [Blank EXCEPT !.op = "login", !.user = u,
                                    !.fam = f, !.new = t])
  /\ UNCHANGED <<redisVars, held, currentKid, history>>

\* Mutant: the record takes the key id of the presented token.
StampKid_Presented(p) ==
  /\ pc[p] = "stamp"
  /\ Move(p, IF loc[p].op = "login" THEN "store" ELSE "rotate",
          [loc[p] EXCEPT !.kid =
             issued[IF loc[p].op = "login" THEN loc[p].new ELSE loc[p].old].kid])
  /\ UNCHANGED <<redisVars, issued, held, currentKid, history>>

\* SigningKID: s.tokenMaker.GetCurrentKeyID(), read after the token is signed.
StampKid(p) ==
  /\ pc[p] = "stamp"
  /\ Move(p, IF loc[p].op = "login" THEN "store" ELSE "rotate",
          [loc[p] EXCEPT !.kid = currentKid])
  /\ UNCHANGED <<redisVars, issued, held, currentKid, history>>

StoreActive(p) ==
  /\ pc[p] = "store"
  /\ SetActive(loc[p].fam, loc[p].user, loc[p].new, loc[p].kid)
  /\ stored' = stored \cup {loc[p].new}
  /\ Goto(p, "track")
  /\ UNCHANGED <<blacklist, grace, userFamilies, issued, held, currentKid,
                 spent, age>>

\* SADD rt:user:{u}:families: ends StoreFamilyActiveToken and, as a separate
\* round trip, a successful RotateFamilyActiveToken.
TrackFamily(p) ==
  /\ pc[p] = "track"
  /\ SAddFamily(loc[p].user, loc[p].fam)
  /\ Goto(p, "reply")
  /\ UNCHANGED <<active, blacklist, grace, issued, held, currentKid, history>>

\* CreateAccessToken succeeds and the token pair reaches the client.
Reply(p) ==
  /\ pc[p] = "reply"
  /\ held' = held \cup {loc[p].new}
  /\ Finish(p)
  /\ UNCHANGED <<redisVars, issued, currentKid, history>>

-----------------------------------------------------------------------------
(* RefreshToken.                                                           *)

BeginRefresh(p, t) ==
  /\ "refresh" \in Ops /\ pc[p] = "idle"
  /\ Verifies(t)
  /\ Move(p, "verified", [Blank EXCEPT !.op = "refresh", !.old = t,
                                     !.user = issued[t].user, !.fam = issued[t].fam])
  /\ UNCHANGED <<redisVars, issued, held, currentKid, history>>

MintSuccessor(p, t) ==
  /\ pc[p] = "verified"
  /\ Mint(t, loc[p].user, loc[p].fam)
  /\ Move(p, "stamp", [loc[p] EXCEPT !.new = t])
  /\ UNCHANGED <<redisVars, held, currentKid, history>>

Outcome(p) ==
  RotateOutcome(loc[p].fam, loc[p].user, loc[p].old, issued[loc[p].old].kid)

RotateOK(p) ==
  /\ pc[p] = "rotate" /\ Outcome(p) = "OK"
  /\ RotateKeys(loc[p].fam, loc[p].user, loc[p].old, loc[p].new, loc[p].kid)
  /\ spent' = spent \cup {loc[p].old}
  /\ stored' = stored \cup {loc[p].new}
  /\ Goto(p, "track")
  /\ UNCHANGED <<userFamilies, issued, held, currentKid, age>>

\* Refused, and the family is left alone.
RotateRefused(p) ==
  /\ pc[p] = "rotate"
  /\ Outcome(p) \in {"FAMILY_NOT_FOUND", "GRACE_HIT", "KID_MISMATCH"}
  /\ Finish(p)
  /\ UNCHANGED <<redisVars, issued, held, currentKid, history>>

\* Refused as token reuse: nukeFamily follows.
RotateReuse(p) ==
  /\ pc[p] = "rotate"
  /\ Outcome(p) \in {"BLACKLISTED", "USER_MISMATCH", "HASH_MISMATCH"}
  /\ Goto(p, "nukeRead")
  /\ UNCHANGED <<redisVars, issued, held, currentKid, history>>

-----------------------------------------------------------------------------
(* nukeFamily: RevokeFamily, an optimistic transaction under WATCH.        *)

\* WATCH and GET.  A missing key ends the transaction with nothing to do.
NukeRead(p) ==
  /\ pc[p] = "nukeRead"
  /\ Move(p, IF active[loc[p].fam] = None THEN "untrack" ELSE "nukeExec",
          [loc[p] EXCEPT !.seen = ActiveToken(loc[p].fam)])
  /\ UNCHANGED <<redisVars, issued, held, currentKid, history>>

\* Mutant: GET, SET and DEL without WATCH.
NukeExec_NoWatch(p) ==
  /\ pc[p] = "nukeExec"
  /\ KillFamily(loc[p].fam, loc[p].seen)
  /\ Goto(p, "untrack")
  /\ UNCHANGED <<grace, userFamilies, issued, held, currentKid, history>>

\* The active key never returns to an earlier token, so the watched key is
\* untouched exactly when it still holds the token that was read.
NukeExec(p) ==
  /\ pc[p] = "nukeExec"
  /\ ActiveToken(loc[p].fam) = loc[p].seen
  /\ KillFamily(loc[p].fam, loc[p].seen)
  /\ Goto(p, "untrack")
  /\ UNCHANGED <<grace, userFamilies, issued, held, currentKid, history>>

\* Mutant: a failed EXEC counts as done.
NukeRetry_Swallow(p) ==
  /\ pc[p] = "nukeExec"
  /\ ActiveToken(loc[p].fam) # loc[p].seen
  /\ Goto(p, "untrack")
  /\ UNCHANGED <<redisVars, issued, held, currentKid, history>>

\* Mutant: no second attempt.
NukeRetry_GiveUp(p) ==
  /\ pc[p] = "nukeExec"
  /\ ActiveToken(loc[p].fam) # loc[p].seen
  /\ Finish(p)
  /\ UNCHANGED <<redisVars, issued, held, currentKid, history>>

\* Mutant: one attempt more than maxRevokeTries.
NukeRetry_OneMore(p) ==
  /\ pc[p] = "nukeExec"
  /\ ActiveToken(loc[p].fam) # loc[p].seen
  /\ IF loc[p].tries + 1 <= MaxRevokeTries
       THEN Move(p, "nukeRead", [loc[p] EXCEPT !.tries = @ + 1, !.seen = None])
       ELSE Finish(p)
  /\ UNCHANGED <<redisVars, issued, held, currentKid, history>>

\* TxFailedErr: try again, at most maxRevokeTries times; the failure to revoke
\* is only logged.
NukeRetry(p) ==
  /\ pc[p] = "nukeExec"
  /\ ActiveToken(loc[p].fam) # loc[p].seen
  /\ IF loc[p].tries + 1 < MaxRevokeTries
       THEN Move(p, "nukeRead", [loc[p] EXCEPT !.tries = @ + 1, !.seen = None])
       ELSE Finish(p)
  /\ UNCHANGED <<redisVars, issued, held, currentKid, history>>

\* Mutant: the whole set is dropped.
Untrack_WholeSet(p) ==
  /\ pc[p] = "untrack"
  /\ DelUserFamilies(loc[p].user)
  /\ Finish(p)
  /\ UNCHANGED <<active, blacklist, grace, issued, held, currentKid, history>>

\* SREM of the family; ends RevokeFamily and LogoutFamily.
Untrack(p) ==
  /\ pc[p] = "untrack"
  /\ SRemFamilies(loc[p].user, {loc[p].fam})
  /\ Finish(p)
  /\ UNCHANGED <<active, blacklist, grace, issued, held, currentKid, history>>

-----------------------------------------------------------------------------
(* Logout.                                                                 *)

BeginLogout(p, t) ==
  /\ "logout" \in Ops /\ pc[p] = "idle"
  /\ Verifies(t)
  /\ Move(p, "logout", [Blank EXCEPT !.op = "logout", !.old = t,
                                   !.user = issued[t].user, !.fam = issued[t].fam])
  /\ UNCHANGED <<redisVars, issued, held, currentKid, history>>

LogoutExec(p) ==
  /\ pc[p] = "logout"
  /\ KillFamily(loc[p].fam, loc[p].old)
  /\ Goto(p, "untrack")
  /\ UNCHANGED <<grace, userFamilies, issued, held, currentKid, history>>

-----------------------------------------------------------------------------
(* LogoutAllDevices: RevokeAllUserFamilies.                                *)

\* SMEMBERS; an empty set ends the call with success.
BeginLogoutAll(p, u) ==
  /\ "logoutAll" \in Ops /\ pc[p] = "idle"
  /\ Move(p, IF userFamilies[u] = {} THEN "done" ELSE "load",
          [Blank EXCEPT !.op = "logoutAll", !.user = u,
                        !.snap = userFamilies[u], !.todo = userFamilies[u],
                        !.owed = {f \in Families : /\ Delivered(f)
                                                   /\ active[f] # None
                                                   /\ active[f].user = u}])
  /\ UNCHANGED <<redisVars, issued, held, currentKid, history>>

\* One GET of the first pipeline; after the last, the second pipeline is built.
LoadFamily(p, f) ==
  /\ pc[p] = "load" /\ f \in loc[p].todo
  /\ LET last == loc[p].todo = {f} IN
       Move(p, IF last THEN "revoke" ELSE "load",
            [loc[p] EXCEPT !.recs[f] = ActiveToken(f),
                           !.todo = IF last THEN loc[p].snap ELSE @ \ {f}])
  /\ UNCHANGED <<redisVars, issued, held, currentKid, history>>

\* SET of the blacklist key, only for a family whose record was found.
RevokeLoaded(p, f) ==
  /\ pc[p] = "revoke" /\ f \in loc[p].todo
  /\ IF loc[p].recs[f] = None THEN UNCHANGED blacklist
                              ELSE SetBlacklist(loc[p].recs[f])
  /\ Move(p, "delActive", [loc[p] EXCEPT !.fam = f])
  /\ UNCHANGED <<active, grace, userFamilies, issued, held, currentKid, history>>

\* Mutant: the key is deleted only while it holds the token that was loaded.
DelLoaded_IfUnchanged(p) ==
  /\ pc[p] = "delActive"
  /\ IF ActiveToken(loc[p].fam) = loc[p].recs[loc[p].fam]
       THEN DelActive(loc[p].fam) ELSE UNCHANGED active
  /\ Move(p, IF loc[p].todo = {loc[p].fam} THEN "clear" ELSE "revoke",
          [loc[p] EXCEPT !.fam = None, !.todo = @ \ {loc[p].fam}])
  /\ UNCHANGED <<blacklist, grace, userFamilies, issued, held, currentKid, history>>

\* DEL of the active key, found or not.
DelLoaded(p) ==
  /\ pc[p] = "delActive"
  /\ DelActive(loc[p].fam)
  /\ Move(p, IF loc[p].todo = {loc[p].fam} THEN "clear" ELSE "revoke",
          [loc[p] EXCEPT !.fam = None, !.todo = @ \ {loc[p].fam}])
  /\ UNCHANGED <<blacklist, grace, userFamilies, issued, held, currentKid, history>>

\* DEL of the whole user set.
ClearFamilies(p) ==
  /\ pc[p] = "clear"
  /\ DelUserFamilies(loc[p].user)
  /\ Goto(p, "done")
  /\ UNCHANGED <<active, blacklist, grace, issued, held, currentKid, history>>

ReplyDone(p) ==
  /\ pc[p] = "done"
  /\ Finish(p)
  /\ UNCHANGED <<redisVars, issued, held, currentKid, history>>

-----------------------------------------------------------------------------
(* ListUserFamilies: prune the members whose active key is gone.           *)

BeginList(p, u) ==
  /\ "list" \in Ops /\ pc[p] = "idle"
  /\ userFamilies[u] # {}
  /\ Move(p, "exists", [Blank EXCEPT !.op = "list", !.user = u,
                                     !.todo = userFamilies[u]])
  /\ UNCHANGED <<redisVars, issued, held, currentKid, history>>

\* One EXISTS of the pipeline; snap collects the stale families.
CheckFamily(p, f) ==
  /\ pc[p] = "exists" /\ f \in loc[p].todo
  /\ Move(p, IF loc[p].todo = {f} THEN "prune" ELSE "exists",
          [loc[p] EXCEPT !.todo = @ \ {f},
                         !.snap = IF active[f] = None THEN @ \cup {f} ELSE @])
  /\ UNCHANGED <<redisVars, issued, held, currentKid, history>>

\* SREM of the stale families, skipped when there is none.
PruneFamilies(p) ==
  /\ pc[p] = "prune"
  /\ SRemFamilies(loc[p].user, loc[p].snap)
  /\ Finish(p)
  /\ UNCHANGED <<active, blacklist, grace, issued, held, currentKid, history>>

-----------------------------------------------------------------------------
(* The environment.                                                        *)

\* EDDSAMaker.RotateKey, by any request that finds the key close to expiry.
RotateSigningKey ==
  /\ currentKid < MaxKid
  /\ currentKid' = currentKid + 1
  /\ UNCHANGED <<redisVars, issued, held, pc, loc, history>>

\* One unit of time: Redis keys and token lifetimes count down together.
Tick ==
  /\ ExpireKeys
  /\ issued' = [t \in Tokens |->
                  IF Minted(t) THEN [issued[t] EXCEPT !.left = Less(@)] ELSE None]
  /\ age' = [t \in Tokens |->
               IF t \in spent /\ age[t] < GraceTTL THEN age[t] + 1 ELSE age[t]]
  /\ UNCHANGED <<held, currentKid, pc, loc, spent, stored>>

Abort(p) ==
  /\ pc[p] # "idle"
  /\ Finish(p)
  /\ UNCHANGED <<redisVars, issued, held, currentKid, history>>

-----------------------------------------------------------------------------

Begin(p) ==
  \/ \E u \in Users, f \in Families, t \in Tokens : BeginLogin(p, u, f, t)
  \/ \E t \in Tokens : BeginRefresh(p, t) \/ BeginLogout(p, t)
  \/ \E u \in Users : BeginLogoutAll(p, u) \/ BeginList(p, u)

Continue(p) ==
  \/ StampKid(p) \/ StoreActive(p) \/ TrackFamily(p) \/ Reply(p)
  \/ \E t \in Tokens : MintSuccessor(p, t)
  \/ RotateOK(p) \/ RotateRefused(p) \/ RotateReuse(p)
  \/ NukeRead(p) \/ NukeExec(p) \/ NukeRetry(p) \/ Untrack(p)
  \/ LogoutExec(p)
  \/ \E f \in Families : LoadFamily(p, f) \/ RevokeLoaded(p, f) \/ CheckFamily(p, f)
  \/ DelLoaded(p) \/ ClearFamilies(p) \/ ReplyDone(p) \/ PruneFamilies(p)

FaultFreeNext ==
  \/ \E p \in Procs : Begin(p) \/ Continue(p)
  \/ RotateSigningKey
  \/ Tick

Next == FaultFreeNext \/ \E p \in Procs : Abort(p)

Spec == Init /\ [][Next]_vars

\* A handler that is not aborted runs to its end; clients, time and key rotation
\* are under no obligation.
FaultFreeSpec ==
  Init /\ [][FaultFreeNext]_vars /\ \A p \in Procs : WF_vars(Continue(p))

-----------------------------------------------------------------------------
(* Properties.                                                             *)

\* A delivered, unexpired refresh token is its family's active token, or it is
\* blacklisted, or its session is over.  RotateFamilyActiveToken refuses a
\* blacklist TTL shorter than the active TTL for this: a consumed token must
\* not be forgotten while its signature still verifies.
LedgerComplete ==
  \A t \in held : issued[t].left > 0 =>
    \/ ActiveToken(issued[t].fam) = t
    \/ blacklist[t] > 0
    \/ Killed(issued[t].fam)

\* The active key lives at least as long as the token it allows, across any
\* delay between minting a token and storing it: an unspent token is never
\* refused because its record expired first.
ActiveOutlivesToken ==
  \A f \in Families : active[f] # None => active[f].left >= issued[active[f].tok].left

\* rotatedGraceTTL: a token that a rotation consumed less than the grace period
\* ago never raises the reuse alarm, however concurrent refreshes interleave.
GraceProtects ==
  \A p \in Procs :
    pc[p] \in {"nukeRead", "nukeExec"} /\ loc[p].old \in spent
      => age[loc[p].old] = GraceTTL

\* When RevokeFamily or LogoutFamily reaches its last command, the session is
\* over and no rotation or login running beside it has brought it back.
RevokedStaysClosed ==
  \A p \in Procs : pc[p] = "untrack" => Killed(loc[p].fam)

\* RevokeFamily blacklists the very token that is active when it deletes the
\* key, not the one it read before a concurrent rotation.
RevokeBlacklistsActive ==
  [][\A p \in Procs :
       pc[p] = "nukeExec" /\ pc'[p] = "untrack" =>
         LET f == loc[p].fam IN
           /\ active[f] # None
           /\ active'[f] = None
           /\ blacklist'[active[f].tok] > 0]_vars

\* Bulk revocation may miss a blacklist entry when a rotation slips between its
\* two pipelines, but the rotated token is unusable regardless: every family it
\* saw is closed when it clears the user's set.
LogoutAllClosesSeen ==
  \A p \in Procs :
    pc[p] \in {"clear", "done"} => \A f \in loc[p].snap : Killed(f)

\* KID_MISMATCH is answered only to a token signed with a key that has since
\* been rotated away, never to one signed with the current key.
KidRefusalIsOldKey ==
  \A p \in Procs :
    pc[p] = "rotate" /\ Outcome(p) = "KID_MISMATCH"
      => issued[loc[p].old].kid < currentKid

\* Where no bulk logout runs, the session's newest token always rotates unless
\* the signing key changed while it was minted: no interleaving of refreshes,
\* logouts and failures leaves a client with a token that only looks valid.
ActiveTokenRotates ==
  \A f \in Families : active[f] # None =>
    LET t == active[f].tok IN
      active[f].kid = issued[t].kid
        => RotateOutcome(f, issued[t].user, t, issued[t].kid) = "OK"

\* Where no bulk logout runs, a live session a client knows of is in its user's
\* set, so that a later LogoutAllDevices finds it: neither SREM nor the pruning
\* of ListUserFamilies ever drops a live family.
LiveSessionsTracked ==
  \A f \in Families : active[f] # None /\ Delivered(f)
    => f \in userFamilies[active[f].user]

\* "Invalidate all active refresh token families for a user": when
\* LogoutAllDevices succeeds, the sessions open at the call are closed.
LogoutAllClosesOpen ==
  \A p \in Procs : pc[p] = "done" => \A f \in loc[p].owed : Killed(f)

\* The reuse alarm, once raised, ends the session whatever refreshes run
\* beside it (while they are too few to exhaust maxRevokeTries).
AlarmEndsSession ==
  \A p \in Procs, f \in Families :
    pc[p] = "nukeRead" /\ loc[p].fam = f ~> Killed(f)

-----------------------------------------------------------------------------
(* The inductive strengthening of the properties above.                    *)

\* Tokens are minted, then stored as active, then delivered or consumed, and
\* no token is signed with a key from the future.
HistoryInv ==
  /\ held \subseteq stored /\ spent \subseteq stored
  /\ \A t \in stored : Minted(t)
  /\ \A t \in Tokens : Minted(t) => issued[t].kid <= currentKid
  /\ \A u \in Users : \A f \in userFamilies[u] : Born(f)

ActiveInv ==
  \A f \in Families : active[f] # None =>
    LET a == active[f] IN
      /\ a.tok \in stored \ spent
      /\ issued[a.tok].fam = f /\ issued[a.tok].user = a.user
      /\ issued[a.tok].kid <= a.kid /\ a.kid <= currentKid
      /\ issued[a.tok].left <= a.left
      /\ blacklist[a.tok] = 0 \/ blacklist[a.tok] >= a.left

\* Once stored, a token is active until it is consumed or its family closed;
\* only stored tokens are blacklisted.
StoredInv ==
  /\ \A t \in stored \ spent :
       active[issued[t].fam] = None \/ ActiveToken(issued[t].fam) = t
  /\ \A t \in Tokens \ stored : blacklist[t] = 0

\* What a request has read from the store was stored.
ReadInv ==
  \A p \in Procs :
    /\ loc[p].seen \in stored \cup {None}
    /\ \A f \in Families : loc[p].recs[f] \in stored \cup {None}

SpentInv ==
  \A t \in Tokens :
    /\ grace[t] <= blacklist[t]
    /\ IF t \in spent
         THEN blacklist[t] >= issued[t].left /\ age[t] + grace[t] = GraceTTL
         ELSE grace[t] = 0 /\ age[t] = 0

Minting(p) == pc[p] \in {"stamp", "store", "rotate"}
LoggingIn(p) == pc[p] \in {"stamp", "store"} /\ loc[p].op = "login"
Presenting(p) ==
  \/ pc[p] \in {"verified", "rotate", "nukeRead", "nukeExec", "logout", "untrack"}
  \/ pc[p] = "stamp" /\ loc[p].op = "refresh"

\* A minted token that is not stored yet belongs to one request only; a family
\* that is being logged into has no other token.
MintingInv ==
  /\ \A p \in Procs : Minting(p) =>
       /\ loc[p].op \in {"login", "refresh"}
       /\ (pc[p] = "store" => loc[p].op = "login")
       /\ (pc[p] = "rotate" => loc[p].op = "refresh")
       /\ loc[p].new \in Tokens \ stored /\ Minted(loc[p].new)
       /\ loc[p].user = issued[loc[p].new].user
       /\ loc[p].fam = issued[loc[p].new].fam
       /\ (pc[p] # "stamp" => /\ issued[loc[p].new].kid <= loc[p].kid
                              /\ loc[p].kid <= currentKid)
  /\ \A p, q \in Procs :
       Minting(p) /\ Minting(q) /\ loc[p].new = loc[q].new => p = q
  /\ \A p \in Procs : LoggingIn(p) =>
       \A t \in Tokens : Minted(t) /\ issued[t].fam = loc[p].fam => t = loc[p].new
  /\ \A p \in Procs : pc[p] \in {"track", "reply"} =>
       /\ loc[p].new \in stored
       /\ loc[p].user = issued[loc[p].new].user
       /\ loc[p].fam = issued[loc[p].new].fam

PresentingInv ==
  \A p \in Procs : Presenting(p) =>
    /\ loc[p].old \in held
    /\ loc[p].user = issued[loc[p].old].user
    /\ loc[p].fam = issued[loc[p].old].fam
    /\ (pc[p] = "verified" => loc[p].op = "refresh")

\* A token that raised the alarm can no longer be accepted: it is spent beyond
\* its grace, or its family is closed, or it is blacklisted for good.
NukeInv ==
  \A p \in Procs : pc[p] \in {"nukeRead", "nukeExec"} =>
    /\ pc[p] = "nukeExec" => loc[p].seen # None
    /\ IF loc[p].old \in spent THEN age[loc[p].old] = GraceTTL
       ELSE \/ active[loc[p].fam] = None
            \/ blacklist[loc[p].old] >= active[loc[p].fam].left

ClosingInv ==
  \A p \in Procs :
    /\ pc[p] = "untrack" => Killed(loc[p].fam)
    /\ pc[p] \in {"load", "revoke", "delActive", "clear", "done"} =>
         \A f \in loc[p].snap : Born(f)
    /\ pc[p] \in {"revoke", "delActive"} =>
         \A f \in loc[p].snap \ loc[p].todo : Killed(f)
    /\ pc[p] = "delActive" => loc[p].fam \in loc[p].todo
    /\ pc[p] \in {"clear", "done"} => \A f \in loc[p].snap : Killed(f)

IInv ==
  /\ TypeOK
  /\ HistoryInv /\ ActiveInv /\ StoredInv /\ SpentInv
  /\ ReadInv /\ MintingInv /\ PresentingInv /\ NukeInv /\ ClosingInv

-----------------------------------------------------------------------------
(* The store implements the ledger: a family is open from its first active *)
(* key on, and its live token is the one in that key.                      *)

Ledger == INSTANCE SessionLedger WITH
  live <- [f \in Families |-> ActiveToken(f)],
  opened <- {f \in Families : Born(f)},
  used <- stored

\* Every behaviour of the service, with every interleaving, replay, failure and
\* expiry, is one the ledger allows: a refresh token is accepted at most once,
\* by one request, and a closed session never reopens.
ImplementsLedger == Ledger!LedgerSpec
=============================================================================
