------------------------- MODULE AuthSessionsProofs -------------------------
(***************************************************************************)
(* Theorems about AuthSessions for every number of users, families, tokens *)
(* and concurrent requests, every TTL and every retry limit.               *)
(***************************************************************************)
EXTENDS AuthSessions, TLAPS

USE TTLAssumption, NoneAssumption, SessionAssumption
    DEF TTLAssumption, NoneAssumption, SessionAssumption

-----------------------------------------------------------------------------
(* How a request moves.                                                    *)

\* A request starts with blank locals.
LEMMA BlankType == Blank \in Local
  BY DEF Blank, Local, AllOps

\* A move changes one request's label and local variables, and keeps types.
LEMMA MoveFacts ==
  ASSUME TypeOK, NEW p \in Procs, NEW l \in Labels, NEW r \in Local, Move(p, l, r)
  PROVE  /\ pc' \in [Procs -> Labels] /\ loc' \in [Procs -> Local]
         /\ pc'[p] = l /\ loc'[p] = r
         /\ \A q \in Procs \ {p} : pc'[q] = pc[q] /\ loc'[q] = loc[q]
  BY DEF Move, TypeOK

\* The local variables each step writes are well typed.
LEMMA LocalTypes ==
  ASSUME TypeOK, NEW p \in Procs
  PROVE  /\ loc[p] \in Local
         /\ \A k \in 0..MaxKid : [loc[p] EXCEPT !.kid = k] \in Local
         /\ \A t \in Tokens : [loc[p] EXCEPT !.new = t] \in Local
         /\ \A t \in Tokens \cup {None} : [loc[p] EXCEPT !.seen = t] \in Local
         /\ loc[p].tries + 1 < MaxRevokeTries =>
              [loc[p] EXCEPT !.tries = @ + 1, !.seen = None] \in Local
         /\ \A f \in Families : [loc[p] EXCEPT !.fam = f] \in Local
         /\ \A f \in Families, t \in Tokens \cup {None}, S \in SUBSET Families :
              [loc[p] EXCEPT !.recs[f] = t, !.todo = S] \in Local
         /\ \A S \in SUBSET Families : [loc[p] EXCEPT !.fam = None, !.todo = S] \in Local
         /\ \A S, T \in SUBSET Families : [loc[p] EXCEPT !.todo = S, !.snap = T] \in Local
  <1> DEFINE r == loc[p]
  <1>1. r \in Local
    BY DEF TypeOK
  <1> HIDE DEF r
  <1>2. \A k \in 0..MaxKid : [r EXCEPT !.kid = k] \in Local
    BY <1>1 DEF Local
  <1>3. \A t \in Tokens : [r EXCEPT !.new = t] \in Local
    BY <1>1 DEF Local
  <1>4. \A t \in Tokens \cup {None} : [r EXCEPT !.seen = t] \in Local
    BY <1>1 DEF Local
  <1>5. r.tries + 1 < MaxRevokeTries => [r EXCEPT !.tries = @ + 1, !.seen = None] \in Local
    <2>1. r.tries + 1 < MaxRevokeTries => r.tries + 1 \in 0..(MaxRevokeTries - 1)
      BY <1>1 DEF Local
    <2>2. \A n \in 0..(MaxRevokeTries - 1) : [r EXCEPT !.tries = n, !.seen = None] \in Local
      BY <1>1 DEF Local
    <2> QED
      BY <2>1, <2>2
  <1>6. \A f \in Families : [r EXCEPT !.fam = f] \in Local
    BY <1>1 DEF Local
  <1>7. \A f \in Families, t \in Tokens \cup {None}, S \in SUBSET Families :
          [r EXCEPT !.recs[f] = t, !.todo = S] \in Local
    <2> SUFFICES ASSUME NEW f \in Families, NEW t \in Tokens \cup {None},
                        NEW S \in SUBSET Families
                 PROVE  [r EXCEPT !.recs[f] = t, !.todo = S] \in Local
      OBVIOUS
    <2>1. [r.recs EXCEPT ![f] = t] \in [Families -> Tokens \cup {None}]
      BY <1>1 DEF Local
    <2>2. \A g \in [Families -> Tokens \cup {None}] : [r EXCEPT !.recs = g, !.todo = S] \in Local
      BY <1>1 DEF Local
    <2> QED
      BY <2>1, <2>2
  <1>8. \A S \in SUBSET Families : [r EXCEPT !.fam = None, !.todo = S] \in Local
    BY <1>1 DEF Local
  <1>9. \A S, T \in SUBSET Families : [r EXCEPT !.todo = S, !.snap = T] \in Local
    BY <1>1 DEF Local
  <1> QED
    BY <1>1, <1>2, <1>3, <1>4, <1>5, <1>6, <1>7, <1>8, <1>9 DEF r

\* The local variables a request starts with are well typed.
LEMMA BlankTypes ==
  /\ \A u \in Users, f \in Families, t \in Tokens :
       /\ [Blank EXCEPT !.op = "login", !.user = u, !.fam = f, !.new = t] \in Local
       /\ [Blank EXCEPT !.op = "refresh", !.old = t, !.user = u, !.fam = f] \in Local
       /\ [Blank EXCEPT !.op = "logout", !.old = t, !.user = u, !.fam = f] \in Local
  /\ \A u \in Users, S \in SUBSET Families, T \in SUBSET Families :
       /\ [Blank EXCEPT !.op = "logoutAll", !.user = u, !.snap = S,
                        !.todo = S, !.owed = T] \in Local
       /\ [Blank EXCEPT !.op = "list", !.user = u, !.todo = S] \in Local
  <1> DEFINE r == Blank
  <1>1. r \in Local
    BY BlankType
  <1> HIDE DEF r
  <1>2. \A u \in Users, f \in Families, t \in Tokens :
          [r EXCEPT !.op = "login", !.user = u, !.fam = f, !.new = t] \in Local
    BY <1>1 DEF Local, AllOps
  <1>3. \A u \in Users, f \in Families, t \in Tokens :
          [r EXCEPT !.op = "refresh", !.old = t, !.user = u, !.fam = f] \in Local
    BY <1>1 DEF Local, AllOps
  <1>4. \A u \in Users, f \in Families, t \in Tokens :
          [r EXCEPT !.op = "logout", !.old = t, !.user = u, !.fam = f] \in Local
    BY <1>1 DEF Local, AllOps
  <1>5. \A u \in Users, S \in SUBSET Families, T \in SUBSET Families :
          [r EXCEPT !.op = "logoutAll", !.user = u, !.snap = S,
                    !.todo = S, !.owed = T] \in Local
    BY <1>1 DEF Local, AllOps
  <1>6. \A u \in Users, S \in SUBSET Families :
          [r EXCEPT !.op = "list", !.user = u, !.todo = S] \in Local
    BY <1>1 DEF Local, AllOps
  <1> QED
    BY <1>2, <1>3, <1>4, <1>5, <1>6 DEF r

-----------------------------------------------------------------------------
(* Type correctness.                                                       *)

\* The service starts without families.
LEMMA InitType == Init => TypeOK
  BY BlankType DEF Init, RedisInit, TypeOK, RedisTypeOK, Labels

\* A TTL that counts down stays one.
LEMMA LessType == \A k \in Nat : \A n \in 0..k : Less(n) \in 0..k
  BY DEF Less

\* Time passes for every key, token and history.
LEMMA TickType ==
  ASSUME TypeOK, Tick
  PROVE  TypeOK'
  <1>1. active' \in [Families -> ActiveRecord \cup {None}]
    <2> SUFFICES ASSUME NEW f \in Families, active[f] # None, active[f].left # 1
                 PROVE  [active[f] EXCEPT !.left = @ - 1] \in ActiveRecord
      BY DEF Tick, ExpireKeys
    <2>1. active[f] \in ActiveRecord
      BY DEF TypeOK, RedisTypeOK
    <2> QED  BY <2>1 DEF ActiveRecord
  <1>2. blacklist' \in [Tokens -> 0..RefreshTTL]
    BY LessType DEF Tick, ExpireKeys, TypeOK, RedisTypeOK
  <1>3. grace' \in [Tokens -> 0..GraceTTL]
    BY LessType DEF Tick, ExpireKeys, TypeOK, RedisTypeOK
  <1>4. issued' \in [Tokens -> Claims \cup {None}]
    <2> SUFFICES ASSUME NEW t \in Tokens, Minted(t)
                 PROVE  [issued[t] EXCEPT !.left = Less(@)] \in Claims
      BY DEF Tick
    <2>1. issued[t] \in Claims
      BY DEF TypeOK, Minted
    <2> QED  BY <2>1 DEF Claims, Less
  <1>5. age' \in [Tokens -> 0..GraceTTL]
    BY DEF Tick, TypeOK
  <1> QED
    BY <1>1, <1>2, <1>3, <1>4, <1>5 DEF Tick, ExpireKeys, TypeOK, RedisTypeOK

\* What the handlers rely on to write well-typed keys: the family, user and
\* token a request works on are set where it uses them.
LEMMA RequestType ==
  ASSUME IInv, NEW p \in Procs
  PROVE  /\ Minting(p) \/ pc[p] \in {"track", "reply"} =>
              loc[p].user \in Users /\ loc[p].fam \in Families /\ loc[p].new \in Tokens
         /\ Presenting(p) =>
              loc[p].user \in Users /\ loc[p].fam \in Families /\ loc[p].old \in Tokens
         /\ pc[p] = "delActive" => loc[p].fam \in Families
         /\ pc[p] = "nukeExec" => loc[p].seen \in Tokens
  <1>1. \A t \in Tokens : Minted(t) => issued[t].user \in Users /\ issued[t].fam \in Families
    BY DEF IInv, TypeOK, Minted, Claims
  <1>2. loc[p].todo \in SUBSET Families /\ loc[p].seen \in Tokens \cup {None}
    BY DEF IInv, TypeOK, Local
  <1>3. held \subseteq stored /\ stored \subseteq Tokens /\ \A t \in stored : Minted(t)
    BY DEF IInv, HistoryInv, TypeOK
  <1>4. Minting(p) \/ pc[p] \in {"track", "reply"} =>
          loc[p].user \in Users /\ loc[p].fam \in Families /\ loc[p].new \in Tokens
    BY <1>1, <1>3 DEF IInv, MintingInv
  <1>5. Presenting(p) =>
          loc[p].user \in Users /\ loc[p].fam \in Families /\ loc[p].old \in Tokens
    BY <1>1, <1>3 DEF IInv, PresentingInv
  <1>6. pc[p] = "delActive" => loc[p].fam \in Families
    BY <1>2 DEF IInv, ClosingInv
  <1>7. pc[p] = "nukeExec" => loc[p].seen \in Tokens
    BY <1>2 DEF IInv, NukeInv
  <1> QED
    BY <1>4, <1>5, <1>6, <1>7

\* An active record names a token.
LEMMA ActiveTokenType ==
  ASSUME TypeOK, NEW f \in Families
  PROVE  ActiveToken(f) \in Tokens \cup {None}
  BY DEF TypeOK, RedisTypeOK, ActiveToken, ActiveRecord

\* A minted token has claims.
LEMMA ClaimsType ==
  ASSUME TypeOK, NEW t \in Tokens, Minted(t)
  PROVE  /\ issued[t].user \in Users /\ issued[t].fam \in Families
         /\ issued[t].kid \in 0..MaxKid /\ issued[t].left \in 0..RefreshTTL
  BY DEF TypeOK, Minted, Claims

\* Changing one local of a request keeps its type.
LEMMA LocType ==
  ASSUME TypeOK, NEW p \in Procs
  PROVE  /\ loc[p].kid \in 0..MaxKid
         /\ loc[p].snap \in SUBSET Families /\ loc[p].todo \in SUBSET Families
         /\ loc[p].recs \in [Families -> Tokens \cup {None}]
  BY DEF TypeOK, Local

\* The commands that close a family write well-typed keys.
LEMMA KillTypes ==
  ASSUME TypeOK
  PROVE  /\ \A f : DelActive(f) => active' \in [Families -> ActiveRecord \cup {None}]
         /\ \A t : SetBlacklist(t) => blacklist' \in [Tokens -> 0..RefreshTTL]
  BY DEF TypeOK, RedisTypeOK, DelActive, SetBlacklist

\* Every step keeps the types.
LEMMA TypeStep ==
  ASSUME IInv, [Next]_vars
  PROVE  TypeOK'
  <1>0. TypeOK
    BY DEF IInv
  <1> USE MoveFacts DEF TypeOK, RedisTypeOK, redisVars, history, Labels
  <1>a. ASSUME UNCHANGED vars PROVE TypeOK'
    BY <1>0, <1>a DEF vars
  <1>b. ASSUME RotateSigningKey PROVE TypeOK'
    BY <1>0, <1>b DEF RotateSigningKey
  <1> SUFFICES ASSUME NEW p \in Procs, Begin(p) \/ Continue(p) \/ Abort(p)
               PROVE  TypeOK'
    BY <1>0, <1>a, <1>b, TickType DEF Next, FaultFreeNext
  <1>1. ASSUME NEW u \in Users, NEW f \in Families, NEW t \in Tokens, BeginLogin(p, u, f, t) PROVE TypeOK'
    <2>1. pc' \in [Procs -> Labels] /\ loc' \in [Procs -> Local]
      BY <1>0, <1>1, BlankTypes DEF BeginLogin
    <2>2. issued' \in [Tokens -> Claims \cup {None}]
      BY <1>0, <1>1 DEF BeginLogin, Mint, Claims
    <2> QED
      BY <1>0, <1>1, <2>1, <2>2 DEF BeginLogin
  <1>2. ASSUME StampKid(p) PROVE TypeOK'
    BY <1>0, <1>2, LocalTypes DEF StampKid
  <1>3. ASSUME StoreActive(p) PROVE TypeOK'
    <2>1. pc' \in [Procs -> Labels] /\ loc' \in [Procs -> Local]
      BY <1>0, <1>3, LocalTypes DEF StoreActive, Goto
    <2>2. active' \in [Families -> ActiveRecord \cup {None}]
      <3> DEFINE rec == [user |-> loc[p].user, tok |-> loc[p].new, kid |-> loc[p].kid,
                         left |-> RefreshTTL]
      <3>1. loc[p].user \in Users /\ loc[p].new \in Tokens /\ loc[p].kid \in Nat
        BY <1>0, <1>3, RequestType, LocType DEF StoreActive, Minting
      <3>2. rec \in ActiveRecord
        BY <3>1 DEF ActiveRecord
      <3>3. active' = [active EXCEPT ![loc[p].fam] = rec]
        BY <1>3 DEF StoreActive, SetActive
      <3> QED
        BY <1>0, <3>2, <3>3
    <2>3. stored' \in SUBSET Tokens
      BY <1>0, <1>3, RequestType DEF StoreActive, Minting
    <2> QED
      BY <1>0, <1>3, <2>1, <2>2, <2>3 DEF StoreActive
  <1>4. ASSUME TrackFamily(p) PROVE TypeOK'
    <2>1. pc' \in [Procs -> Labels] /\ loc' \in [Procs -> Local]
      BY <1>0, <1>4, LocalTypes DEF TrackFamily, Goto
    <2>2. userFamilies' \in [Users -> SUBSET Families]
      BY <1>0, <1>4, RequestType DEF TrackFamily, SAddFamily
    <2> QED
      BY <1>0, <1>4, <2>1, <2>2 DEF TrackFamily
  <1>5. ASSUME Reply(p) PROVE TypeOK'
    BY <1>0, <1>5, BlankType, RequestType DEF Reply, Finish
  <1>6. ASSUME NEW t \in Tokens, BeginRefresh(p, t) PROVE TypeOK'
    <2>1. Minted(t)
      BY <1>6 DEF BeginRefresh, Verifies, IInv, HistoryInv
    <2>2. pc' \in [Procs -> Labels] /\ loc' \in [Procs -> Local]
      BY <1>0, <1>6, <2>1, BlankTypes, ClaimsType DEF BeginRefresh
    <2> QED
      BY <1>0, <1>6, <2>2 DEF BeginRefresh
  <1>7. ASSUME NEW t \in Tokens, MintSuccessor(p, t) PROVE TypeOK'
    <2>1. pc' \in [Procs -> Labels] /\ loc' \in [Procs -> Local]
      BY <1>0, <1>7, LocalTypes DEF MintSuccessor
    <2>2. issued' \in [Tokens -> Claims \cup {None}]
      BY <1>0, <1>7, RequestType DEF MintSuccessor, Mint, Claims, Presenting
    <2> QED
      BY <1>0, <1>7, <2>1, <2>2 DEF MintSuccessor
  <1>8. ASSUME RotateOK(p) PROVE TypeOK'
    <2>1. pc' \in [Procs -> Labels] /\ loc' \in [Procs -> Local]
      BY <1>0, <1>8, LocalTypes DEF RotateOK, Goto
    <2>2. active' \in [Families -> ActiveRecord \cup {None}] /\ grace' \in [Tokens -> 0..GraceTTL] /\ blacklist' \in [Tokens -> 0..RefreshTTL] /\ spent' \in SUBSET Tokens /\ stored' \in SUBSET Tokens
      BY <1>0, <1>8, RequestType, LocType DEF RotateOK, RotateKeys, ActiveRecord, Minting, Presenting
    <2> QED
      BY <1>0, <1>8, <2>1, <2>2 DEF RotateOK
  <1>9. ASSUME RotateRefused(p) PROVE TypeOK'
    BY <1>0, <1>9, BlankType DEF RotateRefused, Finish
  <1>10. ASSUME RotateReuse(p) PROVE TypeOK'
    BY <1>0, <1>10, LocalTypes DEF RotateReuse, Goto
  <1>11. ASSUME NukeRead(p) PROVE TypeOK'
    <2>1. loc[p].fam \in Families
      BY <1>11, RequestType DEF NukeRead, Presenting
    <2>2. pc' \in [Procs -> Labels] /\ loc' \in [Procs -> Local]
      BY <1>0, <1>11, <2>1, LocalTypes, ActiveTokenType DEF NukeRead
    <2> QED
      BY <1>0, <1>11, <2>2 DEF NukeRead
  <1>12. ASSUME NukeExec(p) PROVE TypeOK'
    <2>1. pc' \in [Procs -> Labels] /\ loc' \in [Procs -> Local]
      BY <1>0, <1>12, LocalTypes DEF NukeExec, Goto
    <2>2. active' \in [Families -> ActiveRecord \cup {None}] /\ blacklist' \in [Tokens -> 0..RefreshTTL]
      BY <1>0, <1>12, KillTypes DEF NukeExec, KillFamily
    <2> QED
      BY <1>0, <1>12, <2>1, <2>2 DEF NukeExec
  <1>13. ASSUME NukeRetry(p) PROVE TypeOK'
    BY <1>0, <1>13, LocalTypes, BlankType DEF NukeRetry, Finish
  <1>14. ASSUME Untrack(p) PROVE TypeOK'
    BY <1>0, <1>14, BlankType DEF Untrack, Finish, SRemFamilies
  <1>15. ASSUME NEW t \in Tokens, BeginLogout(p, t) PROVE TypeOK'
    <2>1. Minted(t)
      BY <1>15 DEF BeginLogout, Verifies, IInv, HistoryInv
    <2>2. pc' \in [Procs -> Labels] /\ loc' \in [Procs -> Local]
      BY <1>0, <1>15, <2>1, BlankTypes, ClaimsType DEF BeginLogout
    <2> QED
      BY <1>0, <1>15, <2>2 DEF BeginLogout
  <1>16. ASSUME LogoutExec(p) PROVE TypeOK'
    <2>1. pc' \in [Procs -> Labels] /\ loc' \in [Procs -> Local]
      BY <1>0, <1>16, LocalTypes DEF LogoutExec, Goto
    <2>2. active' \in [Families -> ActiveRecord \cup {None}] /\ blacklist' \in [Tokens -> 0..RefreshTTL]
      BY <1>0, <1>16, KillTypes DEF LogoutExec, KillFamily
    <2> QED
      BY <1>0, <1>16, <2>1, <2>2 DEF LogoutExec
  <1>17. ASSUME NEW u \in Users, BeginLogoutAll(p, u) PROVE TypeOK'
    BY <1>0, <1>17, BlankTypes DEF BeginLogoutAll
  <1>18. ASSUME NEW f \in Families, LoadFamily(p, f) PROVE TypeOK'
    <2>1. pc' \in [Procs -> Labels] /\ loc' \in [Procs -> Local]
      BY <1>0, <1>18, LocalTypes, LocType, ActiveTokenType DEF LoadFamily
    <2> QED
      BY <1>0, <1>18, <2>1 DEF LoadFamily
  <1>19. ASSUME NEW f \in Families, RevokeLoaded(p, f) PROVE TypeOK'
    <2>1. pc' \in [Procs -> Labels] /\ loc' \in [Procs -> Local]
      BY <1>0, <1>19, LocalTypes DEF RevokeLoaded
    <2>2. blacklist' \in [Tokens -> 0..RefreshTTL]
      BY <1>0, <1>19, LocType DEF RevokeLoaded, SetBlacklist
    <2> QED
      BY <1>0, <1>19, <2>1, <2>2 DEF RevokeLoaded
  <1>20. ASSUME DelLoaded(p) PROVE TypeOK'
    <2>1. pc' \in [Procs -> Labels] /\ loc' \in [Procs -> Local]
      BY <1>0, <1>20, LocalTypes, LocType DEF DelLoaded
    <2>2. active' \in [Families -> ActiveRecord \cup {None}]
      BY <1>0, <1>20 DEF DelLoaded, DelActive
    <2> QED
      BY <1>0, <1>20, <2>1, <2>2 DEF DelLoaded
  <1>21. ASSUME ClearFamilies(p) PROVE TypeOK'
    BY <1>0, <1>21, LocalTypes DEF ClearFamilies, Goto, DelUserFamilies
  <1>22. ASSUME ReplyDone(p) PROVE TypeOK'
    BY <1>0, <1>22, BlankType DEF ReplyDone, Finish
  <1>23. ASSUME NEW u \in Users, BeginList(p, u) PROVE TypeOK'
    BY <1>0, <1>23, BlankTypes DEF BeginList
  <1>24. ASSUME NEW f \in Families, CheckFamily(p, f) PROVE TypeOK'
    <2>1. IF active[f] = None THEN loc[p].snap \cup {f} \in SUBSET Families
                             ELSE loc[p].snap \in SUBSET Families
      BY <1>0, LocType
    <2>2. loc[p].todo \ {f} \in SUBSET Families
      BY <1>0, LocType
    <2>3. pc' \in [Procs -> Labels] /\ loc' \in [Procs -> Local]
      <3> DEFINE S == loc[p].todo \ {f}
                 T == IF active[f] = None THEN loc[p].snap \cup {f} ELSE loc[p].snap
      <3>1. [loc[p] EXCEPT !.todo = S, !.snap = T] \in Local
        BY <1>0, <2>1, <2>2, LocalTypes
      <3> QED
        BY <1>0, <1>24, <3>1 DEF CheckFamily
    <2> QED
      BY <1>0, <1>24, <2>3 DEF CheckFamily
  <1>25. ASSUME PruneFamilies(p) PROVE TypeOK'
    BY <1>0, <1>25, BlankType DEF PruneFamilies, Finish, SRemFamilies
  <1>26. ASSUME Abort(p) PROVE TypeOK'
    BY <1>0, <1>26, BlankType DEF Abort, Finish
  <1> QED
    BY <1>1, <1>2, <1>3, <1>4, <1>5, <1>6, <1>7, <1>8, <1>9, <1>10, <1>11, <1>12, <1>13, <1>14, <1>15, <1>16, <1>17, <1>18, <1>19, <1>20, <1>21, <1>22, <1>23, <1>24, <1>25, <1>26 DEF Begin, Continue
=============================================================================
