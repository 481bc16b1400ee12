-------------------------- MODULE AuthSessionsSafety --------------------------
(***************************************************************************)
(* The inductive invariant of AuthSessions and what follows from it, for   *)
(* every number of users, families, tokens and concurrent requests, every  *)
(* TTL and every retry limit.                                              *)
(*                                                                         *)
(* The argument has two halves.  The steps of the service fall into seven  *)
(* kinds by what they do to Redis and to the tokens (StepEffects), and the *)
(* parts of IInv that speak of those are proved kind by kind.  The parts   *)
(* that speak of a request are proved for a request that does not move     *)
(* from what no step can undo (Evolution), and for one that does from the  *)
(* few steps that lead to each label (Arrivals).                           *)
(*                                                                         *)
(* Where no bulk logout runs, QuietInv adds what makes sessions rotate and *)
(* be found.                                                               *)
(***************************************************************************)
EXTENDS AuthSessionsProofs

USE TTLAssumption, NoneAssumption, SessionAssumption
    DEF TTLAssumption, NoneAssumption, SessionAssumption

-----------------------------------------------------------------------------
(* The kinds of steps.                                                     *)

\* Keys are deleted, tokens blacklisted, families tracked or untracked; tokens
\* and rotations are left alone.
Trim ==
  /\ \A f \in Families : active'[f] \in {None, active[f]}
  /\ \A t \in Tokens : \/ blacklist'[t] = blacklist[t]
                       \/ blacklist'[t] = RefreshTTL /\ t \in stored
  /\ \A u \in Users : \A f \in userFamilies'[u] : f \in userFamilies[u] \/ Born(f)
  /\ UNCHANGED <<grace, issued, held, currentKid, history>>

MintStep(p) ==
  \/ \E u \in Users, f \in Families, t \in Tokens : BeginLogin(p, u, f, t)
  \/ \E t \in Tokens : MintSuccessor(p, t)

Moves(p) == Begin(p) \/ Continue(p) \/ Abort(p)

\* Every step is of one of the seven kinds.
LEMMA StepEffects ==
  ASSUME IInv, [Next]_vars
  PROVE  \/ Trim \/ RotateSigningKey \/ Tick
         \/ \E p \in Procs : MintStep(p) \/ StoreActive(p) \/ RotateOK(p) \/ Reply(p)
  <1>0. TypeOK
    BY DEF IInv
  <1>a. ASSUME UNCHANGED <<redisVars, issued, held, currentKid, history>> PROVE Trim
    BY <1>a DEF Trim, redisVars, history
  <1>b. ASSUME UNCHANGED vars PROVE Trim
    BY <1>a, <1>b DEF vars
  <1> SUFFICES ASSUME NEW p \in Procs, Moves(p)
               PROVE  Trim \/ MintStep(p) \/ StoreActive(p) \/ RotateOK(p) \/ Reply(p)
    BY <1>b DEF Next, FaultFreeNext, Moves
  <1>1. ASSUME \/ StampKid(p) \/ RotateRefused(p) \/ RotateReuse(p) \/ NukeRead(p)
               \/ NukeRetry(p) \/ ReplyDone(p) \/ Abort(p)
               \/ \E t \in Tokens : BeginRefresh(p, t) \/ BeginLogout(p, t)
               \/ \E u \in Users : BeginLogoutAll(p, u) \/ BeginList(p, u)
               \/ \E f \in Families : LoadFamily(p, f) \/ CheckFamily(p, f)
        PROVE  Trim
    <2>1. UNCHANGED <<redisVars, issued, held, currentKid, history>>
      BY <1>1 DEF StampKid, RotateRefused, RotateReuse, NukeRead, NukeRetry, ReplyDone,
           Abort, BeginRefresh, BeginLogout, BeginLogoutAll, BeginList, LoadFamily,
           CheckFamily
    <2> QED
      BY <2>1, <1>a
  <1>2. ASSUME TrackFamily(p) PROVE Trim
    <2>1. loc[p].new \in stored /\ loc[p].fam = issued[loc[p].new].fam
      BY <1>2 DEF TrackFamily, IInv, MintingInv
    <2>2. Born(loc[p].fam)
      BY <2>1 DEF Born
    <2> QED
      BY <1>0, <1>2, <2>2 DEF TrackFamily, SAddFamily, Trim, TypeOK, RedisTypeOK
  <1>3. ASSUME NukeExec(p) PROVE Trim
    <2>1. loc[p].seen \in stored
      BY <1>3 DEF NukeExec, IInv, NukeInv, ReadInv
    <2> QED
      BY <1>0, <1>3, <2>1 DEF NukeExec, KillFamily, DelActive, SetBlacklist, Trim, TypeOK, RedisTypeOK
  <1>4. ASSUME LogoutExec(p) PROVE Trim
    <2>1. loc[p].old \in stored
      BY <1>4 DEF LogoutExec, IInv, PresentingInv, Presenting, HistoryInv
    <2> QED
      BY <1>0, <1>4, <2>1 DEF LogoutExec, KillFamily, DelActive, SetBlacklist, Trim, TypeOK, RedisTypeOK
  <1>5. ASSUME Untrack(p) PROVE Trim
    BY <1>0, <1>5 DEF Untrack, SRemFamilies, Trim, TypeOK, RedisTypeOK, history
  <1>6. ASSUME NEW f \in Families, RevokeLoaded(p, f) PROVE Trim
    <2>1. loc[p].recs[f] = None \/ loc[p].recs[f] \in stored
      BY DEF IInv, ReadInv
    <2> QED
      BY <1>0, <1>6, <2>1 DEF RevokeLoaded, SetBlacklist, Trim, TypeOK, RedisTypeOK, history
  <1>7. ASSUME DelLoaded(p) PROVE Trim
    BY <1>0, <1>7 DEF DelLoaded, DelActive, Trim, TypeOK, RedisTypeOK, history
  <1>8. ASSUME ClearFamilies(p) PROVE Trim
    BY <1>0, <1>8 DEF ClearFamilies, DelUserFamilies, Trim, TypeOK, RedisTypeOK, history
  <1>9. ASSUME PruneFamilies(p) PROVE Trim
    BY <1>0, <1>9 DEF PruneFamilies, SRemFamilies, Trim, TypeOK, RedisTypeOK, history
  <1> QED
    BY <1>1, <1>2, <1>3, <1>4, <1>5, <1>6, <1>7, <1>8, <1>9
       DEF Moves, Begin, Continue, MintStep

-----------------------------------------------------------------------------
(* The keys and the tokens.                                                *)

\* Without families the invariants on keys and tokens hold.
LEMMA InitGlobal == Init => HistoryInv /\ ActiveInv /\ StoredInv /\ SpentInv
  BY DEF Init, RedisInit, HistoryInv, ActiveInv, StoredInv, SpentInv, Minted

\* The invariants of the keys and tokens, and what each step must keep of them.
GlobalInv == HistoryInv /\ ActiveInv /\ StoredInv /\ SpentInv

\* They are kept by deletions,
LEMMA TrimGlobal ==
  ASSUME IInv, Trim
  PROVE  GlobalInv'
  <1>0. TypeOK /\ HistoryInv /\ ActiveInv /\ StoredInv /\ SpentInv
    BY DEF IInv
  <1>1. HistoryInv'
    BY <1>0 DEF Trim, HistoryInv, history, Minted, Born
  <1>2. ActiveInv'
    <2> SUFFICES ASSUME NEW f \in Families, active'[f] # None
                 PROVE  LET t == active[f].tok IN
                          blacklist'[t] = 0 \/ blacklist'[t] >= active[f].left
      BY <1>0 DEF Trim, ActiveInv, history
    <2>1. active[f] # None /\ active[f].tok \in Tokens /\ active[f].left \in 1..RefreshTTL
      BY <1>0 DEF Trim, TypeOK, RedisTypeOK, ActiveRecord
    <2> QED
      BY <1>0, <2>1 DEF Trim, ActiveInv
  <1>3. StoredInv'
    <2>1. \A t \in stored : issued[t].fam \in Families
      BY <1>0, ClaimsType DEF HistoryInv, TypeOK
    <2> QED
      BY <1>0, <2>1 DEF Trim, StoredInv, ActiveToken, history
  <1>4. SpentInv'
    <2> SUFFICES ASSUME NEW t \in Tokens
                 PROVE  /\ grace[t] <= blacklist'[t]
                        /\ t \in spent => blacklist'[t] >= issued[t].left
      BY <1>0 DEF Trim, SpentInv, history
    <2>1. t \in spent => Minted(t)
      BY <1>0 DEF HistoryInv
    <2>2. grace[t] \in 0..GraceTTL /\ blacklist[t] \in 0..RefreshTTL
      BY <1>0 DEF TypeOK, RedisTypeOK
    <2>3. t \in spent => issued[t].left \in 0..RefreshTTL
      BY <1>0, <2>1, ClaimsType
    <2> QED
      BY <1>0, <2>2, <2>3 DEF Trim, SpentInv
  <1> QED
    BY <1>1, <1>2, <1>3, <1>4 DEF GlobalInv

\* A token minted by a step was unknown before it.
LEMMA MintEffect ==
  ASSUME IInv, NEW p \in Procs, MintStep(p)
  PROVE  \E t \in Tokens, u \in Users, f \in Families :
           /\ ~Minted(t) /\ t \notin stored
           /\ issued' = [issued EXCEPT ![t] =
                [user |-> u, fam |-> f, kid |-> currentKid, left |-> RefreshTTL]]
           /\ issued'[t] # None
           /\ loc'[p].new = t /\ loc'[p].user = u /\ loc'[p].fam = f /\ pc'[p] = "stamp"
           /\ \/ Fresh(f) /\ loc'[p].op = "login"
              \/ /\ Presenting(p) /\ loc[p].fam = f
                 /\ loc'[p].op = loc[p].op /\ loc'[p].old = loc[p].old /\ loc[p].user = u
                 /\ pc[p] = "verified"
           /\ UNCHANGED <<redisVars, held, currentKid, history>>
  <1>0. TypeOK /\ HistoryInv
    BY DEF IInv
  <1>1. \A t \in stored : Minted(t)
    BY <1>0 DEF HistoryInv
  <1>2. \A u \in Users, f \in Families :
          [user |-> u, fam |-> f, kid |-> currentKid, left |-> RefreshTTL] # None
    BY <1>0 DEF TypeOK, Claims
  <1>3. CASE \E u \in Users, f \in Families, t \in Tokens : BeginLogin(p, u, f, t)
    <2> PICK u \in Users, f \in Families, t \in Tokens : BeginLogin(p, u, f, t)
      BY <1>3
    <2>1. pc'[p] = "stamp" /\ loc'[p] = [Blank EXCEPT !.op = "login", !.user = u,
                                                      !.fam = f, !.new = t]
      BY <1>0, BlankTypes, MoveFacts DEF BeginLogin, Labels
    <2>2. loc'[p].new = t /\ loc'[p].user = u /\ loc'[p].fam = f /\ loc'[p].op = "login"
      BY <2>1 DEF Blank
    <2>3. issued'[t] # None
      BY <1>0, <1>2 DEF BeginLogin, Mint, TypeOK
    <2> QED
      BY <1>1, <2>1, <2>2, <2>3 DEF BeginLogin, Mint
  <1>4. CASE \E t \in Tokens : MintSuccessor(p, t)
    <2> PICK t \in Tokens : MintSuccessor(p, t)
      BY <1>4
    <2>1. pc'[p] = "stamp" /\ loc'[p] = [loc[p] EXCEPT !.new = t]
      BY <1>0, LocalTypes, MoveFacts DEF MintSuccessor, Labels
    <2>2. Presenting(p) /\ loc[p].user \in Users /\ loc[p].fam \in Families
      BY RequestType DEF MintSuccessor, Presenting
    <2>3. loc'[p].new = t /\ loc'[p].user = loc[p].user /\ loc'[p].fam = loc[p].fam
          /\ loc'[p].op = loc[p].op /\ loc'[p].old = loc[p].old
      BY <1>0, <2>1 DEF TypeOK, Local
    <2>4. issued'[t] # None
      BY <1>0, <1>2, <2>2 DEF MintSuccessor, Mint, TypeOK
    <2> QED
      BY <1>1, <2>1, <2>2, <2>3, <2>4 DEF MintSuccessor, Mint
  <1> QED
    BY <1>3, <1>4 DEF MintStep

\* by minting,
LEMMA MintGlobal ==
  ASSUME IInv, NEW p \in Procs, MintStep(p)
  PROVE  GlobalInv'
  <1>0. TypeOK /\ HistoryInv /\ ActiveInv /\ StoredInv /\ SpentInv
    BY DEF IInv
  <1> PICK t \in Tokens, u \in Users, f \in Families :
        /\ ~Minted(t) /\ t \notin stored
        /\ issued' = [issued EXCEPT ![t] =
             [user |-> u, fam |-> f, kid |-> currentKid, left |-> RefreshTTL]]
        /\ issued'[t] # None
        /\ UNCHANGED <<redisVars, held, currentKid, history>>
    BY MintEffect
  <1>1. \A x \in Tokens : x # t => issued'[x] = issued[x]
    BY <1>0 DEF TypeOK
  <1>2. issued'[t].kid = currentKid
    BY <1>0 DEF TypeOK
  <1>3. stored \subseteq Tokens /\ spent \subseteq stored /\ held \subseteq stored
        /\ stored' = stored /\ spent' = spent /\ held' = held
    BY <1>0 DEF TypeOK, HistoryInv, history
  <1>4. \A x \in stored : issued'[x] = issued[x]
    BY <1>1, <1>3
  <1>5. \A g \in Families : Born(g) <=> Born(g)'
    BY <1>3, <1>4 DEF Born
  <1>6. HistoryInv'
    <2>1. \A x \in Tokens : (Minted(x))' => issued'[x].kid <= currentKid'
      BY <1>0, <1>1, <1>2 DEF Minted, HistoryInv, TypeOK
    <2>2. \A v \in Users : \A g \in userFamilies'[v] : Born(g)'
      BY <1>0, <1>5 DEF HistoryInv, redisVars, TypeOK, RedisTypeOK
    <2> QED
      BY <1>0, <1>3, <1>4, <2>1, <2>2 DEF HistoryInv, Minted
  <1>7. ActiveInv'
    BY <1>0, <1>3, <1>4 DEF ActiveInv, redisVars
  <1>8. StoredInv'
    BY <1>0, <1>3, <1>4 DEF StoredInv, ActiveToken, redisVars
  <1>9. SpentInv'
    BY <1>0, <1>3, <1>4 DEF SpentInv, redisVars, history
  <1> QED
    BY <1>6, <1>7, <1>8, <1>9 DEF GlobalInv

\* by delivering a token,
LEMMA ReplyGlobal ==
  ASSUME IInv, NEW p \in Procs, Reply(p)
  PROVE  GlobalInv'
  <1>1. loc[p].new \in stored
    BY DEF Reply, IInv, MintingInv
  <1>2. HistoryInv'
    BY <1>1 DEF Reply, IInv, HistoryInv, redisVars, history, Minted, Born
  <1>3. ActiveInv' /\ StoredInv' /\ SpentInv'
    BY DEF Reply, IInv, ActiveInv, StoredInv, ActiveToken, SpentInv, redisVars, history
  <1> QED
    BY <1>2, <1>3 DEF GlobalInv

\* by a new signing key,
LEMMA KeyRotationGlobal ==
  ASSUME IInv, RotateSigningKey
  PROVE  GlobalInv'
  <1>0. TypeOK /\ HistoryInv /\ ActiveInv /\ StoredInv /\ SpentInv
    BY DEF IInv
  <1>1. \A t \in Tokens : Minted(t) => issued[t].kid \in Nat
    BY <1>0, ClaimsType
  <1>2. currentKid \in Nat /\ currentKid' = currentKid + 1
    BY <1>0 DEF TypeOK, RotateSigningKey
  <1>3. HistoryInv'
    BY <1>0, <1>1, <1>2 DEF RotateSigningKey, HistoryInv, redisVars, history, Minted, Born
  <1>4. ActiveInv'
    <2>1. \A f \in Families : active[f] # None => active[f].kid \in Nat
      BY <1>0 DEF TypeOK, RedisTypeOK, ActiveRecord
    <2> QED
      BY <1>0, <1>2, <2>1 DEF RotateSigningKey, ActiveInv, redisVars, history
  <1>5. StoredInv' /\ SpentInv'
    BY <1>0 DEF RotateSigningKey, StoredInv, ActiveToken, SpentInv, redisVars, history
  <1> QED
    BY <1>3, <1>4, <1>5 DEF GlobalInv

\* A login stores the first active token of its family.
LEMMA StoreGlobal ==
  ASSUME IInv, NEW p \in Procs, StoreActive(p)
  PROVE  GlobalInv'
  <1> DEFINE f == loc[p].fam
             n == loc[p].new
             rec == [user |-> loc[p].user, tok |-> n, kid |-> loc[p].kid, left |-> RefreshTTL]
  <1>0. TypeOK /\ HistoryInv /\ ActiveInv /\ StoredInv /\ SpentInv /\ MintingInv
    BY DEF IInv
  <1>1. Minting(p) /\ LoggingIn(p)
    BY <1>0 DEF StoreActive, MintingInv, Minting, LoggingIn
  <1>2. f \in Families /\ n \in Tokens \ stored /\ Minted(n) /\ f = issued[n].fam
        /\ loc[p].user = issued[n].user /\ issued[n].kid <= loc[p].kid /\ loc[p].kid <= currentKid
    BY <1>0, <1>1, RequestType DEF MintingInv, StoreActive
  <1>3. \A t \in Tokens : Minted(t) /\ issued[t].fam = f => t = n
    BY <1>0, <1>1 DEF MintingInv
  <1>4. \A t \in stored : t \in Tokens /\ t # n /\ issued[t].fam # f
    BY <1>0, <1>2, <1>3 DEF HistoryInv, TypeOK
  <1>5. active' = [active EXCEPT ![f] = rec] /\ stored' = stored \cup {n}
        /\ UNCHANGED <<blacklist, grace, userFamilies, issued, held, currentKid, spent, age>>
    BY DEF StoreActive, SetActive
  <1>6. active'[f] = rec /\ rec # None /\ \A g \in Families : g # f => active'[g] = active[g]
    <2>1. rec \in ActiveRecord
      BY <1>0, <1>1, RequestType, LocType DEF ActiveRecord
    <2> QED
      BY <1>0, <1>2, <1>5, <2>1 DEF TypeOK, RedisTypeOK, ActiveRecord
  <1>7. issued[n].left <= RefreshTTL
    BY <1>0, <1>2, ClaimsType
  <1>8. HistoryInv'
    BY <1>0, <1>2, <1>5 DEF HistoryInv, Minted, Born
  <1>9. ActiveInv'
    <2> SUFFICES ASSUME NEW g \in Families, active'[g] # None
                 PROVE  LET a == active'[g] IN
                          /\ a.tok \in stored' \ spent'
                          /\ issued'[a.tok].fam = g /\ issued'[a.tok].user = a.user
                          /\ issued'[a.tok].kid <= a.kid /\ a.kid <= currentKid'
                          /\ issued'[a.tok].left <= a.left
                          /\ blacklist'[a.tok] = 0 \/ blacklist'[a.tok] >= a.left
      BY DEF ActiveInv
    <2>1. CASE g = f
      <3>1. /\ active'[g].tok = n /\ active'[g].user = loc[p].user
            /\ active'[g].kid = loc[p].kid /\ active'[g].left = RefreshTTL
        BY <1>6, <2>1
      <3>2. blacklist[n] = 0 /\ n \in stored' \ spent'
        BY <1>0, <1>2, <1>5 DEF StoredInv, HistoryInv
      <3> QED
        BY <1>2, <1>5, <1>7, <2>1, <3>1, <3>2
    <2>2. CASE g # f
      BY <1>0, <1>5, <1>6, <2>2 DEF ActiveInv
    <2> QED  BY <2>1, <2>2
  <1>10. StoredInv'
    <2> SUFFICES ASSUME NEW t \in stored' \ spent'
                 PROVE  active'[issued[t].fam] = None
                          \/ (active'[issued[t].fam] # None /\ active'[issued[t].fam].tok = t)
      BY <1>0, <1>5 DEF StoredInv, ActiveToken
    <2>1. CASE t = n
      BY <1>2, <1>6, <2>1
    <2>2. CASE t # n
      <3>1. t \in stored \ spent /\ issued[t].fam \in Families /\ issued[t].fam # f
        BY <1>0, <1>4, <1>5, <2>2, ClaimsType DEF HistoryInv
      <3> QED
        BY <1>0, <1>6, <3>1 DEF StoredInv, ActiveToken
    <2> QED  BY <2>1, <2>2
  <1>11. SpentInv'
    BY <1>0, <1>5 DEF SpentInv
  <1> QED
    BY <1>8, <1>9, <1>10, <1>11 DEF GlobalInv

\* What the script's checks establish before it writes.
LEMMA RotateFacts ==
  ASSUME IInv, NEW p \in Procs, RotateOK(p)
  PROVE  LET f == loc[p].fam
             o == loc[p].old
             n == loc[p].new
             rec == [user |-> loc[p].user, tok |-> n, kid |-> loc[p].kid, left |-> RefreshTTL]
         IN /\ f \in Families /\ o \in held /\ o \in stored \ spent /\ n \in Tokens \ stored
            /\ Minted(n) /\ f = issued[n].fam /\ f = issued[o].fam
            /\ loc[p].user = issued[n].user /\ loc[p].user \in Users
            /\ issued[n].kid <= loc[p].kid /\ loc[p].kid <= currentKid
            /\ active[f] # None /\ active[f].tok = o /\ blacklist[o] = 0
            /\ active' = [active EXCEPT ![f] = rec] /\ rec \in ActiveRecord
            /\ active'[f] = rec /\ rec # None
            /\ \A g \in Families : g # f => active'[g] = active[g]
            /\ grace' = [grace EXCEPT ![o] = GraceTTL]
            /\ blacklist' = [blacklist EXCEPT ![o] = RefreshTTL]
            /\ spent' = spent \cup {o} /\ stored' = stored \cup {n}
            /\ UNCHANGED <<userFamilies, issued, held, currentKid, age>>
  <1> DEFINE f == loc[p].fam
             o == loc[p].old
             n == loc[p].new
             rec == [user |-> loc[p].user, tok |-> n, kid |-> loc[p].kid, left |-> RefreshTTL]
  <1>0. TypeOK /\ HistoryInv /\ ActiveInv /\ MintingInv /\ PresentingInv
    BY DEF IInv
  <1>1. Minting(p) /\ Presenting(p) /\ pc[p] = "rotate"
    BY DEF RotateOK, Minting, Presenting
  <1>2. f \in Families /\ loc[p].user \in Users /\ n \in Tokens \ stored /\ Minted(n)
        /\ f = issued[n].fam /\ loc[p].user = issued[n].user
        /\ issued[n].kid <= loc[p].kid /\ loc[p].kid <= currentKid
    BY <1>0, <1>1, RequestType DEF MintingInv
  <1>3. o \in held /\ f = issued[o].fam /\ o \in Tokens
    BY <1>0, <1>1, RequestType DEF PresentingInv
  <1>4. active[f] # None /\ active[f].tok = o /\ ~(blacklist[o] > 0)
    BY DEF RotateOK, Outcome, RotateOutcome
  <1>5. o \in stored \ spent
    BY <1>0, <1>2, <1>4 DEF ActiveInv
  <1>6. blacklist[o] = 0
    BY <1>0, <1>3, <1>4 DEF TypeOK, RedisTypeOK
  <1>7. rec \in ActiveRecord
    BY <1>0, <1>2, LocType DEF ActiveRecord
  <1>8. active' = [active EXCEPT ![f] = rec]
    BY DEF RotateOK, RotateKeys
  <1>9. active'[f] = rec /\ rec # None /\ \A g \in Families : g # f => active'[g] = active[g]
    BY <1>0, <1>2, <1>7, <1>8 DEF TypeOK, RedisTypeOK, ActiveRecord
  <1>10. /\ grace' = [grace EXCEPT ![o] = GraceTTL]
         /\ blacklist' = [blacklist EXCEPT ![o] = RefreshTTL]
         /\ spent' = spent \cup {o} /\ stored' = stored \cup {n}
         /\ UNCHANGED <<userFamilies, issued, held, currentKid, age>>
    BY DEF RotateOK, RotateKeys
  <1> QED
    BY <1>2, <1>3, <1>4, <1>5, <1>6, <1>7, <1>8, <1>9, <1>10

\* by a rotation,
LEMMA RotateGlobal ==
  ASSUME IInv, NEW p \in Procs, RotateOK(p)
  PROVE  GlobalInv'
  <1> DEFINE f == loc[p].fam
             o == loc[p].old
             n == loc[p].new
             rec == [user |-> loc[p].user, tok |-> n, kid |-> loc[p].kid, left |-> RefreshTTL]
  <1>0. TypeOK /\ HistoryInv /\ ActiveInv /\ StoredInv /\ SpentInv
    BY DEF IInv
  <1>1. /\ f \in Families /\ o \in stored \ spent /\ n \in Tokens \ stored
        /\ Minted(n) /\ f = issued[n].fam /\ f = issued[o].fam
        /\ loc[p].user = issued[n].user
        /\ issued[n].kid <= loc[p].kid /\ loc[p].kid <= currentKid
        /\ active[f] # None /\ active[f].tok = o
        /\ active'[f] = rec /\ rec # None
        /\ \A g \in Families : g # f => active'[g] = active[g]
        /\ grace' = [grace EXCEPT ![o] = GraceTTL]
        /\ blacklist' = [blacklist EXCEPT ![o] = RefreshTTL]
        /\ spent' = spent \cup {o} /\ stored' = stored \cup {n}
        /\ UNCHANGED <<userFamilies, issued, held, currentKid, age>>
    BY RotateFacts
  <1>2. o # n /\ n \notin spent /\ o \in Tokens
    BY <1>0, <1>1 DEF HistoryInv, TypeOK
  <1>3. issued[n].left <= RefreshTTL /\ issued[o].left <= RefreshTTL
    BY <1>0, <1>1, <1>2, ClaimsType DEF HistoryInv
  <1>4. HistoryInv'
    BY <1>0, <1>1 DEF HistoryInv, Minted, Born
  <1>8. /\ active'[f].tok = n /\ active'[f].user = loc[p].user
        /\ active'[f].kid = loc[p].kid /\ active'[f].left = RefreshTTL
        /\ active'[f] # None /\ n \in stored' \ spent'
    BY <1>1, <1>2
  <1>5. ActiveInv'
    <2> SUFFICES ASSUME NEW g \in Families, active'[g] # None
                 PROVE  LET a == active'[g] IN
                          /\ a.tok \in stored' \ spent'
                          /\ issued'[a.tok].fam = g /\ issued'[a.tok].user = a.user
                          /\ issued'[a.tok].kid <= a.kid /\ a.kid <= currentKid'
                          /\ issued'[a.tok].left <= a.left
                          /\ blacklist'[a.tok] = 0 \/ blacklist'[a.tok] >= a.left
      BY DEF ActiveInv
    <2>1. CASE g = f
      <3>1. blacklist'[n] = 0
        BY <1>0, <1>1, <1>2 DEF StoredInv, TypeOK, RedisTypeOK
      <3> QED
        BY <1>1, <1>3, <1>8, <2>1, <3>1
    <2>2. CASE g # f
      <3>1. active[g] # None /\ active'[g] = active[g]
        BY <1>1, <2>2
      <3>2. active[g].tok # o /\ active[g].tok \in stored \ spent /\ active[g].tok \in Tokens
        BY <1>0, <1>1, <2>2, <3>1 DEF ActiveInv, TypeOK
      <3>3. blacklist'[active[g].tok] = blacklist[active[g].tok]
        BY <1>0, <1>1, <3>2 DEF TypeOK, RedisTypeOK
      <3> QED
        BY <1>0, <1>1, <3>1, <3>2, <3>3 DEF ActiveInv
    <2> QED  BY <2>1, <2>2
  <1>6. StoredInv'
    <2> SUFFICES ASSUME NEW t \in stored' \ spent'
                 PROVE  active'[issued[t].fam] = None
                          \/ (active'[issued[t].fam] # None /\ active'[issued[t].fam].tok = t)
      <3>1. \A t \in Tokens \ stored' : blacklist'[t] = 0
        BY <1>0, <1>1 DEF StoredInv, TypeOK, RedisTypeOK
      <3> QED
        BY <1>1, <3>1 DEF StoredInv, ActiveToken
    <2>1. CASE t = n
      BY <1>1, <1>8, <2>1
    <2>2. CASE t # n
      <3>1. t \in stored \ spent /\ issued[t].fam \in Families /\ t # o
        BY <1>0, <1>1, <2>2, ClaimsType DEF HistoryInv, TypeOK
      <3>2. issued[t].fam # f
        BY <1>0, <1>1, <3>1 DEF StoredInv, ActiveToken
      <3> QED
        BY <1>0, <1>1, <3>1, <3>2 DEF StoredInv, ActiveToken
    <2> QED  BY <2>1, <2>2
  <1>7. SpentInv'
    <2> SUFFICES ASSUME NEW t \in Tokens
                 PROVE  /\ grace'[t] <= blacklist'[t]
                        /\ IF t \in spent'
                             THEN blacklist'[t] >= issued[t].left /\ age[t] + grace'[t] = GraceTTL
                             ELSE grace'[t] = 0 /\ age[t] = 0
      BY <1>1 DEF SpentInv
    <2>1. CASE t = o
      <3>1. grace'[t] = GraceTTL /\ blacklist'[t] = RefreshTTL /\ age[t] = 0 /\ t \in spent'
        BY <1>0, <1>1, <1>2, <2>1 DEF TypeOK, RedisTypeOK, SpentInv
      <3> QED
        BY <1>3, <2>1, <3>1
    <2>2. CASE t # o
      <3>1. grace'[t] = grace[t] /\ blacklist'[t] = blacklist[t] /\ (t \in spent' <=> t \in spent)
        BY <1>0, <1>1, <2>2 DEF TypeOK, RedisTypeOK
      <3> QED
        BY <1>0, <3>1 DEF SpentInv
    <2> QED  BY <2>1, <2>2
  <1> QED
    BY <1>4, <1>5, <1>6, <1>7 DEF GlobalInv

\* One unit of time, key by key and token by token.
LEMMA TickFacts ==
  ASSUME TypeOK, Tick
  PROVE  /\ \A f \in Families : active'[f] # None =>
              /\ active[f] # None /\ active[f].left > 1
              /\ active'[f].left = active[f].left - 1
              /\ active'[f].tok = active[f].tok /\ active'[f].user = active[f].user
              /\ active'[f].kid = active[f].kid
         /\ \A t \in Tokens :
              /\ blacklist'[t] = Less(blacklist[t]) /\ grace'[t] = Less(grace[t])
              /\ age'[t] = IF t \in spent /\ age[t] < GraceTTL THEN age[t] + 1 ELSE age[t]
              /\ Minted(t) <=> (Minted(t))'
              /\ Minted(t) => /\ issued'[t].left = Less(issued[t].left)
                              /\ issued'[t].user = issued[t].user /\ issued'[t].fam = issued[t].fam
                              /\ issued'[t].kid = issued[t].kid
         /\ UNCHANGED <<userFamilies, held, currentKid, pc, loc, spent, stored>>
  <1>1. ASSUME NEW f \in Families, active'[f] # None
        PROVE  /\ active[f] # None /\ active[f].left > 1
               /\ active'[f].left = active[f].left - 1
               /\ active'[f].tok = active[f].tok /\ active'[f].user = active[f].user
               /\ active'[f].kid = active[f].kid
    <2>1. active[f] # None /\ active[f].left # 1 /\ active'[f] = [active[f] EXCEPT !.left = @ - 1]
      BY <1>1 DEF Tick, ExpireKeys
    <2>2. active[f] \in ActiveRecord
      BY <2>1 DEF TypeOK, RedisTypeOK
    <2> QED
      BY <2>1, <2>2 DEF ActiveRecord
  <1>2. ASSUME NEW t \in Tokens
        PROVE  /\ Minted(t) <=> (Minted(t))'
               /\ Minted(t) => /\ issued'[t].left = Less(issued[t].left)
                               /\ issued'[t].user = issued[t].user /\ issued'[t].fam = issued[t].fam
                               /\ issued'[t].kid = issued[t].kid
    <2>1. issued'[t] = IF Minted(t) THEN [issued[t] EXCEPT !.left = Less(@)] ELSE None
      BY DEF Tick
    <2>2. Minted(t) => issued[t] \in Claims
      BY DEF TypeOK, Minted
    <2>3. Minted(t) => [issued[t] EXCEPT !.left = Less(@)] \in Claims
      BY <2>2 DEF Claims, Less
    <2>4. Minted(t) => issued'[t] # None
      BY <2>1, <2>3
    <2> QED
      BY <2>1, <2>2, <2>4 DEF Claims, Minted
  <1>3. \A t \in Tokens :
          /\ blacklist'[t] = Less(blacklist[t]) /\ grace'[t] = Less(grace[t])
          /\ age'[t] = IF t \in spent /\ age[t] < GraceTTL THEN age[t] + 1 ELSE age[t]
    BY DEF Tick, ExpireKeys
  <1> QED
    BY <1>1, <1>2, <1>3 DEF Tick, ExpireKeys

\* by the passing of time,
LEMMA TickGlobal ==
  ASSUME IInv, Tick
  PROVE  GlobalInv'
  <1>0. TypeOK /\ HistoryInv /\ ActiveInv /\ StoredInv /\ SpentInv
    BY DEF IInv
  <1>1. stored \subseteq Tokens /\ (\A t \in stored : Minted(t))
        /\ UNCHANGED <<userFamilies, held, currentKid, spent, stored>>
    BY <1>0, TickFacts DEF HistoryInv, TypeOK
  <1>2. \A t \in stored : issued'[t].fam = issued[t].fam
    BY <1>0, <1>1, TickFacts
  <1>3. HistoryInv'
    <2>1. \A f \in Families : Born(f) <=> Born(f)'
      BY <1>1, <1>2 DEF Born
    <2>2. \A u \in Users : userFamilies[u] \subseteq Families
      BY <1>0 DEF TypeOK, RedisTypeOK
    <2>3. \A t \in Tokens : (Minted(t))' => issued'[t].kid <= currentKid'
      BY <1>0, <1>1, TickFacts DEF HistoryInv
    <2>4. \A t \in stored' : (Minted(t))'
      BY <1>0, <1>1, TickFacts
    <2>5. \A u \in Users : \A f \in userFamilies'[u] : Born(f)'
      BY <1>0, <1>1, <2>1, <2>2 DEF HistoryInv
    <2> QED
      BY <1>0, <1>1, <2>3, <2>4, <2>5 DEF HistoryInv
  <1>4. ActiveInv'
    <2> SUFFICES ASSUME NEW g \in Families, active'[g] # None
                 PROVE  LET a == active'[g] IN
                          /\ a.tok \in stored' \ spent'
                          /\ issued'[a.tok].fam = g /\ issued'[a.tok].user = a.user
                          /\ issued'[a.tok].kid <= a.kid /\ a.kid <= currentKid'
                          /\ issued'[a.tok].left <= a.left
                          /\ blacklist'[a.tok] = 0 \/ blacklist'[a.tok] >= a.left
      BY DEF ActiveInv
    <2>1. /\ active[g] # None /\ active[g].left > 1 /\ active'[g].left = active[g].left - 1
          /\ active'[g].tok = active[g].tok /\ active'[g].user = active[g].user
          /\ active'[g].kid = active[g].kid
      BY <1>0, TickFacts
    <2> DEFINE t == active[g].tok
    <2>2. t \in stored \ spent /\ t \in Tokens /\ Minted(t) /\ issued[t].left <= active[g].left
      BY <1>0, <1>1, <2>1 DEF ActiveInv
    <2>3. issued'[t].left = Less(issued[t].left) /\ issued'[t].user = issued[t].user
          /\ issued'[t].fam = issued[t].fam /\ issued'[t].kid = issued[t].kid
      BY <1>0, <2>2, TickFacts
    <2>4. Less(issued[t].left) <= active[g].left - 1
      <3>1. issued[t].left \in Nat /\ active[g].left \in Nat
        BY <1>0, <2>1, <2>2, ClaimsType DEF TypeOK, RedisTypeOK, ActiveRecord
      <3> QED  BY <2>1, <2>2, <3>1 DEF Less
    <2>5. blacklist'[t] = 0 \/ blacklist'[t] >= active[g].left - 1
      <3>1. blacklist'[t] = Less(blacklist[t])
        BY <1>0, <2>2, TickFacts
      <3>2. blacklist[t] \in Nat /\ active[g].left \in Nat
        BY <1>0, <2>1, <2>2 DEF TypeOK, RedisTypeOK, ActiveRecord
      <3>3. blacklist[t] = 0 \/ blacklist[t] >= active[g].left
        BY <1>0, <2>1 DEF ActiveInv
      <3> QED
        BY <3>1, <3>2, <3>3 DEF Less
    <2> QED
      BY <1>0, <1>1, <2>1, <2>2, <2>3, <2>4, <2>5 DEF ActiveInv
  <1>5. StoredInv'
    <2> SUFFICES ASSUME NEW t \in stored \ spent
                 PROVE  active'[issued[t].fam] = None
                          \/ (active'[issued[t].fam] # None /\ active'[issued[t].fam].tok = t)
      <3>1. \A t \in Tokens \ stored : blacklist'[t] = 0
        BY <1>0, TickFacts DEF StoredInv, Less
      <3> QED
        BY <1>1, <1>2, <3>1 DEF StoredInv, ActiveToken
    <2>1. issued[t].fam \in Families
      BY <1>0, <1>1, ClaimsType
    <2> QED
      BY <1>0, <2>1, TickFacts DEF StoredInv, ActiveToken
  <1>6. SpentInv'
    <2> SUFFICES ASSUME NEW t \in Tokens
                 PROVE  /\ grace'[t] <= blacklist'[t]
                        /\ IF t \in spent
                             THEN blacklist'[t] >= issued'[t].left /\ age'[t] + grace'[t] = GraceTTL
                             ELSE grace'[t] = 0 /\ age'[t] = 0
      BY <1>1 DEF SpentInv
    <2>1. /\ blacklist'[t] = Less(blacklist[t]) /\ grace'[t] = Less(grace[t])
          /\ age'[t] = IF t \in spent /\ age[t] < GraceTTL THEN age[t] + 1 ELSE age[t]
          /\ t \in spent => issued'[t].left = Less(issued[t].left)
      BY <1>0, <1>1, TickFacts DEF HistoryInv
    <2>2. blacklist[t] \in Nat /\ grace[t] \in Nat /\ age[t] \in 0..GraceTTL
      BY <1>0 DEF TypeOK, RedisTypeOK
    <2>3. t \in spent => issued[t].left \in Nat
      BY <1>0, <1>1, ClaimsType DEF HistoryInv
    <2>4. /\ grace[t] <= blacklist[t]
          /\ t \in spent => blacklist[t] >= issued[t].left /\ age[t] + grace[t] = GraceTTL
          /\ t \notin spent => grace[t] = 0 /\ age[t] = 0
      BY <1>0 DEF SpentInv
    <2> QED
      BY <2>1, <2>2, <2>3, <2>4 DEF Less
  <1> QED
    BY <1>3, <1>4, <1>5, <1>6 DEF GlobalInv

\* and so by every step.
LEMMA GlobalStep ==
  ASSUME IInv, [Next]_vars
  PROVE  GlobalInv'
  BY StepEffects, TrimGlobal, MintGlobal, ReplyGlobal, KeyRotationGlobal, StoreGlobal,
     RotateGlobal, TickGlobal

-----------------------------------------------------------------------------
(* What no step undoes.                                                    *)

\* Nothing will ever accept this delivered token: its family is closed, or it is
\* blacklisted for as long as the family's key can live.
Dead(t) == LET f == issued[t].fam IN
             active[f] = None \/ blacklist[t] >= active[f].left

Evolution ==
  /\ \A t \in Tokens : Minted(t) => /\ (Minted(t))'
                                    /\ issued'[t].user = issued[t].user
                                    /\ issued'[t].fam = issued[t].fam
                                    /\ issued'[t].kid = issued[t].kid
  /\ held \subseteq held' /\ stored \subseteq stored' /\ currentKid <= currentKid'
  /\ spent \subseteq spent'
  /\ \A f \in Families : (Born(f) => Born(f)') /\ (Killed(f) => Killed(f)')
  /\ \A t \in spent : age[t] = GraceTTL => age'[t] = GraceTTL
  /\ \A t \in held \ spent : Dead(t) => t \notin spent' /\ Dead(t)'

\* What no step can undo, through deletions,
LEMMA TrimEvolution ==
  ASSUME IInv, Trim
  PROVE  Evolution
  <1>0. TypeOK /\ HistoryInv
    BY DEF IInv
  <1>1. UNCHANGED <<issued, held, currentKid, stored, spent, age>>
    BY DEF Trim, history
  <1>2. \A f \in Families : Born(f) <=> Born(f)'
    BY <1>1 DEF Born
  <1>3. \A f \in Families : Killed(f) => Killed(f)'
    BY <1>2 DEF Killed, Trim
  <1>4. ASSUME NEW t \in held, Dead(t) PROVE Dead(t)'
    <2>1. t \in Tokens /\ issued[t].fam \in Families
      BY <1>0, ClaimsType DEF HistoryInv, TypeOK
    <2>2. active'[issued[t].fam] # None =>
            active[issued[t].fam] # None /\ active'[issued[t].fam].left = active[issued[t].fam].left
            /\ active[issued[t].fam].left \in 1..RefreshTTL
      BY <1>0, <2>1 DEF Trim, TypeOK, RedisTypeOK, ActiveRecord
    <2>3. blacklist'[t] >= blacklist[t] /\ blacklist[t] \in Nat /\ blacklist'[t] \in Nat
      BY <1>0, <2>1 DEF Trim, TypeOK, RedisTypeOK
    <2> QED
      BY <1>1, <1>4, <2>2, <2>3 DEF Dead
  <1>5. currentKid \in Nat
    BY <1>0 DEF TypeOK
  <1> QED
    BY <1>1, <1>2, <1>3, <1>4, <1>5 DEF Evolution, Minted

\* Steps that leave the keys alone, and the tokens known so far.
LEMMA QuietEvolution ==
  ASSUME IInv, UNCHANGED <<redisVars, spent, age, stored>>,
         \A t \in Tokens : Minted(t) => issued'[t] = issued[t],
         held \subseteq held', currentKid <= currentKid'
  PROVE  Evolution
  <1>0. TypeOK /\ HistoryInv
    BY DEF IInv
  <1>1. held \subseteq stored /\ stored \subseteq Tokens /\ \A t \in stored : Minted(t)
    BY <1>0 DEF TypeOK, HistoryInv
  <1>2. \A t \in stored : issued'[t] = issued[t]
    BY <1>1
  <1>3. \A f \in Families : Born(f) <=> Born(f)'
    BY <1>2 DEF Born
  <1>4. \A f \in Families : Killed(f) <=> Killed(f)'
    BY <1>3 DEF Killed, redisVars
  <1>5. \A t \in held : Dead(t) <=> Dead(t)'
    BY <1>1, <1>2 DEF Dead, redisVars
  <1> QED
    BY <1>3, <1>4, <1>5 DEF Evolution, Minted

\* through the storing of a new family,
LEMMA StoreEvolution ==
  ASSUME IInv, NEW p \in Procs, StoreActive(p)
  PROVE  Evolution
  <1> DEFINE f == loc[p].fam
             n == loc[p].new
  <1>0. TypeOK /\ HistoryInv /\ MintingInv
    BY DEF IInv
  <1>1. LoggingIn(p) /\ n \in Tokens \ stored
    BY <1>0 DEF StoreActive, MintingInv, Minting, LoggingIn
  <1>2. \A t \in stored : t \in Tokens /\ issued[t].fam # f /\ Minted(t)
    BY <1>0, <1>1 DEF MintingInv, HistoryInv, TypeOK
  <1>3. /\ \A g \in Families : g # f => active'[g] = active[g]
        /\ stored' = stored \cup {n}
        /\ UNCHANGED <<blacklist, grace, userFamilies, issued, held, currentKid, spent, age>>
    BY <1>0 DEF StoreActive, SetActive, TypeOK, RedisTypeOK
  <1>4. ~Born(f)
    BY <1>2 DEF Born
  <1>5. \A g \in Families : (Born(g) => Born(g)') /\ (Killed(g) => Killed(g)')
    BY <1>3, <1>4 DEF Born, Killed
  <1>6. \A t \in held : issued[t].fam \in Families /\ issued[t].fam # f
    BY <1>0, <1>2, ClaimsType DEF HistoryInv
  <1>7. \A t \in held : Dead(t) => Dead(t)'
    BY <1>3, <1>6 DEF Dead
  <1>8. currentKid \in Nat
    BY <1>0 DEF TypeOK
  <1> QED
    BY <1>3, <1>5, <1>7, <1>8 DEF Evolution, Minted

\* through a rotation,
LEMMA RotateEvolution ==
  ASSUME IInv, NEW p \in Procs, RotateOK(p)
  PROVE  Evolution
  <1> DEFINE f == loc[p].fam
             o == loc[p].old
             n == loc[p].new
  <1>0. TypeOK /\ HistoryInv /\ StoredInv
    BY DEF IInv
  <1>1. /\ f \in Families /\ o \in stored \ spent /\ f = issued[o].fam
        /\ active[f] # None /\ active[f].tok = o /\ blacklist[o] = 0
        /\ active'[f] # None
        /\ \A g \in Families : g # f => active'[g] = active[g]
        /\ blacklist' = [blacklist EXCEPT ![o] = RefreshTTL]
        /\ spent' = spent \cup {o} /\ stored' = stored \cup {n}
        /\ UNCHANGED <<userFamilies, issued, held, currentKid, age>>
    BY RotateFacts
  <1>2. \A g \in Families : (Born(g) => Born(g)') /\ (Killed(g) => Killed(g)')
    BY <1>1 DEF Born, Killed
  <1>3. ASSUME NEW t \in held \ spent, Dead(t) PROVE t \notin spent' /\ Dead(t)'
    <2>1. t \in stored \ spent /\ t \in Tokens /\ issued[t].fam \in Families
      BY <1>0, ClaimsType DEF HistoryInv, TypeOK
    <2>2. issued[t].fam # f
      <3>1. SUFFICES ASSUME issued[t].fam = f PROVE FALSE
        OBVIOUS
      <3>2. t = o
        BY <1>0, <1>1, <2>1, <3>1 DEF StoredInv, ActiveToken
      <3>3. active[f].left \in 1..RefreshTTL
        BY <1>0, <1>1 DEF TypeOK, RedisTypeOK, ActiveRecord
      <3> QED
        BY <1>1, <1>3, <3>1, <3>2, <3>3 DEF Dead
    <2>3. t # o /\ blacklist'[t] = blacklist[t]
      BY <1>0, <1>1, <2>1, <2>2 DEF TypeOK, RedisTypeOK
    <2> QED
      BY <1>1, <1>3, <2>1, <2>2, <2>3 DEF Dead
  <1>4. currentKid \in Nat
    BY <1>0 DEF TypeOK
  <1> QED
    BY <1>1, <1>2, <1>3, <1>4 DEF Evolution, Minted

\* through the passing of time,
LEMMA TickEvolution ==
  ASSUME IInv, Tick
  PROVE  Evolution
  <1>0. TypeOK /\ HistoryInv
    BY DEF IInv
  <1>1. /\ \A t \in Tokens : Minted(t) => /\ (Minted(t))'
                                          /\ issued'[t].user = issued[t].user
                                          /\ issued'[t].fam = issued[t].fam
                                          /\ issued'[t].kid = issued[t].kid
        /\ UNCHANGED <<userFamilies, held, currentKid, spent, stored>>
    BY <1>0, TickFacts
  <1>2. held \subseteq stored /\ stored \subseteq Tokens /\ spent \subseteq Tokens
        /\ \A t \in stored : Minted(t)
    BY <1>0 DEF HistoryInv, TypeOK
  <1>3. \A f \in Families : (Born(f) => Born(f)') /\ (Killed(f) => Killed(f)')
    <2>1. \A f \in Families : Born(f) => Born(f)'
      BY <1>1, <1>2 DEF Born
    <2>2. \A f \in Families : active[f] = None => active'[f] = None
      BY <1>0, TickFacts
    <2> QED
      BY <2>1, <2>2 DEF Killed
  <1>4. \A t \in spent : age[t] = GraceTTL => age'[t] = GraceTTL
    BY <1>0, <1>2, TickFacts
  <1>5. ASSUME NEW t \in held, Dead(t) PROVE Dead(t)'
    <2>1. t \in Tokens /\ Minted(t) /\ issued[t].fam \in Families
      BY <1>0, <1>2, ClaimsType
    <2>2. issued'[t].fam = issued[t].fam /\ blacklist'[t] = Less(blacklist[t])
      BY <1>0, <2>1, TickFacts
    <2>3. blacklist[t] \in Nat
      BY <1>0, <2>1 DEF TypeOK, RedisTypeOK
    <2>4. active'[issued[t].fam] # None =>
            /\ active[issued[t].fam] # None /\ active[issued[t].fam].left > 1
            /\ active'[issued[t].fam].left = active[issued[t].fam].left - 1
            /\ active[issued[t].fam].left \in Nat
      BY <1>0, <2>1, TickFacts DEF TypeOK, RedisTypeOK, ActiveRecord
    <2> QED
      BY <1>5, <2>2, <2>3, <2>4 DEF Dead, Less
  <1>6. currentKid \in Nat
    BY <1>0 DEF TypeOK
  <1> QED
    BY <1>1, <1>3, <1>4, <1>5, <1>6 DEF Evolution

\* and so through every step.
LEMMA StepEvolution ==
  ASSUME IInv, [Next]_vars
  PROVE  Evolution
  <1>0. TypeOK
    BY DEF IInv
  <1>1. ASSUME NEW p \in Procs, MintStep(p) PROVE Evolution
    <2> PICK t \in Tokens, u \in Users, f \in Families :
          /\ ~Minted(t)
          /\ issued' = [issued EXCEPT ![t] =
               [user |-> u, fam |-> f, kid |-> currentKid, left |-> RefreshTTL]]
          /\ UNCHANGED <<redisVars, held, currentKid, history>>
      BY <1>1, MintEffect
    <2>1. \A x \in Tokens : Minted(x) => issued'[x] = issued[x]
      BY <1>0 DEF TypeOK
    <2>2. held \subseteq held' /\ currentKid <= currentKid'
      BY <1>0 DEF TypeOK
    <2>3. UNCHANGED <<redisVars, spent, age, stored>>
      BY DEF history
    <2> QED
      BY <2>1, <2>2, <2>3, QuietEvolution
  <1>2. ASSUME NEW p \in Procs, Reply(p) PROVE Evolution
    <2>1. held \subseteq held' /\ currentKid <= currentKid' /\ UNCHANGED <<redisVars, spent, age, stored, issued>>
      BY <1>0, <1>2 DEF Reply, TypeOK, history
    <2> QED
      BY <2>1, QuietEvolution
  <1>3. ASSUME RotateSigningKey PROVE Evolution
    <2>1. held \subseteq held' /\ currentKid <= currentKid' /\ UNCHANGED <<redisVars, spent, age, stored, issued>>
      BY <1>0, <1>3 DEF RotateSigningKey, TypeOK, history
    <2> QED
      BY <2>1, QuietEvolution
  <1> QED
    BY <1>1, <1>2, <1>3, StepEffects, TrimEvolution, StoreEvolution, RotateEvolution,
       TickEvolution

-----------------------------------------------------------------------------
(* How a request arrives at a label.                                       *)

\* Every request but the one that moves stays where it is.
LEMMA Unmoved ==
  ASSUME IInv, [Next]_vars, NEW q \in Procs
  PROVE  \/ pc'[q] = pc[q] /\ loc'[q] = loc[q]
         \/ /\ Moves(q)
            /\ \A r \in Procs \ {q} : pc'[r] = pc[r] /\ loc'[r] = loc[r]
  <1>0. pc \in [Procs -> Labels] /\ loc \in [Procs -> Local]
    BY DEF IInv, TypeOK
  <1>1. ASSUME NEW p \in Procs, Moves(p)
        PROVE  \A r \in Procs \ {p} : pc'[r] = pc[r] /\ loc'[r] = loc[r]
    <2>1. \E l, r : Move(p, l, r)
      BY <1>1 DEF Moves, Begin, Continue, Abort, Goto, Finish,
           BeginLogin, StampKid, StoreActive, TrackFamily, Reply, BeginRefresh, MintSuccessor,
           RotateOK, RotateRefused, RotateReuse, NukeRead, NukeExec, NukeRetry, Untrack,
           BeginLogout, LogoutExec, BeginLogoutAll, LoadFamily, RevokeLoaded, DelLoaded,
           ClearFamilies, ReplyDone, BeginList, CheckFamily, PruneFamilies
    <2> QED
      BY <1>0, <2>1 DEF Move
  <1>2. ASSUME UNCHANGED <<pc, loc>> PROVE pc'[q] = pc[q] /\ loc'[q] = loc[q]
    BY <1>2
  <1>3. CASE UNCHANGED vars
    BY <1>2, <1>3 DEF vars
  <1>4. CASE RotateSigningKey
    BY <1>2, <1>4 DEF RotateSigningKey
  <1>5. CASE Tick
    BY <1>2, <1>5 DEF Tick
  <1>6. CASE \E p \in Procs : Moves(p)
    BY <1>1, <1>6
  <1> QED
    BY <1>3, <1>4, <1>5, <1>6 DEF Next, FaultFreeNext, Moves

\* The steps that lead to each label.
Arrival(p) ==
  /\ pc'[p] = "verified" => \E t \in Tokens : BeginRefresh(p, t)
  /\ pc'[p] = "stamp" => MintStep(p)
  /\ pc'[p] \in {"store", "rotate"} => StampKid(p)
  /\ pc'[p] = "track" => StoreActive(p) \/ RotateOK(p)
  /\ pc'[p] = "reply" => TrackFamily(p)
  /\ pc'[p] = "nukeRead" => RotateReuse(p) \/ NukeRetry(p)
  /\ pc'[p] = "nukeExec" => NukeRead(p)
  /\ pc'[p] = "logout" => \E t \in Tokens : BeginLogout(p, t)
  /\ pc'[p] = "untrack" => NukeRead(p) \/ NukeExec(p) \/ LogoutExec(p)
  /\ pc'[p] = "load" => \/ \E u \in Users : BeginLogoutAll(p, u)
                        \/ \E f \in Families : LoadFamily(p, f)
  /\ pc'[p] = "revoke" => DelLoaded(p) \/ \E f \in Families : LoadFamily(p, f)
  /\ pc'[p] = "delActive" => \E f \in Families : RevokeLoaded(p, f)
  /\ pc'[p] = "clear" => DelLoaded(p)
  /\ pc'[p] = "done" => ClearFamilies(p) \/ \E u \in Users : BeginLogoutAll(p, u)
  /\ pc'[p] = "exists" => \/ \E u \in Users : BeginList(p, u)
                          \/ \E f \in Families : CheckFamily(p, f)
  /\ pc'[p] = "prune" => \E f \in Families : CheckFamily(p, f)

\* What has just been done when a request comes to a label.
LEMMA Arrivals ==
  ASSUME IInv, NEW p \in Procs, Moves(p)
  PROVE  Arrival(p)
  <1>0. pc \in [Procs -> Labels]
    BY DEF IInv, TypeOK
  <1>1. \A l, r : Move(p, l, r) => pc'[p] = l
    BY <1>0 DEF Move
  <1>2. ASSUME \E u \in Users, f \in Families, t \in Tokens : BeginLogin(p, u, f, t) PROVE Arrival(p)
    <2>1. pc'[p] = "stamp"
      BY <1>1, <1>2 DEF BeginLogin
    <2> QED
      BY <1>2, <2>1 DEF Arrival, MintStep
  <1>3. ASSUME \E t \in Tokens : MintSuccessor(p, t) PROVE Arrival(p)
    <2>1. pc'[p] = "stamp"
      BY <1>1, <1>3 DEF MintSuccessor
    <2> QED
      BY <1>3, <2>1 DEF Arrival, MintStep
  <1>4. ASSUME StampKid(p) PROVE Arrival(p)
    <2>1. pc'[p] \in {"store", "rotate"}
      BY <1>1, <1>4 DEF StampKid
    <2> QED
      BY <1>4, <2>1 DEF Arrival
  <1>5. ASSUME StoreActive(p) \/ RotateOK(p) PROVE Arrival(p)
    <2>1. pc'[p] = "track"
      BY <1>1, <1>5 DEF StoreActive, RotateOK, Goto
    <2> QED
      BY <1>5, <2>1 DEF Arrival
  <1>6. ASSUME TrackFamily(p) PROVE Arrival(p)
    <2>1. pc'[p] = "reply"
      BY <1>1, <1>6 DEF TrackFamily, Goto
    <2> QED
      BY <1>6, <2>1 DEF Arrival
  <1>7. ASSUME Reply(p) \/ RotateRefused(p) \/ Untrack(p) \/ ReplyDone(p) \/ PruneFamilies(p) \/ Abort(p) PROVE Arrival(p)
    <2>1. pc'[p] = "idle"
      BY <1>1, <1>7 DEF Reply, RotateRefused, Untrack, ReplyDone, PruneFamilies, Abort, Finish
    <2> QED
      BY <1>7, <2>1 DEF Arrival
  <1>8. ASSUME \E t \in Tokens : BeginRefresh(p, t) PROVE Arrival(p)
    <2>1. pc'[p] = "verified"
      BY <1>1, <1>8 DEF BeginRefresh
    <2> QED
      BY <1>8, <2>1 DEF Arrival
  <1>9. ASSUME \E t \in Tokens : BeginLogout(p, t) PROVE Arrival(p)
    <2>1. pc'[p] = "logout"
      BY <1>1, <1>9 DEF BeginLogout
    <2> QED
      BY <1>9, <2>1 DEF Arrival
  <1>10. ASSUME RotateReuse(p) PROVE Arrival(p)
    <2>1. pc'[p] = "nukeRead"
      BY <1>1, <1>10 DEF RotateReuse, Goto
    <2> QED
      BY <1>10, <2>1 DEF Arrival
  <1>11. ASSUME NukeRetry(p) PROVE Arrival(p)
    <2>1. pc'[p] \in {"nukeRead", "idle"}
      BY <1>1, <1>11 DEF NukeRetry, Finish
    <2> QED
      BY <1>11, <2>1 DEF Arrival
  <1>12. ASSUME NukeRead(p) PROVE Arrival(p)
    <2>1. pc'[p] \in {"nukeExec", "untrack"}
      BY <1>1, <1>12 DEF NukeRead
    <2> QED
      BY <1>12, <2>1 DEF Arrival
  <1>13. ASSUME NukeExec(p) \/ LogoutExec(p) PROVE Arrival(p)
    <2>1. pc'[p] = "untrack"
      BY <1>1, <1>13 DEF NukeExec, LogoutExec, Goto
    <2> QED
      BY <1>13, <2>1 DEF Arrival
  <1>14. ASSUME \E u \in Users : BeginLogoutAll(p, u) PROVE Arrival(p)
    <2>1. pc'[p] \in {"load", "done"}
      BY <1>1, <1>14 DEF BeginLogoutAll
    <2> QED
      BY <1>14, <2>1 DEF Arrival
  <1>15. ASSUME \E f \in Families : LoadFamily(p, f) PROVE Arrival(p)
    <2>1. pc'[p] \in {"load", "revoke"}
      BY <1>1, <1>15 DEF LoadFamily
    <2> QED
      BY <1>15, <2>1 DEF Arrival
  <1>16. ASSUME \E f \in Families : RevokeLoaded(p, f) PROVE Arrival(p)
    <2>1. pc'[p] = "delActive"
      BY <1>1, <1>16 DEF RevokeLoaded
    <2> QED
      BY <1>16, <2>1 DEF Arrival
  <1>17. ASSUME DelLoaded(p) PROVE Arrival(p)
    <2>1. pc'[p] \in {"clear", "revoke"}
      BY <1>1, <1>17 DEF DelLoaded
    <2> QED
      BY <1>17, <2>1 DEF Arrival
  <1>18. ASSUME ClearFamilies(p) PROVE Arrival(p)
    <2>1. pc'[p] = "done"
      BY <1>1, <1>18 DEF ClearFamilies, Goto
    <2> QED
      BY <1>18, <2>1 DEF Arrival
  <1>19. ASSUME \E u \in Users : BeginList(p, u) PROVE Arrival(p)
    <2>1. pc'[p] = "exists"
      BY <1>1, <1>19 DEF BeginList
    <2> QED
      BY <1>19, <2>1 DEF Arrival
  <1>20. ASSUME \E f \in Families : CheckFamily(p, f) PROVE Arrival(p)
    <2>1. pc'[p] \in {"prune", "exists"}
      BY <1>1, <1>20 DEF CheckFamily
    <2> QED
      BY <1>20, <2>1 DEF Arrival
  <1> QED
    BY <1>2, <1>3, <1>4, <1>5, <1>6, <1>7, <1>8, <1>9, <1>10, <1>11, <1>12, <1>13, <1>14, <1>15, <1>16, <1>17, <1>18, <1>19, <1>20
       DEF Moves, Begin, Continue

-----------------------------------------------------------------------------
(* The requests.                                                           *)

\* The steps of a refresh or a logout that keep the token it presents.
LEMMA Carry ==
  ASSUME IInv, NEW p \in Procs,
         StampKid(p) \/ RotateReuse(p) \/ NukeRetry(p) \/ NukeRead(p) \/ NukeExec(p)
           \/ LogoutExec(p) \/ StoreActive(p) \/ RotateOK(p) \/ TrackFamily(p),
         pc'[p] # "idle"
  PROVE  /\ loc'[p].old = loc[p].old /\ loc'[p].user = loc[p].user
         /\ loc'[p].fam = loc[p].fam /\ loc'[p].op = loc[p].op /\ loc'[p].new = loc[p].new
         /\ loc'[p].snap = loc[p].snap /\ loc'[p].todo = loc[p].todo
         /\ loc'[p].recs = loc[p].recs
         /\ UNCHANGED <<issued, held, currentKid, age>>
  <1>0. pc \in [Procs -> Labels] /\ loc \in [Procs -> Local] /\ loc[p] \in Local
    BY DEF IInv, TypeOK
  <1>1. \A l, r : Move(p, l, r) => pc'[p] = l /\ loc'[p] = r
    BY <1>0 DEF Move
  <1>2. CASE StampKid(p)
    <2>1. loc'[p] = [loc[p] EXCEPT !.kid = currentKid]
      BY <1>1, <1>2 DEF StampKid
    <2> QED  BY <1>0, <1>2, <2>1 DEF StampKid, Local, history
  <1>3. CASE NukeRetry(p)
    <2>1. loc'[p] = [loc[p] EXCEPT !.tries = @ + 1, !.seen = None]
      BY <1>1, <1>3 DEF NukeRetry, Finish
    <2> QED  BY <1>0, <1>3, <2>1 DEF NukeRetry, Local, history
  <1>4. CASE NukeRead(p)
    <2>1. loc'[p] = [loc[p] EXCEPT !.seen = ActiveToken(loc[p].fam)]
      BY <1>1, <1>4 DEF NukeRead
    <2> QED  BY <1>0, <1>4, <2>1 DEF NukeRead, Local, history
  <1>5. CASE RotateReuse(p) \/ NukeExec(p) \/ LogoutExec(p) \/ StoreActive(p) \/ RotateOK(p)
             \/ TrackFamily(p)
    <2>1. loc'[p] = loc[p]
      BY <1>1, <1>5 DEF RotateReuse, NukeExec, LogoutExec, StoreActive, RotateOK,
           TrackFamily, Goto
    <2> QED  BY <1>5, <2>1 DEF RotateReuse, NukeExec, LogoutExec, StoreActive, RotateOK,
           TrackFamily, history
  <1> QED
    BY <1>2, <1>3, <1>4, <1>5

\* A request presents a token that was delivered, at every label that uses it.
LEMMA PresentingStep ==
  ASSUME IInv, [Next]_vars
  PROVE  PresentingInv'
  <1>0. TypeOK /\ HistoryInv /\ PresentingInv /\ MintingInv
    BY DEF IInv
  <1>b. ASSUME NEW q \in Procs, pc'[q] = "verified" PROVE loc'[q].op = "refresh"
    <2>1. CASE pc'[q] = pc[q] /\ loc'[q] = loc[q]
      BY <1>0, <1>b, <2>1 DEF PresentingInv, Presenting
    <2>2. CASE Moves(q)
      <3> PICK t \in Tokens : BeginRefresh(q, t)
        BY <1>b, <2>2, Arrivals DEF Arrival
      <3>2. loc'[q] = [Blank EXCEPT !.op = "refresh", !.old = t, !.user = issued[t].user,
                                    !.fam = issued[t].fam]
        BY <1>0 DEF BeginRefresh, Move, TypeOK
      <3> QED
        BY <3>2 DEF Blank
    <2> QED
      BY <2>1, <2>2, Unmoved
  <1> SUFFICES ASSUME NEW q \in Procs, Presenting(q)'
               PROVE  /\ loc'[q].old \in held'
                      /\ loc'[q].user = issued'[loc'[q].old].user
                      /\ loc'[q].fam = issued'[loc'[q].old].fam
    BY <1>b DEF PresentingInv
  <1>1. /\ held \subseteq held'
        /\ \A t \in held : issued'[t].user = issued[t].user /\ issued'[t].fam = issued[t].fam
    BY <1>0, StepEvolution DEF Evolution, HistoryInv, TypeOK
  <1>a. ASSUME Presenting(q), loc'[q].old = loc[q].old, loc'[q].user = loc[q].user,
               loc'[q].fam = loc[q].fam
        PROVE  /\ loc'[q].old \in held'
               /\ loc'[q].user = issued'[loc'[q].old].user
               /\ loc'[q].fam = issued'[loc'[q].old].fam
    BY <1>0, <1>1, <1>a DEF PresentingInv
  <1>2. CASE pc'[q] = pc[q] /\ loc'[q] = loc[q]
    <2>1. Presenting(q)
      BY <1>2 DEF Presenting
    <2> QED
      BY <1>2, <2>1, <1>a
  <1> SUFFICES ASSUME Moves(q), Arrival(q)
               PROVE  /\ loc'[q].old \in held'
                      /\ loc'[q].user = issued'[loc'[q].old].user
                      /\ loc'[q].fam = issued'[loc'[q].old].fam
    BY <1>2, Unmoved, Arrivals
  <1>3. CASE pc'[q] \in {"verified", "logout"}
    <2> PICK t \in Tokens : BeginRefresh(q, t) \/ BeginLogout(q, t)
      BY <1>3 DEF Arrival
    <2>1. t \in held
      BY DEF BeginRefresh, BeginLogout, Verifies
    <2>2. loc'[q] = [Blank EXCEPT !.op = "refresh", !.old = t, !.user = issued[t].user,
                                  !.fam = issued[t].fam]
          \/ loc'[q] = [Blank EXCEPT !.op = "logout", !.old = t, !.user = issued[t].user,
                                     !.fam = issued[t].fam]
      BY <1>0 DEF BeginRefresh, BeginLogout, Move, TypeOK
    <2>3. loc'[q].old = t /\ loc'[q].user = issued[t].user /\ loc'[q].fam = issued[t].fam
      BY <2>2 DEF Blank
    <2> QED
      BY <1>1, <2>1, <2>3
  <1>4. CASE pc'[q] = "stamp"
    <2>1. loc'[q].op = "refresh"
      BY <1>4 DEF Presenting
    <2>2. MintStep(q)
      BY <1>4 DEF Arrival
    <2>3. Presenting(q) /\ loc'[q].old = loc[q].old /\ loc'[q].user = loc[q].user
          /\ loc'[q].fam = loc[q].fam
      BY <2>1, <2>2, MintEffect
    <2> QED
      BY <2>3, <1>a
  <1>5. CASE pc'[q] = "rotate"
    <2>1. StampKid(q)
      BY <1>5 DEF Arrival
    <2>2. pc[q] = "stamp" /\ loc[q].op # "login"
      BY <1>0, <1>5, <2>1 DEF StampKid, Move, TypeOK
    <2>3. Presenting(q)
      BY <1>0, <2>2 DEF MintingInv, Minting, Presenting
    <2> QED
      BY <1>5, <2>1, <2>3, <1>a, Carry
  <1>6. CASE pc'[q] \in {"nukeRead", "nukeExec", "untrack"}
    <2>1. RotateReuse(q) \/ NukeRetry(q) \/ NukeRead(q) \/ NukeExec(q) \/ LogoutExec(q)
      BY <1>6 DEF Arrival
    <2>2. Presenting(q)
      BY <2>1 DEF RotateReuse, NukeRetry, NukeRead, NukeExec, LogoutExec, Presenting
    <2> QED
      BY <1>6, <2>1, <2>2, <1>a, Carry
  <1> QED
    BY <1>3, <1>4, <1>5, <1>6 DEF Presenting

\* Why the alarm cannot be raised by a token that may still be accepted: the
\* script reports reuse of an unspent token only once it is dead.
LEMMA AlarmFacts ==
  ASSUME IInv, NEW p \in Procs, RotateReuse(p)
  PROVE  LET o == loc[p].old IN IF o \in spent THEN age[o] = GraceTTL ELSE Dead(o)
  <1> DEFINE o == loc[p].old
             f == loc[p].fam
  <1>0. TypeOK /\ HistoryInv /\ ActiveInv /\ StoredInv /\ SpentInv /\ PresentingInv
    BY DEF IInv
  <1>1. Presenting(p)
    BY DEF RotateReuse, Presenting
  <1>2. o \in held /\ o \in stored /\ o \in Tokens /\ f \in Families /\ f = issued[o].fam
        /\ loc[p].user = issued[o].user
    BY <1>0, <1>1, RequestType DEF PresentingInv, HistoryInv
  <1>3. blacklist[o] \in Nat /\ grace[o] \in Nat /\ age[o] \in Nat
    BY <1>0, <1>2 DEF TypeOK, RedisTypeOK
  <1>4. \/ blacklist[o] > 0 /\ ~(grace[o] > 0)
        \/ ~(blacklist[o] > 0) /\ active[f] # None /\ active[f].user # loc[p].user
        \/ ~(blacklist[o] > 0) /\ active[f] # None /\ active[f].tok # o
    BY DEF RotateReuse, Outcome, RotateOutcome
  <1>5. CASE o \in spent
    <2>1. grace[o] = 0
      BY <1>0, <1>2, <1>3, <1>4 DEF SpentInv
    <2>2. age[o] + grace[o] = GraceTTL
      BY <1>0, <1>2, <1>5 DEF SpentInv
    <2> QED
      BY <1>3, <1>5, <2>1, <2>2
  <1>6. CASE o \notin spent
    <2>1. active[f] = None \/ active[f].tok = o
      BY <1>0, <1>2, <1>6 DEF StoredInv, ActiveToken
    <2>2. active[f] # None => active[f].user = loc[p].user
      BY <1>0, <1>2, <2>1 DEF ActiveInv
    <2>3. active[f] # None => blacklist[o] >= active[f].left
      BY <1>0, <1>2, <1>4, <2>1, <2>2 DEF ActiveInv
    <2> QED
      BY <1>2, <1>6, <2>3 DEF Dead
  <1> QED
    BY <1>5, <1>6

\* A token that raised the alarm stays spent beyond grace or unusable.
LEMMA NukeStep ==
  ASSUME IInv, [Next]_vars
  PROVE  NukeInv'
  <1>0. TypeOK /\ HistoryInv /\ PresentingInv /\ NukeInv
    BY DEF IInv
  <1> SUFFICES ASSUME NEW q \in Procs, pc'[q] \in {"nukeRead", "nukeExec"}
               PROVE  /\ pc'[q] = "nukeExec" => loc'[q].seen # None
                      /\ IF loc'[q].old \in spent' THEN age'[loc'[q].old] = GraceTTL
                         ELSE \/ active'[loc'[q].fam] = None
                              \/ blacklist'[loc'[q].old] >= active'[loc'[q].fam].left
    BY DEF NukeInv
  <1> PICK o : o = loc'[q].old
    OBVIOUS
  <1>1. o \in held' /\ loc'[q].fam = issued'[o].fam
    BY PresentingStep DEF PresentingInv, Presenting
  <1>2. SUFFICES /\ pc'[q] = "nukeExec" => loc'[q].seen # None
                 /\ IF o \in spent' THEN age'[o] = GraceTTL ELSE Dead(o)'
    BY <1>1 DEF Dead
  <1> DEFINE Past(t) == IF t \in spent THEN age[t] = GraceTTL ELSE Dead(t)
  <1>3. ASSUME NEW t \in held, Past(t)
        PROVE  IF t \in spent' THEN age'[t] = GraceTTL ELSE Dead(t)'
    BY <1>3, StepEvolution DEF Evolution
  <1>4. ASSUME pc[q] \in {"nukeRead", "nukeExec"}
        PROVE  loc[q].old \in held /\ Past(loc[q].old)
    <2>1. loc[q].old \in held /\ loc[q].fam = issued[loc[q].old].fam
      BY <1>0, <1>4 DEF PresentingInv, Presenting
    <2> QED
      BY <1>0, <1>4, <2>1 DEF NukeInv, Dead
  <1>5. CASE pc'[q] = pc[q] /\ loc'[q] = loc[q]
    BY <1>0, <1>3, <1>4, <1>5 DEF NukeInv
  <1> SUFFICES ASSUME Moves(q), Arrival(q)
               PROVE  /\ pc'[q] = "nukeExec" => loc'[q].seen # None
                      /\ IF o \in spent' THEN age'[o] = GraceTTL ELSE Dead(o)'
    BY <1>5, Unmoved, Arrivals
  <1>6. RotateReuse(q) \/ NukeRetry(q) \/ NukeRead(q)
    BY DEF Arrival
  <1>7. o = loc[q].old
    BY <1>6, Carry
  <1>8. loc[q].old \in held /\ Past(loc[q].old)
    <2>1. CASE RotateReuse(q)
      <3>1. loc[q].old \in held
        BY <1>0, <2>1 DEF RotateReuse, PresentingInv, Presenting
      <3> QED
        BY <2>1, <3>1, AlarmFacts
    <2>2. CASE NukeRetry(q) \/ NukeRead(q)
      BY <1>4, <2>2 DEF NukeRetry, NukeRead
    <2> QED
      BY <1>6, <2>1, <2>2
  <1>9. pc'[q] = "nukeExec" => loc'[q].seen # None
    <2> SUFFICES ASSUME NukeRead(q), pc'[q] = "nukeExec" PROVE loc'[q].seen # None
      BY DEF Arrival
    <2>1. active[loc[q].fam] # None /\ loc[q].fam \in Families
      BY <1>0, RequestType DEF NukeRead, Move, TypeOK, Presenting
    <2>2. loc'[q].seen = ActiveToken(loc[q].fam)
      BY <1>0 DEF NukeRead, Move, TypeOK, Local
    <2> QED
      BY <1>0, <2>1, <2>2 DEF ActiveToken, TypeOK, RedisTypeOK, ActiveRecord
  <1> QED
    BY <1>3, <1>7, <1>8, <1>9

\* The local variables of a bulk revocation, as each of its steps leaves them.
LEMMA BulkFacts ==
  ASSUME IInv, NEW p \in Procs
  PROVE  /\ \A u \in Users : BeginLogoutAll(p, u) =>
              /\ loc'[p].snap = userFamilies[u] /\ loc'[p].todo = userFamilies[u]
              /\ loc'[p].seen = None /\ loc'[p].recs = [f \in Families |-> None]
              /\ pc'[p] = "done" => userFamilies[u] = {}
         /\ \A f \in Families : LoadFamily(p, f) =>
              /\ pc[p] = "load" /\ loc'[p].snap = loc[p].snap /\ loc'[p].seen = loc[p].seen
              /\ loc'[p].recs = [loc[p].recs EXCEPT ![f] = ActiveToken(f)]
              /\ pc'[p] = "revoke" => loc'[p].todo = loc[p].snap
         /\ \A f \in Families : RevokeLoaded(p, f) =>
              /\ pc[p] = "revoke" /\ f \in loc[p].todo /\ loc'[p].fam = f
              /\ loc'[p].snap = loc[p].snap /\ loc'[p].todo = loc[p].todo
              /\ loc'[p].seen = loc[p].seen /\ loc'[p].recs = loc[p].recs
         /\ DelLoaded(p) =>
              /\ pc[p] = "delActive" /\ active'[loc[p].fam] = None
              /\ loc'[p].snap = loc[p].snap /\ loc'[p].todo = loc[p].todo \ {loc[p].fam}
              /\ loc'[p].seen = loc[p].seen /\ loc'[p].recs = loc[p].recs
              /\ pc'[p] = "clear" => loc[p].todo = {loc[p].fam}
         /\ ClearFamilies(p) =>
              pc[p] = "clear" /\ loc'[p] = loc[p]
  <1>0. TypeOK /\ pc \in [Procs -> Labels] /\ loc \in [Procs -> Local] /\ loc[p] \in Local
    BY DEF IInv, TypeOK
  <1>1. \A l, r : Move(p, l, r) => pc'[p] = l /\ loc'[p] = r
    BY <1>0 DEF Move
  <1>2. ASSUME NEW u \in Users, BeginLogoutAll(p, u)
        PROVE  /\ loc'[p].snap = userFamilies[u] /\ loc'[p].todo = userFamilies[u]
               /\ loc'[p].seen = None /\ loc'[p].recs = [f \in Families |-> None]
               /\ pc'[p] = "done" => userFamilies[u] = {}
    <2> PICK S : loc'[p] = [Blank EXCEPT !.op = "logoutAll", !.user = u,
                              !.snap = userFamilies[u], !.todo = userFamilies[u], !.owed = S]
      BY <1>1, <1>2 DEF BeginLogoutAll
    <2> QED
      BY <1>1, <1>2 DEF BeginLogoutAll, Blank
  <1>3. ASSUME NEW f \in Families, LoadFamily(p, f)
        PROVE  /\ pc[p] = "load" /\ loc'[p].snap = loc[p].snap /\ loc'[p].seen = loc[p].seen
               /\ loc'[p].recs = [loc[p].recs EXCEPT ![f] = ActiveToken(f)]
               /\ pc'[p] = "revoke" => loc'[p].todo = loc[p].snap
    <2> DEFINE r == loc[p]
               last == r.todo = {f}
    <2>1. /\ loc'[p] = [r EXCEPT !.recs[f] = ActiveToken(f),
                                 !.todo = IF last THEN r.snap ELSE r.todo \ {f}]
          /\ pc'[p] = IF last THEN "revoke" ELSE "load"
      BY <1>1, <1>3 DEF LoadFamily
    <2>2. r \in Local
      BY <1>0
    <2> HIDE DEF r
    <2>3. /\ loc'[p].snap = r.snap /\ loc'[p].seen = r.seen
          /\ loc'[p].recs = [r.recs EXCEPT ![f] = ActiveToken(f)]
          /\ loc'[p].todo = IF last THEN r.snap ELSE r.todo \ {f}
      BY <2>1, <2>2 DEF Local
    <2> QED
      BY <1>3, <2>1, <2>3 DEF LoadFamily, r
  <1>4. ASSUME NEW f \in Families, RevokeLoaded(p, f)
        PROVE  /\ pc[p] = "revoke" /\ f \in loc[p].todo /\ loc'[p].fam = f
               /\ loc'[p].snap = loc[p].snap /\ loc'[p].todo = loc[p].todo
               /\ loc'[p].seen = loc[p].seen /\ loc'[p].recs = loc[p].recs
    BY <1>0, <1>1, <1>4 DEF RevokeLoaded, Local
  <1>5. ASSUME DelLoaded(p)
        PROVE  /\ pc[p] = "delActive" /\ active'[loc[p].fam] = None
               /\ loc'[p].snap = loc[p].snap /\ loc'[p].todo = loc[p].todo \ {loc[p].fam}
               /\ loc'[p].seen = loc[p].seen /\ loc'[p].recs = loc[p].recs
               /\ pc'[p] = "clear" => loc[p].todo = {loc[p].fam}
    <2>1. loc[p].fam \in Families
      BY <1>5, RequestType DEF DelLoaded
    <2>2. loc'[p] = [loc[p] EXCEPT !.fam = None, !.todo = @ \ {loc[p].fam}]
          /\ pc'[p] = IF loc[p].todo = {loc[p].fam} THEN "clear" ELSE "revoke"
      BY <1>1, <1>5 DEF DelLoaded
    <2>3. active'[loc[p].fam] = None
      BY <1>0, <1>5, <2>1 DEF DelLoaded, DelActive, TypeOK, RedisTypeOK
    <2> QED
      BY <1>0, <1>5, <2>2, <2>3 DEF DelLoaded, Local
  <1>6. ClearFamilies(p) => pc[p] = "clear" /\ loc'[p] = loc[p]
    BY <1>1 DEF ClearFamilies, Goto
  <1> QED
    BY <1>2, <1>3, <1>4, <1>5, <1>6

\* What a request has read was stored, and stays so.
LEMMA ReadStep ==
  ASSUME IInv, [Next]_vars
  PROVE  ReadInv'
  <1>0. TypeOK /\ ReadInv /\ HistoryInv /\ pc \in [Procs -> Labels] /\ loc \in [Procs -> Local]
    BY DEF IInv, TypeOK
  <1> DEFINE Read(r) == r.seen \in stored \cup {None}
                        /\ \A f \in Families : r.recs[f] \in stored \cup {None}
  <1> SUFFICES ASSUME NEW q \in Procs PROVE Read(loc'[q])
    BY StepEvolution DEF ReadInv, Evolution
  <1>1. Read(loc[q])
    BY <1>0 DEF ReadInv
  <1>2. CASE loc'[q] = loc[q]
    BY <1>1, <1>2
  <1> SUFFICES ASSUME Moves(q) PROVE Read(loc'[q])
    BY <1>2, Unmoved
  <1>3. \A l, r : Move(q, l, r) => loc'[q] = r
    BY <1>0 DEF Move
  <1>4. \A f \in Families : ActiveToken(f) \in stored \cup {None}
    BY DEF IInv, ActiveInv, ActiveToken
  <1>5. Read(Blank)
    BY DEF Blank
  <1>6. ASSUME loc'[q].seen \in {loc[q].seen, None}, loc'[q].recs = loc[q].recs
        PROVE  Read(loc'[q])
    BY <1>1, <1>6
  <1>7. ASSUME loc'[q].seen = Blank.seen, loc'[q].recs = Blank.recs
        PROVE  Read(loc'[q])
    BY <1>5, <1>7
  <1>8. loc[q] \in Local
    BY <1>0
  <1> HIDE DEF Read
  <1>9. CASE \/ \E u \in Users, f \in Families, t \in Tokens : BeginLogin(q, u, f, t)
             \/ \E t \in Tokens : BeginRefresh(q, t) \/ BeginLogout(q, t)
             \/ \E u \in Users : BeginList(q, u)
    <2>1. ASSUME NEW u \in Users, NEW f \in Families, NEW t \in Tokens, BeginLogin(q, u, f, t)
          PROVE  loc'[q].seen = Blank.seen /\ loc'[q].recs = Blank.recs
      BY <1>3, <2>1 DEF BeginLogin, Blank
    <2>2. ASSUME NEW t \in Tokens, BeginRefresh(q, t) \/ BeginLogout(q, t)
          PROVE  loc'[q].seen = Blank.seen /\ loc'[q].recs = Blank.recs
      BY <1>3, <2>2 DEF BeginRefresh, BeginLogout, Blank
    <2>3. ASSUME NEW u \in Users, BeginList(q, u)
          PROVE  loc'[q].seen = Blank.seen /\ loc'[q].recs = Blank.recs
      BY <1>3, <2>3 DEF BeginList, Blank
    <2> QED
      BY <1>7, <1>9, <2>1, <2>2, <2>3
  <1>10. CASE Reply(q) \/ RotateRefused(q) \/ Untrack(q) \/ ReplyDone(q) \/ PruneFamilies(q)
              \/ Abort(q)
    <2>1. loc'[q] = Blank
      BY <1>3, <1>10 DEF Reply, RotateRefused, Untrack, ReplyDone, PruneFamilies, Abort, Finish
    <2> QED  BY <1>5, <2>1
  <1>11. CASE StampKid(q) \/ \E t \in Tokens : MintSuccessor(q, t)
    <2>1. loc'[q] = [loc[q] EXCEPT !.kid = currentKid]
          \/ \E t \in Tokens : loc'[q] = [loc[q] EXCEPT !.new = t]
      BY <1>3, <1>11 DEF StampKid, MintSuccessor
    <2> QED  BY <1>6, <1>8, <2>1 DEF Local
  <1>12. CASE NukeRetry(q)
    <2>1. loc'[q] = Blank \/ loc'[q] = [loc[q] EXCEPT !.tries = @ + 1, !.seen = None]
      BY <1>3, <1>12 DEF NukeRetry, Finish
    <2> QED  BY <1>5, <1>6, <1>8, <2>1 DEF Local
  <1>13. CASE NukeRead(q)
    <2>1. loc'[q] = [loc[q] EXCEPT !.seen = ActiveToken(loc[q].fam)]
      BY <1>3, <1>13 DEF NukeRead
    <2>2. loc'[q].seen = ActiveToken(loc[q].fam) /\ loc'[q].recs = loc[q].recs
      BY <1>8, <2>1 DEF Local
    <2>3. loc[q].fam \in Families
      BY <1>13, RequestType DEF NukeRead, Presenting
    <2> QED  BY <1>1, <1>4, <2>2, <2>3 DEF Read
  <1>14. CASE RotateReuse(q) \/ NukeExec(q) \/ LogoutExec(q) \/ StoreActive(q) \/ RotateOK(q)
              \/ TrackFamily(q) \/ ClearFamilies(q)
    <2>1. loc'[q] = loc[q]
      BY <1>3, <1>14 DEF RotateReuse, NukeExec, LogoutExec, StoreActive, RotateOK,
           TrackFamily, ClearFamilies, Goto
    <2> QED  BY <1>1, <2>1
  <1>15. CASE \E u \in Users : BeginLogoutAll(q, u)
    BY <1>15, BulkFacts DEF Read
  <1>16. CASE \E f \in Families : LoadFamily(q, f)
    <2> PICK f \in Families : LoadFamily(q, f)
      BY <1>16
    <2>1. loc'[q].seen = loc[q].seen
          /\ loc'[q].recs = [loc[q].recs EXCEPT ![f] = ActiveToken(f)]
      BY BulkFacts
    <2>2. loc[q].recs \in [Families -> Tokens \cup {None}]
      BY <1>8 DEF Local
    <2> QED  BY <1>1, <1>4, <2>1, <2>2 DEF Read
  <1>17. CASE DelLoaded(q) \/ \E f \in Families : RevokeLoaded(q, f)
    BY <1>6, <1>17, BulkFacts
  <1>18. CASE \E f \in Families : CheckFamily(q, f)
    <2> PICK f \in Families : CheckFamily(q, f)
      BY <1>18
    <2>1. \E S, T : loc'[q] = [loc[q] EXCEPT !.todo = S, !.snap = T]
      BY <1>3 DEF CheckFamily
    <2> QED  BY <1>6, <1>8, <2>1 DEF Local
  <1> QED
    BY <1>9, <1>10, <1>11, <1>12, <1>13, <1>14, <1>15, <1>16, <1>17, <1>18
       DEF Moves, Begin, Continue

\* The step before the last command of a revocation closes the family.
LEMMA KillFacts ==
  ASSUME IInv, NEW p \in Procs, NukeExec(p) \/ LogoutExec(p) \/ NukeRead(p),
         pc'[p] = "untrack"
  PROVE  loc'[p].fam \in Families /\ Born(loc'[p].fam) /\ active'[loc'[p].fam] = None
  <1>0. TypeOK /\ HistoryInv /\ PresentingInv
    BY DEF IInv
  <1>1. Presenting(p)
    BY DEF NukeExec, LogoutExec, NukeRead, Presenting
  <1>2. loc'[p].fam = loc[p].fam /\ loc[p].fam \in Families
    BY <1>1, Carry, RequestType
  <1>3. Born(loc[p].fam)
    BY <1>0, <1>1 DEF PresentingInv, HistoryInv, Born
  <1>4. CASE NukeRead(p)
    <2>1. active[loc[p].fam] = None
      BY <1>0, <1>4 DEF NukeRead, Move, TypeOK
    <2>2. active' = active
      BY <1>4 DEF NukeRead, redisVars
    <2> QED  BY <1>2, <1>3, <2>1, <2>2
  <1>5. CASE NukeExec(p) \/ LogoutExec(p)
    <2>1. active'[loc[p].fam] = None
      BY <1>0, <1>2, <1>5 DEF NukeExec, LogoutExec, KillFamily, DelActive, TypeOK, RedisTypeOK
    <2> QED  BY <1>2, <1>3, <2>1
  <1> QED
    BY <1>4, <1>5

\* What a request has closed stays closed.
LEMMA ClosingStep ==
  ASSUME IInv, [Next]_vars
  PROVE  ClosingInv'
  <1>0. TypeOK /\ HistoryInv /\ ClosingInv
    BY DEF IInv
  <1> USE DEF Killed
  <1> DEFINE bulk == {"load", "revoke", "delActive", "clear", "done"}
  <1>1. \A f \in Families : (Born(f) => Born(f)') /\ (Killed(f) => Killed(f)')
    BY StepEvolution DEF Evolution
  <1> SUFFICES ASSUME NEW q \in Procs
               PROVE  /\ pc'[q] = "untrack" => Killed(loc[q].fam)'
                      /\ pc'[q] \in bulk => \A f \in loc'[q].snap : Born(f)'
                      /\ pc'[q] \in {"revoke", "delActive"} =>
                           \A f \in loc'[q].snap \ loc'[q].todo : Killed(f)'
                      /\ pc'[q] = "delActive" => loc'[q].fam \in loc'[q].todo
                      /\ pc'[q] \in {"clear", "done"} => \A f \in loc'[q].snap : Killed(f)'
    BY DEF ClosingInv
  <1>2. loc[q].snap \subseteq Families /\ loc[q].todo \subseteq Families
    BY <1>0, LocType
  <1>3. CASE pc'[q] = pc[q] /\ loc'[q] = loc[q]
    <2>1. pc[q] = "untrack" => loc[q].fam \in Families
      BY RequestType DEF Presenting
    <2>2. pc'[q] = "untrack" => Killed(loc[q].fam)'
      BY <1>0, <1>1, <1>3, <2>1 DEF ClosingInv
    <2>3. pc'[q] \in bulk => \A f \in loc'[q].snap : Born(f)'
      BY <1>0, <1>1, <1>2, <1>3 DEF ClosingInv
    <2>4. pc'[q] \in {"revoke", "delActive"} =>
            \A f \in loc'[q].snap \ loc'[q].todo : Killed(f)'
      BY <1>0, <1>1, <1>2, <1>3 DEF ClosingInv
    <2>5. pc'[q] = "delActive" => loc'[q].fam \in loc'[q].todo
      BY <1>0, <1>3 DEF ClosingInv
    <2>6. pc'[q] \in {"clear", "done"} => \A f \in loc'[q].snap : Killed(f)'
      BY <1>0, <1>1, <1>2, <1>3 DEF ClosingInv
    <2> QED
      BY <2>2, <2>3, <2>4, <2>5, <2>6
  <1> SUFFICES ASSUME Moves(q), Arrival(q)
               PROVE  /\ pc'[q] = "untrack" => Killed(loc[q].fam)'
                      /\ pc'[q] \in bulk => \A f \in loc'[q].snap : Born(f)'
                      /\ pc'[q] \in {"revoke", "delActive"} =>
                           \A f \in loc'[q].snap \ loc'[q].todo : Killed(f)'
                      /\ pc'[q] = "delActive" => loc'[q].fam \in loc'[q].todo
                      /\ pc'[q] \in {"clear", "done"} => \A f \in loc'[q].snap : Killed(f)'
    BY <1>3, Unmoved, Arrivals
  <1>4. pc'[q] = "untrack" => Killed(loc[q].fam)'
    <2> SUFFICES ASSUME pc'[q] = "untrack" PROVE Killed(loc[q].fam)'
      OBVIOUS
    <2> PICK f : f = loc'[q].fam
      OBVIOUS
    <2>1. NukeExec(q) \/ LogoutExec(q) \/ NukeRead(q)
      BY DEF Arrival
    <2>2. f \in Families /\ Born(f) /\ active'[f] = None
      BY <2>1, KillFacts
    <2> QED
      BY <1>1, <2>2
  <1>5. ASSUME NEW u \in Users, BeginLogoutAll(q, u)
        PROVE  /\ \A f \in loc'[q].snap : Born(f)'
               /\ pc'[q] = "done" => loc'[q].snap = {}
    <2>1. loc'[q].snap = userFamilies[u] /\ (pc'[q] = "done" => userFamilies[u] = {})
      BY <1>5, BulkFacts
    <2>2. userFamilies[u] \subseteq Families /\ \A f \in userFamilies[u] : Born(f)
      BY <1>0 DEF HistoryInv, TypeOK, RedisTypeOK
    <2> QED
      BY <1>1, <2>1, <2>2
  <1>6. ASSUME NEW f \in Families, LoadFamily(q, f)
        PROVE  /\ \A g \in loc'[q].snap : Born(g)'
               /\ pc'[q] = "revoke" => loc'[q].todo = loc'[q].snap
    <2>1. pc[q] = "load" /\ loc'[q].snap = loc[q].snap
          /\ (pc'[q] = "revoke" => loc'[q].todo = loc[q].snap)
      BY <1>6, BulkFacts
    <2> QED
      BY <1>0, <1>1, <1>2, <2>1 DEF ClosingInv
  <1>7. ASSUME NEW f \in Families, RevokeLoaded(q, f)
        PROVE  /\ \A g \in loc'[q].snap : Born(g)'
               /\ \A g \in loc'[q].snap \ loc'[q].todo : Killed(g)'
               /\ loc'[q].fam \in loc'[q].todo
    <2>1. /\ pc[q] = "revoke" /\ f \in loc[q].todo /\ loc'[q].fam = f
          /\ loc'[q].snap = loc[q].snap /\ loc'[q].todo = loc[q].todo
      BY <1>7, BulkFacts
    <2> QED
      BY <1>0, <1>1, <1>2, <2>1 DEF ClosingInv
  <1>8. ASSUME DelLoaded(q)
        PROVE  /\ \A g \in loc'[q].snap : Born(g)'
               /\ \A g \in loc'[q].snap \ loc'[q].todo : Killed(g)'
               /\ pc'[q] = "clear" => \A g \in loc'[q].snap : Killed(g)'
    <2> PICK f : f = loc[q].fam
      OBVIOUS
    <2>1. /\ pc[q] = "delActive" /\ active'[f] = None
          /\ loc'[q].snap = loc[q].snap /\ loc'[q].todo = loc[q].todo \ {f}
          /\ pc'[q] = "clear" => loc[q].todo = {f}
      BY <1>8, BulkFacts
    <2>2. /\ \A g \in loc[q].snap : Born(g) /\ g \in Families
          /\ \A g \in loc[q].snap \ loc[q].todo : Killed(g)
      BY <1>0, <1>2, <2>1 DEF ClosingInv
    <2>3. \A g \in loc[q].snap : Born(g)'
      BY <1>1, <2>2
    <2>4. \A g \in loc[q].snap \ loc[q].todo : Killed(g)'
      BY <1>1, <2>2
    <2>5. f \in loc[q].snap => Killed(f)'
      <3>1. ASSUME NEW g \in loc[q].snap, active'[g] = None PROVE Killed(g)'
        BY <2>3, <3>1
      <3> QED
        BY <2>1, <3>1
    <2> QED
      BY <2>1, <2>3, <2>4, <2>5
  <1>9. ASSUME ClearFamilies(q)
        PROVE  /\ \A g \in loc'[q].snap : Born(g)'
               /\ \A g \in loc'[q].snap : Killed(g)'
    <2>1. pc[q] = "clear" /\ loc'[q] = loc[q]
      BY <1>9, BulkFacts
    <2> QED
      BY <1>0, <1>1, <1>2, <2>1 DEF ClosingInv
  <1> QED
    BY <1>4, <1>5, <1>6, <1>7, <1>8, <1>9 DEF Arrival

\* What a request is minting stays its own.
LEMMA MintingStep ==
  ASSUME IInv, [Next]_vars
  PROVE  MintingInv'
  <1>0. TypeOK /\ HistoryInv /\ PresentingInv /\ MintingInv
    BY DEF IInv
  <1> DEFINE Holds(q) ==
        /\ loc[q].op \in {"login", "refresh"}
        /\ (pc[q] = "store" => loc[q].op = "login")
        /\ (pc[q] = "rotate" => loc[q].op = "refresh")
        /\ loc[q].new \in Tokens \ stored /\ Minted(loc[q].new)
        /\ loc[q].user = issued[loc[q].new].user
        /\ loc[q].fam = issued[loc[q].new].fam
        /\ (pc[q] # "stamp" => /\ issued[loc[q].new].kid <= loc[q].kid
                               /\ loc[q].kid <= currentKid)
  <1>1. /\ \A t \in Tokens : Minted(t) => /\ issued'[t] # None
                                          /\ issued'[t].user = issued[t].user
                                          /\ issued'[t].fam = issued[t].fam
                                          /\ issued'[t].kid = issued[t].kid
        /\ stored \subseteq stored' /\ currentKid <= currentKid'
    BY StepEvolution DEF Evolution, Minted
  <1>2. stored \subseteq Tokens /\ (\A t \in stored : Minted(t)) /\ held \subseteq stored
    BY <1>0 DEF HistoryInv, TypeOK
  <1>3. currentKid \in Nat /\ currentKid' \in Nat /\ \A q \in Procs : loc[q].kid \in Nat
    BY <1>0, TypeStep, LocType DEF TypeOK
  \* Storing consumes the token of the request that stores it, and of no other.
  <1>4. ASSUME NEW q \in Procs, Minting(q), pc'[q] = pc[q], loc'[q] = loc[q]
        PROVE  loc[q].new \in Tokens \ stored'
    <2>1. loc[q].new \in Tokens \ stored
      BY <1>0, <1>4 DEF MintingInv
    <2>2. ASSUME NEW p \in Procs, StoreActive(p) \/ RotateOK(p) PROVE loc[q].new \notin stored'
      <3>1. Minting(p) /\ pc'[p] = "track" /\ stored' = stored \cup {loc[p].new}
        BY <1>0, <2>2 DEF StoreActive, RotateOK, Minting, Goto, Move, TypeOK
      <3>2. p # q
        BY <1>4, <3>1 DEF Minting
      <3> QED
        BY <1>0, <1>4, <2>1, <3>1, <3>2 DEF MintingInv
    <2>3. ASSUME stored' = stored PROVE loc[q].new \notin stored'
      BY <2>1, <2>3
    <2>4. ASSUME NEW p \in Procs, MintStep(p) PROVE stored' = stored
      BY <2>4, MintEffect DEF history
    <2>5. ASSUME NEW p \in Procs, Reply(p) PROVE stored' = stored
      BY <2>5 DEF Reply, history
    <2>6. Trim \/ RotateSigningKey \/ Tick => stored' = stored
      BY DEF Trim, RotateSigningKey, Tick, history
    <2> QED
      BY <2>1, <2>2, <2>3, <2>4, <2>5, <2>6, StepEffects
  \* The new token of a mint.
  <1>5. ASSUME NEW p \in Procs, MintStep(p)
        PROVE  /\ loc'[p].new \in Tokens \ stored' /\ ~Minted(loc'[p].new)
               /\ issued'[loc'[p].new] # None
               /\ loc'[p].user = issued'[loc'[p].new].user
               /\ loc'[p].fam = issued'[loc'[p].new].fam
               /\ loc'[p].op \in {"login", "refresh"}
               /\ pc'[p] = "stamp"
               /\ \A t \in Tokens : t # loc'[p].new => issued'[t] = issued[t]
               /\ \/ Fresh(loc'[p].fam) /\ loc'[p].op = "login"
                  \/ Presenting(p) /\ loc[p].fam = loc'[p].fam /\ pc[p] = "verified"
                     /\ loc'[p].op = loc[p].op
    <2> PICK t \in Tokens, u \in Users, f \in Families :
           /\ ~Minted(t) /\ t \notin stored
           /\ issued' = [issued EXCEPT ![t] =
                [user |-> u, fam |-> f, kid |-> currentKid, left |-> RefreshTTL]]
           /\ issued'[t] # None
           /\ loc'[p].new = t /\ loc'[p].user = u /\ loc'[p].fam = f /\ pc'[p] = "stamp"
           /\ \/ Fresh(f) /\ loc'[p].op = "login"
              \/ /\ Presenting(p) /\ loc[p].fam = f
                 /\ loc'[p].op = loc[p].op /\ pc[p] = "verified"
           /\ UNCHANGED <<redisVars, held, currentKid, history>>
      BY <1>5, MintEffect
    <2>1. issued'[t].user = u /\ issued'[t].fam = f
          /\ \A x \in Tokens : x # t => issued'[x] = issued[x]
      BY <1>0 DEF TypeOK
    <2>2. loc'[p].op \in {"login", "refresh"}
      BY <1>0 DEF PresentingInv, Presenting
    <2> QED
      BY <2>1, <2>2 DEF history
  <1>6. ASSUME NEW t \in Tokens, issued'[t] # None, ~Minted(t)
        PROVE  \E p \in Procs : MintStep(p) /\ t = loc'[p].new
    <2>1. ASSUME NEW p \in Procs, StoreActive(p) \/ RotateOK(p) \/ Reply(p)
          PROVE  issued' = issued
      BY <2>1 DEF StoreActive, RotateOK, Reply
    <2>2. Trim \/ RotateSigningKey => issued' = issued
      BY DEF Trim, RotateSigningKey
    <2>3. Tick => FALSE
      BY <1>0, <1>6, TickFacts DEF Minted
    <2>4. ASSUME NEW p \in Procs, MintStep(p) PROVE t = loc'[p].new
      BY <1>5, <1>6, <2>4 DEF Minted
    <2> QED
      BY <1>6, <2>1, <2>2, <2>3, <2>4, StepEffects DEF Minted
  <1>7. ASSUME NEW q \in Procs, StampKid(q)
        PROVE  /\ Minting(q) /\ pc[q] = "stamp" /\ loc'[q].kid = currentKid
               /\ pc'[q] = (IF loc[q].op = "login" THEN "store" ELSE "rotate")
               /\ loc'[q].new = loc[q].new /\ loc'[q].fam = loc[q].fam /\ loc'[q].op = loc[q].op
               /\ loc'[q].user = loc[q].user
               /\ UNCHANGED <<issued, stored, currentKid>>
    <2>1. /\ pc[q] = "stamp" /\ loc'[q] = [loc[q] EXCEPT !.kid = currentKid]
          /\ pc'[q] = (IF loc[q].op = "login" THEN "store" ELSE "rotate")
      BY <1>0, <1>7 DEF StampKid, Move, TypeOK
    <2>2. loc[q] \in Local
      BY <1>0 DEF TypeOK
    <2> QED
      BY <1>7, <2>1, <2>2 DEF StampKid, Local, Minting, history
  <1>8. ASSUME NEW q \in Procs, Minting(q)' PROVE Holds(q)'
    <2>1. CASE pc'[q] = pc[q] /\ loc'[q] = loc[q]
      <3>1. Minting(q) /\ loc[q].new \in Tokens \ stored'
        BY <1>4, <1>8, <2>1 DEF Minting
      <3>2. Holds(q)
        BY <1>0, <3>1 DEF MintingInv
      <3>3. issued[loc[q].new].kid \in Nat
        BY <1>0, <3>2, ClaimsType
      <3> QED
        BY <1>1, <1>3, <2>1, <3>1, <3>2, <3>3 DEF Minted
    <2>2. CASE MintStep(q)
      BY <1>5, <2>2 DEF Minted
    <2>3. CASE StampKid(q)
      <3>1. Holds(q)
        BY <1>0, <1>7, <2>3 DEF MintingInv
      <3>2. issued[loc[q].new].kid <= currentKid
        BY <1>0, <3>1 DEF HistoryInv
      <3> QED
        BY <1>3, <1>7, <2>3, <3>1, <3>2 DEF Minted
    <2> QED
      BY <1>8, <2>1, <2>2, <2>3, Unmoved, Arrivals DEF Arrival, Minting
  <1>9. ASSUME NEW p \in Procs, NEW q \in Procs, p # q, Minting(p)', Minting(q)', Moves(p),
               pc'[q] = pc[q], loc'[q] = loc[q], loc'[p].new = loc'[q].new
        PROVE  FALSE
    <2>1. Minting(q) /\ Minted(loc[q].new)
      BY <1>0, <1>9 DEF MintingInv, Minting
    <2>2. CASE MintStep(p)
      BY <1>5, <1>9, <2>1, <2>2
    <2>3. CASE StampKid(p)
      BY <1>0, <1>7, <1>9, <2>1, <2>3 DEF MintingInv
    <2> QED
      BY <1>9, <2>2, <2>3, Arrivals DEF Arrival, Minting
  <1>10. ASSUME NEW p \in Procs, NEW q \in Procs, Minting(p)', Minting(q)',
                loc'[p].new = loc'[q].new
         PROVE  p = q
    <2>1. SUFFICES ASSUME p # q PROVE FALSE
      OBVIOUS
    <2>2. CASE pc'[p] = pc[p] /\ loc'[p] = loc[p] /\ pc'[q] = pc[q] /\ loc'[q] = loc[q]
      BY <1>0, <1>10, <2>1, <2>2 DEF MintingInv, Minting
    <2>3. CASE Moves(p) /\ pc'[q] = pc[q] /\ loc'[q] = loc[q]
      BY <1>9, <1>10, <2>1, <2>3
    <2>4. CASE Moves(q) /\ pc'[p] = pc[p] /\ loc'[p] = loc[p]
      BY <1>9, <1>10, <2>1, <2>4
    <2> QED
      BY <2>1, <2>2, <2>3, <2>4, Unmoved
  <1>11. ASSUME NEW q \in Procs, LoggingIn(q)', NEW t \in Tokens, issued'[t] # None,
                issued'[t].fam = loc'[q].fam
         PROVE  t = loc'[q].new
    <2>1. CASE pc'[q] = pc[q] /\ loc'[q] = loc[q]
      <3>1. LoggingIn(q) /\ Minting(q)
        BY <1>11, <2>1 DEF LoggingIn, Minting
      <3>2. loc[q].new \in Tokens \ stored /\ Minted(loc[q].new) /\ loc[q].fam = issued[loc[q].new].fam
            /\ \A x \in Tokens : Minted(x) /\ issued[x].fam = loc[q].fam => x = loc[q].new
        BY <1>0, <3>1 DEF MintingInv
      <3>3. CASE Minted(t)
        BY <1>1, <1>11, <2>1, <3>2, <3>3
      <3>4. CASE ~Minted(t)
        <4> PICK p \in Procs : MintStep(p) /\ t = loc'[p].new
          BY <1>6, <1>11, <3>4
        <4>1. loc'[p].fam = loc[q].fam
          BY <1>5, <1>11, <2>1
        <4>2. ~Fresh(loc[q].fam)
          BY <3>2 DEF Fresh
        <4>3. Presenting(p) /\ loc[p].fam = loc[q].fam
          BY <1>5, <4>1, <4>2
        <4>4. loc[p].old \in held /\ issued[loc[p].old].fam = loc[q].fam
          BY <1>0, <4>3 DEF PresentingInv
        <4> QED
          BY <1>2, <3>2, <4>4
      <3> QED  BY <3>3, <3>4
    <2>2. CASE MintStep(q)
      <3>1. loc'[q].op = "login"
        BY <1>11 DEF LoggingIn
      <3>2. Fresh(loc'[q].fam)
        BY <1>0, <1>5, <2>2, <3>1 DEF PresentingInv
      <3> QED
        BY <1>5, <1>11, <2>2, <3>2 DEF Fresh, Minted
    <2>3. CASE StampKid(q)
      <3>1. LoggingIn(q)
        BY <1>7, <1>11, <2>3 DEF LoggingIn
      <3> QED
        BY <1>0, <1>7, <1>11, <2>3, <3>1 DEF MintingInv, Minted
    <2> QED
      BY <1>11, <2>1, <2>2, <2>3, Unmoved, Arrivals DEF Arrival, LoggingIn
  <1>12. ASSUME NEW q \in Procs, pc'[q] \in {"track", "reply"}
         PROVE  /\ loc'[q].new \in stored'
                /\ loc'[q].user = issued'[loc'[q].new].user
                /\ loc'[q].fam = issued'[loc'[q].new].fam
    <2>1. CASE pc[q] \in {"track", "reply"} /\ loc'[q].new = loc[q].new
               /\ loc'[q].user = loc[q].user /\ loc'[q].fam = loc[q].fam
      BY <1>0, <1>1, <1>2, <2>1 DEF MintingInv
    <2>2. CASE StoreActive(q) \/ RotateOK(q)
      <3>1. Minting(q) /\ loc[q].new \in stored' /\ issued' = issued
        BY <2>2 DEF StoreActive, RotateOK, Minting
      <3>2. loc'[q].new = loc[q].new /\ loc'[q].user = loc[q].user /\ loc'[q].fam = loc[q].fam
        BY <1>12, <2>2, Carry
      <3> QED
        BY <1>0, <3>1, <3>2 DEF MintingInv
    <2>3. CASE TrackFamily(q)
      <3>1. pc[q] = "track"
        BY <2>3 DEF TrackFamily
      <3> QED
        BY <1>12, <2>1, <2>3, <3>1, Carry
    <2> QED
      BY <1>12, <2>1, <2>2, <2>3, Unmoved, Arrivals DEF Arrival
  <1> QED
    BY <1>8, <1>10, <1>11, <1>12 DEF MintingInv, Minted

-----------------------------------------------------------------------------
(* The invariant, and the properties that follow from it.                  *)

\* The service starts in the invariant,
LEMMA InitIInv == Init => IInv
  <1> SUFFICES ASSUME Init PROVE IInv
    OBVIOUS
  <1>1. TypeOK /\ HistoryInv /\ ActiveInv /\ SpentInv
    BY InitType, InitGlobal
  <1>2. StoredInv
    BY DEF Init, RedisInit, StoredInv
  <1>3. ReadInv
    BY DEF Init, ReadInv, Blank
  <1>4. MintingInv /\ PresentingInv /\ NukeInv /\ ClosingInv
    BY DEF Init, MintingInv, PresentingInv, NukeInv, ClosingInv, Minting, LoggingIn, Presenting
  <1> QED
    BY <1>1, <1>2, <1>3, <1>4 DEF IInv

\* and every step keeps it.
LEMMA StepIInv == IInv /\ [Next]_vars => IInv'
  BY TypeStep, GlobalStep, ReadStep, MintingStep, PresentingStep, NukeStep, ClosingStep
     DEF IInv, GlobalInv

\* In every reachable state, for any number of concurrent requests, the keys of
\* Redis, the tokens and the requests stand in the relations of IInv.
THEOREM Inductive == Spec => []IInv
  BY InitIInv, StepIInv, PTL DEF Spec

\* Every key the handlers write, and every local variable, is well typed.
THEOREM TypeCorrect == Spec => []TypeOK
  <1>1. IInv => TypeOK
    BY DEF IInv
  <1> QED
    BY <1>1, Inductive, PTL

\* A delivered refresh token that still verifies is the active one, or is
\* blacklisted, or its session is over: no consumed token is ever forgotten.
THEOREM NoTokenForgotten == Spec => []LedgerComplete
  <1>1. IInv => LedgerComplete
    <2> SUFFICES ASSUME IInv, NEW t \in held, issued[t].left > 0,
                        ~(ActiveToken(issued[t].fam) = t), ~Killed(issued[t].fam)
                 PROVE  blacklist[t] > 0
      BY DEF LedgerComplete
    <2>1. TypeOK /\ t \in stored /\ t \in Tokens /\ Minted(t)
      BY DEF IInv, HistoryInv, TypeOK
    <2>2. Born(issued[t].fam)
      BY <2>1 DEF Born
    <2>3. t \in spent
      BY <2>1, <2>2 DEF IInv, StoredInv, Killed
    <2>4. blacklist[t] >= issued[t].left /\ blacklist[t] \in Nat /\ issued[t].left \in Nat
      BY <2>1, <2>3, ClaimsType DEF IInv, SpentInv, TypeOK, RedisTypeOK
    <2> QED
      BY <2>4
  <1> QED
    BY <1>1, Inductive, PTL

\* An active key never expires before the token it allows.
THEOREM NoEarlyExpiry == Spec => []ActiveOutlivesToken
  <1>1. IInv => ActiveOutlivesToken
    <2> SUFFICES ASSUME IInv, NEW f \in Families, active[f] # None
                 PROVE  active[f].left >= issued[active[f].tok].left
      BY DEF ActiveOutlivesToken
    <2>1. active[f].tok \in Tokens /\ Minted(active[f].tok) /\ active[f].left \in Nat
      BY DEF IInv, ActiveInv, HistoryInv, TypeOK, RedisTypeOK, ActiveRecord
    <2>2. issued[active[f].tok].left \in Nat
      BY <2>1, ClaimsType DEF IInv
    <2>3. issued[active[f].tok].left <= active[f].left
      BY DEF IInv, ActiveInv
    <2> QED
      BY <2>1, <2>2, <2>3
  <1> QED
    BY <1>1, Inductive, PTL

\* No interleaving of concurrent refreshes makes a token that was consumed less
\* than the grace period ago raise the reuse alarm.
THEOREM GraceHolds == Spec => []GraceProtects
  <1>1. IInv => GraceProtects
    BY DEF IInv, NukeInv, GraceProtects
  <1> QED
    BY <1>1, Inductive, PTL

\* A revocation that reaches its last command has closed the session, and no
\* rotation or login beside it has reopened it.
THEOREM RevocationHolds == Spec => []RevokedStaysClosed
  <1>1. IInv => RevokedStaysClosed
    BY DEF IInv, ClosingInv, RevokedStaysClosed
  <1> QED
    BY <1>1, Inductive, PTL

\* Bulk revocation closes every family it saw, whatever rotates beside it.
THEOREM BulkRevocationHolds == Spec => []LogoutAllClosesSeen
  <1>1. IInv => LogoutAllClosesSeen
    BY DEF IInv, ClosingInv, LogoutAllClosesSeen
  <1> QED
    BY <1>1, Inductive, PTL

\* Only a token of a rotated-away signing key is ever refused for its key id.
THEOREM KidRefusals == Spec => []KidRefusalIsOldKey
  <1>1. IInv => KidRefusalIsOldKey
    <2> SUFFICES ASSUME IInv, NEW p \in Procs, pc[p] = "rotate", Outcome(p) = "KID_MISMATCH"
                 PROVE  issued[loc[p].old].kid < currentKid
      BY DEF KidRefusalIsOldKey
    <2> DEFINE f == loc[p].fam
               o == loc[p].old
    <2>1. o \in Tokens /\ f \in Families /\ Minted(o)
      BY RequestType DEF Presenting, IInv, PresentingInv, HistoryInv
    <2>2. active[f] # None /\ active[f].tok = o /\ active[f].kid # issued[o].kid
      BY DEF Outcome, RotateOutcome
    <2>3. issued[o].kid <= active[f].kid /\ active[f].kid <= currentKid
      BY <2>1, <2>2 DEF IInv, ActiveInv
    <2>4. issued[o].kid \in Nat /\ active[f].kid \in Nat /\ currentKid \in Nat
      BY <2>1, <2>2, ClaimsType DEF IInv, TypeOK, RedisTypeOK, ActiveRecord
    <2> QED
      BY <2>2, <2>3, <2>4
  <1> QED
    BY <1>1, Inductive, PTL

\* RevokeFamily deletes the key together with the token it blacklists: the token
\* that is active at that moment is the one on the blacklist afterwards.
THEOREM RevocationBlacklists == Spec => RevokeBlacklistsActive
  <1> DEFINE Precise ==
        \A p \in Procs :
          pc[p] = "nukeExec" /\ pc'[p] = "untrack" =>
            LET f == loc[p].fam IN
              /\ active[f] # None
              /\ active'[f] = None
              /\ blacklist'[active[f].tok] > 0
  <1>1. IInv /\ [Next]_vars => Precise
    <2> SUFFICES ASSUME IInv, [Next]_vars,
                        NEW p \in Procs, pc[p] = "nukeExec", pc'[p] = "untrack"
                 PROVE  /\ active[loc[p].fam] # None
                        /\ active'[loc[p].fam] = None
                        /\ blacklist'[active[loc[p].fam].tok] > 0
      OBVIOUS
    <2> DEFINE f == loc[p].fam
    <2>1. NukeExec(p)
      BY Unmoved, Arrivals DEF Arrival, NukeRead, LogoutExec
    <2>2. f \in Families /\ loc[p].seen \in Tokens
      BY RequestType DEF Presenting
    <2>3. active[f] # None /\ active[f].tok = loc[p].seen
      BY <2>1, <2>2 DEF NukeExec, ActiveToken
    <2>4. active'[f] = None /\ blacklist'[loc[p].seen] = RefreshTTL
      BY <2>1, <2>2 DEF NukeExec, KillFamily, DelActive, SetBlacklist, IInv, TypeOK, RedisTypeOK
    <2> QED
      BY <2>3, <2>4
  <1>2. IInv /\ [Next]_vars => [Precise]_vars
    BY <1>1
  <1> QED
    BY <1>2, Inductive, PTL DEF Spec, RevokeBlacklistsActive

-----------------------------------------------------------------------------
(* Where no bulk logout runs.                                              *)

\* A family's tokens are one user's.
OneUserInv ==
  \A t1, t2 \in Tokens : Minted(t1) /\ Minted(t2) /\ issued[t1].fam = issued[t2].fam
    => issued[t1].user = issued[t2].user

\* No request is in RevokeAllUserFamilies, the one operation that blacklists a
\* token it has read earlier and clears a set it has read earlier.
NoBulkInv ==
  \A p \in Procs : pc[p] \notin {"load", "revoke", "delActive", "clear", "done"}

\* No active token is blacklisted.
CleanInv == \A f \in Families : active[f] # None => blacklist[active[f].tok] = 0

\* A listing drops closed families only.
PruneInv ==
  \A p \in Procs : pc[p] \in {"exists", "prune"} =>
    /\ \A f \in loc[p].snap : Killed(f)
    /\ \A f \in loc[p].todo : Born(f)

\* Before its first token is delivered a family is in its user's set.
TrackInv ==
  \A p \in Procs : pc[p] = "reply" =>
    Killed(loc[p].fam) \/ loc[p].fam \in userFamilies[loc[p].user]

QuietInv ==
  /\ OneUserInv /\ NoBulkInv /\ CleanInv /\ PruneInv /\ TrackInv
  /\ LiveSessionsTracked

\* A family starts with a fresh id, and a successor takes its user from the token
\* that was presented.
LEMMA OneUserStep ==
  ASSUME IInv, OneUserInv, [Next]_vars
  PROVE  OneUserInv'
  <1>0. TypeOK /\ HistoryInv /\ PresentingInv
    BY DEF IInv
  <1>1. CASE \A t \in Tokens : Minted(t)' =>
               Minted(t) /\ issued'[t].user = issued[t].user /\ issued'[t].fam = issued[t].fam
    BY <1>1 DEF OneUserInv
  <1>2. ASSUME NEW p \in Procs, MintStep(p) PROVE OneUserInv'
    <2>1. PICK t \in Tokens, u \in Users, f \in Families :
            /\ ~Minted(t)
            /\ issued' = [issued EXCEPT ![t] =
                 [user |-> u, fam |-> f, kid |-> currentKid, left |-> RefreshTTL]]
            /\ \/ Fresh(f)
               \/ Presenting(p) /\ loc[p].fam = f /\ loc[p].user = u
      BY <1>2, MintEffect
    <2>2. \A x \in Tokens : Minted(x) /\ issued[x].fam = f => issued[x].user = u
      <3>1. CASE Fresh(f)
        BY <3>1 DEF Fresh
      <3>2. CASE Presenting(p) /\ loc[p].fam = f /\ loc[p].user = u
        <4>1. loc[p].old \in Tokens /\ Minted(loc[p].old)
          BY <1>0, <3>2 DEF PresentingInv, HistoryInv, TypeOK
        <4> QED
          BY <1>0, <3>2, <4>1 DEF PresentingInv, OneUserInv
      <3> QED
        BY <2>1, <3>1, <3>2
    <2>3. issued \in [Tokens -> Claims \cup {None}]
      BY <1>0 DEF TypeOK
    <2>4. issued'[t].user = u /\ issued'[t].fam = f
      BY <2>1, <2>3
    <2>5. \A x \in Tokens \ {t} : issued'[x] = issued[x]
      BY <2>1, <2>3
    <2> QED
      BY <2>2, <2>4, <2>5 DEF OneUserInv, Minted
  <1>3. CASE Tick
    BY <1>0, <1>1, <1>3, TickFacts
  <1>4. CASE issued' = issued
    BY <1>1, <1>4 DEF Minted
  <1> QED
    BY <1>2, <1>3, <1>4, StepEffects DEF Trim, RotateSigningKey, StoreActive, RotateOK, Reply

\* RevokeAllUserFamilies is never entered.
LEMMA NoBulkStep ==
  ASSUME "logoutAll" \notin Ops, IInv, NoBulkInv, [Next]_vars
  PROVE  NoBulkInv'
  <1> SUFFICES ASSUME NEW p \in Procs,
                      pc'[p] \in {"load", "revoke", "delActive", "clear", "done"}
               PROVE  FALSE
    BY DEF NoBulkInv
  <1>1. Moves(p)
    BY Unmoved DEF NoBulkInv
  <1>2. \A u \in Users : ~BeginLogoutAll(p, u)
    BY DEF BeginLogoutAll
  <1>3. \/ \E f \in Families : LoadFamily(p, f) \/ RevokeLoaded(p, f)
        \/ DelLoaded(p) \/ ClearFamilies(p)
    BY <1>1, <1>2, Arrivals DEF Arrival
  <1> QED
    BY <1>3 DEF NoBulkInv, LoadFamily, RevokeLoaded, DelLoaded, ClearFamilies

\* What is blacklisted is the token a rotation replaces, or one of the family that
\* closes; a token that becomes active was never blacklisted.
LEMMA CleanStep ==
  ASSUME IInv, NoBulkInv, CleanInv, [Next]_vars
  PROVE  CleanInv'
  <1>0. TypeOK /\ HistoryInv /\ ActiveInv /\ StoredInv /\ PresentingInv
    BY DEF IInv
  <1>1. \A f \in Families : active[f] # None =>
          active[f].tok \in Tokens /\ active[f].tok \in stored /\ issued[active[f].tok].fam = f
    BY <1>0 DEF ActiveInv, TypeOK
  <1>2. ASSUME NEW p \in Procs, RotateOK(p) PROVE CleanInv'
    <2> DEFINE g == loc[p].fam
    <2>1. /\ g \in Families /\ loc[p].old \in stored /\ loc[p].new \in Tokens \ stored
          /\ issued[loc[p].old].fam = g
          /\ \A f \in Families : f # g => active'[f] = active[f]
          /\ blacklist' = [blacklist EXCEPT ![loc[p].old] = RefreshTTL]
          /\ active'[g] = [user |-> loc[p].user, tok |-> loc[p].new, kid |-> loc[p].kid,
                           left |-> RefreshTTL]
      BY <1>2, RotateFacts
    <2>2. blacklist'[loc[p].new] = 0
      BY <1>0, <2>1 DEF StoredInv, TypeOK, RedisTypeOK
    <2>3. ASSUME NEW f \in Families, f # g, active[f] # None
          PROVE  blacklist'[active[f].tok] = 0
      BY <1>0, <1>1, <2>1, <2>3 DEF CleanInv, TypeOK, RedisTypeOK
    <2> QED
      BY <2>1, <2>2, <2>3 DEF CleanInv
  <1>3. ASSUME NEW p \in Procs, StoreActive(p) PROVE CleanInv'
    <2>1. loc[p].fam \in Families /\ loc[p].new \in Tokens \ stored
      BY <1>3, RequestType DEF StoreActive, Minting, IInv, MintingInv
    <2>2. /\ blacklist' = blacklist /\ active'[loc[p].fam].tok = loc[p].new
          /\ \A f \in Families : f # loc[p].fam => active'[f] = active[f]
      BY <1>0, <1>3, <2>1 DEF StoreActive, SetActive, TypeOK, RedisTypeOK
    <2> QED
      BY <1>0, <2>1, <2>2 DEF CleanInv, StoredInv
  <1>4. ASSUME NEW g \in Families, NEW t \in Tokens, KillFamily(g, t), issued[t].fam = g
        PROVE  CleanInv'
    <2>1. /\ active'[g] = None /\ \A f \in Families : f # g => active'[f] = active[f]
          /\ \A x \in Tokens : x # t => blacklist'[x] = blacklist[x]
      BY <1>0, <1>4 DEF KillFamily, DelActive, SetBlacklist, TypeOK, RedisTypeOK
    <2> QED
      BY <1>1, <1>4, <2>1 DEF CleanInv
  <1>5. ASSUME NEW p \in Procs, NukeExec(p) PROVE CleanInv'
    <2>1. loc[p].fam \in Families /\ loc[p].seen \in Tokens
      BY <1>5, RequestType DEF NukeExec, Presenting
    <2>2. active[loc[p].fam] # None /\ active[loc[p].fam].tok = loc[p].seen
      BY <1>5, <2>1 DEF NukeExec, ActiveToken
    <2> QED
      BY <1>1, <1>4, <1>5, <2>1, <2>2 DEF NukeExec
  <1>6. ASSUME NEW p \in Procs, LogoutExec(p) PROVE CleanInv'
    <2>1. /\ loc[p].fam \in Families /\ loc[p].old \in Tokens
          /\ issued[loc[p].old].fam = loc[p].fam
      BY <1>0, <1>6, RequestType DEF LogoutExec, Presenting, PresentingInv
    <2> QED
      BY <1>4, <1>6, <2>1 DEF LogoutExec
  <1>7. CASE Tick
    <2>1. ASSUME NEW f \in Families, active'[f] # None
          PROVE  blacklist'[active'[f].tok] = 0
      BY <1>0, <1>1, <1>7, <2>1, TickFacts DEF CleanInv, Less
    <2> QED
      BY <2>1 DEF CleanInv
  <1>8. CASE UNCHANGED <<active, blacklist>>
    BY <1>8 DEF CleanInv
  <1>9. \A p \in Procs : ~DelLoaded(p) /\ \A f \in Families : ~RevokeLoaded(p, f)
    BY DEF NoBulkInv, DelLoaded, RevokeLoaded
  <1> QED
    BY <1>2, <1>3, <1>5, <1>6, <1>7, <1>8, <1>9 DEF Next, FaultFreeNext, Begin, Continue, vars,
      redisVars, BeginLogin, StampKid, TrackFamily, Reply, BeginRefresh, MintSuccessor,
      RotateRefused, RotateReuse, NukeRead, NukeRetry, Untrack, BeginLogout, BeginLogoutAll,
      LoadFamily, ClearFamilies, ReplyDone, BeginList, CheckFamily, PruneFamilies, Abort,
      RotateSigningKey

\* A listing starts from families that were tracked, hence were born, and marks those
\* whose key is gone.
LEMMA PruneStep ==
  ASSUME IInv, PruneInv, [Next]_vars
  PROVE  PruneInv'
  <1>0. TypeOK /\ HistoryInv
    BY DEF IInv
  <1>1. Evolution
    BY StepEvolution
  <1> SUFFICES ASSUME NEW p \in Procs, pc'[p] \in {"exists", "prune"}
               PROVE  (\A f \in loc'[p].snap : Killed(f)') /\ (\A f \in loc'[p].todo : Born(f)')
    BY DEF PruneInv
  <1>2. loc[p].snap \subseteq Families /\ loc[p].todo \subseteq Families
    BY <1>0, LocType
  <1>3. CASE pc'[p] = pc[p] /\ loc'[p] = loc[p]
    BY <1>1, <1>2, <1>3 DEF PruneInv, Evolution
  <1>4. \A l, x : Move(p, l, x) => loc'[p] = x
    BY <1>0 DEF Move, TypeOK
  <1>5. ASSUME NEW u \in Users, BeginList(p, u)
        PROVE  loc'[p].snap = {} /\ \A f \in loc'[p].todo : Born(f)'
    <2>1. loc'[p] = [Blank EXCEPT !.op = "list", !.user = u, !.todo = userFamilies[u]]
      BY <1>4, <1>5 DEF BeginList
    <2>2. loc'[p].snap = {} /\ loc'[p].todo = userFamilies[u]
      BY <2>1 DEF Blank
    <2>3. \A f \in userFamilies[u] : f \in Families /\ Born(f)
      BY <1>0 DEF HistoryInv, TypeOK, RedisTypeOK
    <2> QED
      BY <1>1, <2>2, <2>3 DEF Evolution
  <1>6. ASSUME NEW f \in Families, CheckFamily(p, f)
        PROVE  (\A g \in loc'[p].snap : Killed(g)') /\ (\A g \in loc'[p].todo : Born(g)')
    <2>1. /\ pc[p] = "exists" /\ f \in loc[p].todo
          /\ loc'[p] = [loc[p] EXCEPT !.todo = @ \ {f},
                                      !.snap = IF active[f] = None THEN @ \cup {f} ELSE @]
      BY <1>4, <1>6 DEF CheckFamily
    <2>2. loc[p] \in Local
      BY <1>0 DEF TypeOK
    <2>3. /\ loc'[p].todo \subseteq loc[p].todo
          /\ \A g \in loc'[p].snap : g \in loc[p].snap \/ (g = f /\ active[f] = None)
      BY <2>1, <2>2 DEF Local
    <2>4. \A g \in loc'[p].snap : g \in Families /\ Killed(g)
      BY <1>2, <2>1, <2>3 DEF PruneInv, Killed
    <2>5. \A g \in loc'[p].todo : g \in Families /\ Born(g)
      BY <1>2, <2>1, <2>3 DEF PruneInv
    <2> QED
      BY <1>1, <2>4, <2>5 DEF Evolution
  <1> QED
    BY <1>3, <1>5, <1>6, Unmoved, Arrivals DEF Arrival

\* A family leaves its user's set once it is closed, and not before.
LEMMA LeavesClosed ==
  ASSUME IInv, NoBulkInv, PruneInv, [Next]_vars, NEW u \in Users, NEW f \in userFamilies[u],
         f \notin userFamilies'[u]
  PROVE  Killed(f)
  <1>0. userFamilies \in [Users -> SUBSET Families] /\ ClosingInv
    BY DEF IInv, TypeOK, RedisTypeOK
  <1>1. ASSUME NEW p \in Procs, Untrack(p) PROVE Killed(f)
    <2>1. f = loc[p].fam
      BY <1>0, <1>1 DEF Untrack, SRemFamilies
    <2> QED
      BY <1>0, <1>1, <2>1 DEF Untrack, ClosingInv
  <1>2. ASSUME NEW p \in Procs, PruneFamilies(p) PROVE Killed(f)
    <2>1. f \in loc[p].snap
      BY <1>0, <1>2 DEF PruneFamilies, SRemFamilies
    <2> QED
      BY <1>2, <2>1 DEF PruneFamilies, PruneInv
  <1>3. \A p \in Procs : ~ClearFamilies(p)
    BY DEF NoBulkInv, ClearFamilies
  <1>4. ASSUME NEW p \in Procs, TrackFamily(p) PROVE FALSE
    BY <1>0, <1>4 DEF TrackFamily, SAddFamily
  <1>5. userFamilies' # userFamilies
    OBVIOUS
  <1> QED
    BY <1>1, <1>2, <1>3, <1>4, <1>5 DEF Next, FaultFreeNext, Begin, Continue, vars, redisVars,
      BeginLogin, StampKid, StoreActive, Reply, BeginRefresh, MintSuccessor, RotateOK,
      RotateRefused, RotateReuse, NukeRead, NukeExec, NukeRetry, BeginLogout, LogoutExec,
      BeginLogoutAll, LoadFamily, RevokeLoaded, DelLoaded, ReplyDone, BeginList, CheckFamily,
      Abort, RotateSigningKey, Tick, ExpireKeys

\* A request answers after it has tracked its family.
LEMMA TrackStep ==
  ASSUME IInv, NoBulkInv, PruneInv, TrackInv, [Next]_vars
  PROVE  TrackInv'
  <1>0. TypeOK
    BY DEF IInv
  <1>1. Evolution
    BY StepEvolution
  <1> SUFFICES ASSUME NEW p \in Procs, pc'[p] = "reply"
               PROVE  Killed(loc[p].fam)' \/ loc'[p].fam \in userFamilies'[loc'[p].user]
    BY DEF TrackInv
  <1>2. CASE pc'[p] = pc[p] /\ loc'[p] = loc[p]
    <2>1. loc[p].fam \in Families /\ loc[p].user \in Users
      BY <1>2, RequestType
    <2>2. Killed(loc[p].fam) \/ loc[p].fam \in userFamilies[loc[p].user]
      BY <1>2 DEF TrackInv
    <2>3. Killed(loc[p].fam) \/ loc[p].fam \in userFamilies'[loc[p].user]
      BY <2>1, <2>2, LeavesClosed
    <2> QED
      BY <1>1, <1>2, <2>1, <2>3 DEF Evolution
  <1>3. CASE TrackFamily(p)
    <2>1. loc[p].fam \in Families /\ loc[p].user \in Users
      BY <1>3, RequestType DEF TrackFamily
    <2>2. loc'[p].fam = loc[p].fam /\ loc'[p].user = loc[p].user
      BY <1>3, Carry
    <2> QED
      BY <1>0, <1>3, <2>1, <2>2 DEF TrackFamily, SAddFamily, TypeOK, RedisTypeOK
  <1> QED
    BY <1>2, <1>3, Unmoved, Arrivals DEF Arrival

\* A live family that a client knows of was in its user's set before the step, or is
\* made known by it.
LEMMA TrackedStep ==
  ASSUME IInv, OneUserInv, NoBulkInv, PruneInv, TrackInv, LiveSessionsTracked, [Next]_vars
  PROVE  LiveSessionsTracked'
  <1>0. TypeOK /\ HistoryInv /\ ActiveInv /\ MintingInv
    BY DEF IInv
  <1> SUFFICES ASSUME NEW f \in Families, active'[f] # None, Delivered(f)'
               PROVE  f \in userFamilies'[active'[f].user]
    BY DEF LiveSessionsTracked
  <1>1. ASSUME active[f] # None, active'[f].user = active[f].user,
               Delivered(f) \/ f \in userFamilies[active[f].user]
        PROVE  f \in userFamilies'[active'[f].user]
    <2>1. active[f].user \in Users
      BY <1>0, <1>1 DEF TypeOK, RedisTypeOK, ActiveRecord
    <2>2. f \in userFamilies[active[f].user]
      BY <1>1 DEF LiveSessionsTracked
    <2>3. ~Killed(f)
      BY <1>1 DEF Killed
    <2> QED
      BY <1>1, <2>1, <2>2, <2>3, LeavesClosed
  <1>2. held' = held => Delivered(f)
    <2>1. \A t \in held : t \in Tokens /\ Minted(t)
      BY <1>0 DEF TypeOK, HistoryInv
    <2>2. \A t \in held : issued'[t].fam = issued[t].fam
      BY <2>1, StepEvolution DEF Evolution
    <2> QED
      BY <2>2 DEF Delivered
  <1>3. CASE Trim
    BY <1>1, <1>2, <1>3 DEF Trim
  <1>4. CASE RotateSigningKey
    BY <1>1, <1>2, <1>4 DEF RotateSigningKey, redisVars
  <1>5. CASE Tick
    BY <1>0, <1>1, <1>2, <1>5, TickFacts
  <1>6. ASSUME NEW p \in Procs, MintStep(p) PROVE f \in userFamilies'[active'[f].user]
    <2>1. active' = active /\ held' = held
      BY <1>6, MintEffect DEF redisVars
    <2> QED
      BY <1>1, <1>2, <2>1
  <1>7. ASSUME NEW p \in Procs, StoreActive(p) PROVE f \in userFamilies'[active'[f].user]
    <2>1. LoggingIn(p) /\ Minting(p) /\ loc[p].new \notin stored
      BY <1>0, <1>7 DEF StoreActive, MintingInv, Minting, LoggingIn
    <2>2. held' = held /\ Delivered(f)
      BY <1>2, <1>7 DEF StoreActive
    <2>3. f # loc[p].fam
      <3>1. PICK t \in held : issued[t].fam = f
        BY <2>2 DEF Delivered
      <3>2. t \in stored /\ Minted(t) /\ t \in Tokens
        BY <1>0 DEF HistoryInv, TypeOK
      <3> QED
        BY <1>0, <2>1, <3>1, <3>2 DEF MintingInv
    <2>4. active'[f] = active[f]
      BY <1>0, <1>7, <2>3 DEF StoreActive, SetActive, TypeOK, RedisTypeOK
    <2> QED
      BY <1>1, <2>2, <2>4
  <1>8. ASSUME NEW p \in Procs, RotateOK(p) PROVE f \in userFamilies'[active'[f].user]
    <2>1. held' = held
      BY <1>8 DEF RotateOK
    <2>2. CASE f # loc[p].fam
      BY <1>1, <1>2, <1>8, <2>1, <2>2, RotateFacts
    <2>3. CASE f = loc[p].fam
      <3>1. /\ active[f] # None
            /\ active'[f] = [user |-> loc[p].user, tok |-> loc[p].new, kid |-> loc[p].kid,
                             left |-> RefreshTTL]
        BY <1>8, <2>3, RotateFacts
      <3>2. active[f].user = loc[p].user
        BY <1>8, <2>3 DEF RotateOK, Outcome, RotateOutcome
      <3> QED
        BY <1>1, <1>2, <2>1, <3>1, <3>2
    <2> QED
      BY <2>2, <2>3
  <1>9. ASSUME NEW p \in Procs, Reply(p) PROVE f \in userFamilies'[active'[f].user]
    <2> DEFINE n == loc[p].new
    <2>1. /\ pc[p] = "reply" /\ held' = held \cup {n} /\ UNCHANGED <<redisVars, issued>>
      BY <1>9 DEF Reply
    <2>2. active' = active
      BY <2>1 DEF redisVars
    <2>3. CASE Delivered(f)
      BY <1>1, <2>2, <2>3
    <2>4. CASE ~Delivered(f)
      <3>1. f = issued[n].fam
        BY <2>1, <2>4 DEF Delivered
      <3>2. /\ n \in stored /\ loc[p].user = issued[n].user /\ loc[p].fam = f
        BY <1>0, <2>1, <3>1 DEF MintingInv
      <3>3. active[f].tok \in stored /\ issued[active[f].tok].fam = f
            /\ issued[active[f].tok].user = active[f].user
        BY <1>0, <2>2 DEF ActiveInv
      <3>4. \A t \in stored : t \in Tokens /\ Minted(t)
        BY <1>0 DEF HistoryInv, TypeOK
      <3>5. active[f].user = loc[p].user
        BY <3>1, <3>2, <3>3, <3>4 DEF OneUserInv
      <3>6. f \in userFamilies[loc[p].user]
        BY <2>1, <2>2, <3>2 DEF TrackInv, Killed
      <3> QED
        BY <1>1, <2>2, <3>5, <3>6
    <2> QED
      BY <2>3, <2>4
  <1> QED
    BY <1>3, <1>4, <1>5, <1>6, <1>7, <1>8, <1>9, StepEffects

\* In every reachable state of a service that is not asked for bulk logouts, no
\* active token is blacklisted, and only closed families leave their user's set.
THEOREM QuietInductive == "logoutAll" \notin Ops => (Spec => []QuietInv)
  <1> SUFFICES ASSUME "logoutAll" \notin Ops PROVE Spec => []QuietInv
    OBVIOUS
  <1>1. Init => QuietInv
    BY DEF Init, RedisInit, QuietInv, OneUserInv, NoBulkInv, CleanInv, PruneInv, TrackInv,
      LiveSessionsTracked, Minted
  <1>2. IInv /\ QuietInv /\ [Next]_vars => QuietInv'
    BY OneUserStep, NoBulkStep, CleanStep, PruneStep, TrackStep, TrackedStep DEF QuietInv
  <1> QED
    BY <1>1, <1>2, Inductive, PTL DEF Spec

\* Where no bulk logout runs, a session's newest token rotates, unless the signing
\* key changed while it was minted, in every interleaving of refreshes, logouts,
\* replays, failures and expiries
\* (token_store.go:46-92).
THEOREM NewestRotates == "logoutAll" \notin Ops => (Spec => []ActiveTokenRotates)
  <1>1. IInv /\ QuietInv => ActiveTokenRotates
    <2> SUFFICES ASSUME IInv, QuietInv, NEW f \in Families, active[f] # None,
                        active[f].kid = issued[active[f].tok].kid
                 PROVE  RotateOutcome(f, issued[active[f].tok].user, active[f].tok,
                                      issued[active[f].tok].kid) = "OK"
      BY DEF ActiveTokenRotates
    <2>1. blacklist[active[f].tok] = 0
      BY DEF QuietInv, CleanInv
    <2>2. issued[active[f].tok].user = active[f].user
      BY DEF IInv, ActiveInv
    <2> QED
      BY <2>1, <2>2 DEF RotateOutcome
  <1> QED
    BY <1>1, Inductive, QuietInductive, PTL

\* Where no bulk logout runs, every live session a client knows of is in its user's
\* set, and so is found by the next LogoutAllDevices or listing.
THEOREM LiveTracked == "logoutAll" \notin Ops => (Spec => []LiveSessionsTracked)
  <1>1. QuietInv => LiveSessionsTracked
    BY DEF QuietInv
  <1> QED
    BY <1>1, QuietInductive, PTL

-----------------------------------------------------------------------------
(* The service implements the session ledger.                              *)

\* A service without families is a ledger without sessions.
LEMMA LedgerInitial == Init => Ledger!LedgerInit
  BY DEF Init, RedisInit, Ledger!LedgerInit, ActiveToken, Born

\* Keys deleted or expired, and none written: families close.
LEMMA LedgerClose ==
  ASSUME TypeOK, stored' = stored,
         \A f \in Families : Born(f) <=> Born(f)',
         \A f \in Families : active'[f] # None =>
            active[f] # None /\ active'[f].tok = active[f].tok
  PROVE  Ledger!LedgerNext
  <1> DEFINE closing == {f \in Families : active'[f] = None}
  <1>1. \A f \in Families :
          ActiveToken(f)' = IF f \in closing THEN None ELSE ActiveToken(f)
    BY DEF ActiveToken
  <1>2. [f \in Families |-> ActiveToken(f)]' =
          [f \in Families |-> IF f \in closing THEN None
                              ELSE [g \in Families |-> ActiveToken(g)][f]]
    BY <1>1
  <1>3. {f \in Families : Born(f)}' = {f \in Families : Born(f)}
    OBVIOUS
  <1>4. Ledger!Close(closing)
    BY <1>2, <1>3 DEF Ledger!Close
  <1> QED
    BY <1>4 DEF Ledger!LedgerNext

\* Every step is one of the ledger, or none.
LEMMA LedgerStep ==
  ASSUME IInv, [Next]_vars
  PROVE  [Ledger!LedgerNext]_(Ledger!ledgerVars)
  <1>0. TypeOK /\ HistoryInv /\ MintingInv /\ ActiveInv
    BY DEF IInv
  <1>1. ASSUME active' = active, stored' = stored,
               \A t \in stored : issued'[t].fam = issued[t].fam
        PROVE  UNCHANGED Ledger!ledgerVars
    <2>1. \A f \in Families : Born(f) <=> Born(f)'
      BY <1>1 DEF Born
    <2>2. \A f \in Families : ActiveToken(f)' = ActiveToken(f)
      BY <1>1 DEF ActiveToken
    <2> QED
      BY <1>1, <2>1, <2>2 DEF Ledger!ledgerVars
  <1>2. ASSUME RotateSigningKey PROVE UNCHANGED Ledger!ledgerVars
    BY <1>1, <1>2 DEF RotateSigningKey, redisVars, history
  <1>3. ASSUME NEW p \in Procs, Reply(p) PROVE UNCHANGED Ledger!ledgerVars
    BY <1>1, <1>3 DEF Reply, redisVars, history
  <1>4. ASSUME NEW p \in Procs, MintStep(p) PROVE UNCHANGED Ledger!ledgerVars
    <2>1. active' = active /\ stored' = stored
      BY <1>4, MintEffect DEF redisVars, history
    <2>2. \A t \in stored : issued'[t].fam = issued[t].fam
      BY <1>0, StepEvolution DEF Evolution, HistoryInv, TypeOK
    <2> QED
      BY <1>1, <2>1, <2>2
  <1>5. ASSUME Trim PROVE Ledger!LedgerNext
    <2>1. stored' = stored /\ issued' = issued
      BY <1>5 DEF Trim, history
    <2>2. \A f \in Families : Born(f) <=> Born(f)'
      BY <2>1 DEF Born
    <2> QED
      BY <1>0, <1>5, <2>1, <2>2, LedgerClose DEF Trim
  <1>6. ASSUME Tick PROVE Ledger!LedgerNext
    <2>1. stored' = stored /\ \A t \in stored : issued'[t].fam = issued[t].fam
      BY <1>0, <1>6, TickFacts DEF HistoryInv, TypeOK
    <2>2. \A f \in Families : Born(f) <=> Born(f)'
      BY <2>1 DEF Born
    <2> QED
      BY <1>0, <1>6, <2>1, <2>2, TickFacts, LedgerClose
  <1>7. ASSUME NEW p \in Procs, StoreActive(p) PROVE Ledger!LedgerNext
    <2> PICK f, n : f = loc[p].fam /\ n = loc[p].new
      OBVIOUS
    <2>1. LoggingIn(p) /\ Minting(p) /\ f \in Families /\ n \in Tokens \ stored
          /\ f = issued[n].fam
      BY <1>0, <1>7, RequestType DEF StoreActive, MintingInv, Minting, LoggingIn
    <2>2. ~Born(f)
      BY <1>0, <2>1 DEF MintingInv, HistoryInv, Born, TypeOK
    <2>3. /\ active' = [active EXCEPT ![f] = [user |-> loc[p].user, tok |-> n,
                                             kid |-> loc[p].kid, left |-> RefreshTTL]]
          /\ stored' = stored \cup {n} /\ issued' = issued
      BY <1>7 DEF StoreActive, SetActive
    <2>4. active'[f] # None /\ active'[f].tok = n
          /\ \A g \in Families : g # f => active'[g] = active[g]
      <3>1. [user |-> loc[p].user, tok |-> n, kid |-> loc[p].kid, left |-> RefreshTTL] # None
        BY <1>0, <2>1, RequestType, LocType
      <3> QED
        BY <1>0, <2>1, <2>3, <3>1 DEF TypeOK, RedisTypeOK
    <2>5. {g \in Families : Born(g)}' = {g \in Families : Born(g)} \cup {f}
      BY <2>1, <2>3 DEF Born
    <2>6. \A g \in Families : ActiveToken(g)' = IF g = f THEN n ELSE ActiveToken(g)
      BY <2>4 DEF ActiveToken
    <2>7. Ledger!Open(f, n)
      BY <2>1, <2>2, <2>3, <2>5, <2>6 DEF Ledger!Open
    <2> QED
      BY <2>1, <2>7 DEF Ledger!LedgerNext
  <1>8. ASSUME NEW p \in Procs, RotateOK(p) PROVE Ledger!LedgerNext
    <2> PICK f, o, n : f = loc[p].fam /\ o = loc[p].old /\ n = loc[p].new
      OBVIOUS
    <2>1. /\ f \in Families /\ o \in stored /\ n \in Tokens \ stored /\ f = issued[n].fam
          /\ f = issued[o].fam /\ active[f] # None /\ active[f].tok = o
          /\ active'[f] # None /\ active'[f].tok = n
          /\ \A g \in Families : g # f => active'[g] = active[g]
          /\ stored' = stored \cup {n} /\ issued' = issued
      <3> DEFINE rec == [user |-> loc[p].user, tok |-> n, kid |-> loc[p].kid, left |-> RefreshTTL]
      <3>1. /\ f \in Families /\ o \in stored /\ n \in Tokens \ stored /\ f = issued[n].fam
            /\ f = issued[o].fam /\ active[f] # None /\ active[f].tok = o
            /\ active'[f] = rec /\ rec # None
            /\ \A g \in Families : g # f => active'[g] = active[g]
            /\ stored' = stored \cup {n} /\ issued' = issued
        BY <1>8, RotateFacts
      <3>2. active'[f].tok = n
        BY <3>1
      <3> QED
        BY <3>1, <3>2
    <2>2. \A g \in Families : Born(g) <=> Born(g)'
      BY <2>1 DEF Born
    <2>3. {g \in Families : Born(g)}' = {g \in Families : Born(g)}
      BY <2>2
    <2>4. \A g \in Families : ActiveToken(g)' = IF g = f THEN n ELSE ActiveToken(g)
      BY <2>1 DEF ActiveToken
    <2>5. ActiveToken(f) = o /\ o \in Tokens
      BY <1>0, <2>1 DEF ActiveToken, TypeOK
    <2>6. Ledger!Pass(f, o, n)
      BY <2>1, <2>3, <2>4, <2>5 DEF Ledger!Pass
    <2> QED
      BY <2>1, <2>5, <2>6 DEF Ledger!LedgerNext
  <1> QED
    BY <1>2, <1>3, <1>4, <1>5, <1>6, <1>7, <1>8, StepEffects

\* A refresh token is accepted at most once and by one request, successors are
\* always new, and a closed session never reopens, in every interleaving of any
\* number of requests, failures and expiries.
THEOREM Refinement == Spec => ImplementsLedger
  <1>1. IInv /\ [Next]_vars => [Ledger!LedgerNext]_(Ledger!ledgerVars)
    BY LedgerStep
  <1> QED
    BY <1>1, LedgerInitial, Inductive, PTL DEF Spec, ImplementsLedger, Ledger!LedgerSpec
=============================================================================
