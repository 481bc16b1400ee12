----------------------------- MODULE WebSession -----------------------------
(***************************************************************************)
(* One browser's session with the web application: the access token each   *)
(* tab holds in memory and refreshes by a timer, the refresh token in the  *)
(* cookie all tabs share, the server actions through which tabs reach the  *)
(* auth service, and the ledger of refresh tokens behind it.               *)
(*                                                                         *)
(* A refresh token is its family and its place in it; an access token is   *)
(* named by the refresh token minted with it.  A tab's server actions may  *)
(* be under way together and be held back before they are sent: nothing is *)
(* assumed of how the framework dispatches them.  Any tab may sign in or   *)
(* log out, since its page was admitted by the cookie of an earlier moment.*)
(***************************************************************************)
EXTENDS Naturals, FiniteSets

CONSTANTS Tabs, Families,
          None, Keep,   \* no token; a reply without Set-Cookie
          MaxStarts,    \* bound on server actions called
          MaxLost       \* bound on replies and requests that get lost

ASSUME SessionAssumption == /\ MaxStarts \in Nat /\ MaxLost \in Nat
                            /\ None \notin Families \X Nat
                            /\ Keep \notin Families \X Nat
                            /\ None # Keep /\ None \notin Families

Tokens == Families \X (1..(MaxStarts + 1))
Kinds  == {"refresh", "playback", "setCookies", "logout"}

VARIABLES live, opened, used,  \* the ledger's, see SessionLedger
          grace,    \* consumed tokens whose grace key has not expired
          alarmed,  \* history: live families that the reuse alarm closed
          cookie,   \* the browser's refresh token
          tab,      \* tab[b]: what the page in tab b holds in memory
          call,     \* call[b][k]: tab b's server action of kind k
          starts,   \* server actions called so far
          lost      \* requests and replies lost so far

ledger == <<live, opened, used>>
vars   == <<live, opened, used, grace, alarmed, cookie, tab, call, starts, lost>>

Ledger == INSTANCE SessionLedger

Fam(t) == t[1]
Successor(t) == <<t[1], t[2] + 1>>

\* What an open tab remembers: refreshing is inFlightRefresh, timer that one is
\* set, shown the user (of a family) in the query cache, out the families whose
\* logout it saw end when it had no refresh under way.
Closed == [open |-> FALSE, loaded |-> FALSE, access |-> None, timer |-> FALSE,
           refreshing |-> FALSE, shown |-> None, out |-> {}]

\* carried: the cookie the request took along; reply: the token the action
\* returns, for a logout the family it closed; put: the Set-Cookie it answers.
NoCall == [at |-> "none", carried |-> None, reply |-> None, put |-> Keep]
Queued == [NoCall EXCEPT !.at = "queued"]
Answer(c, reply, put) == [c EXCEPT !.at = "answered", !.reply = reply, !.put = put]

Pending(b, k) == call[b][k].at # "none"
UnderWay(b) == {k \in Kinds : call[b][k].at \notin {"none", "queued"}}
Carrying(t) == \E b \in Tabs : \E k \in UnderWay(b) : call[b][k].carried = t

-----------------------------------------------------------------------------
(* The token store of a tab (token-store.ts).                              *)

\* The query of the signed-in user runs once there is a token; a newer token
\* does not renew what is cached.
UserShown(m) == IF m.access # None /\ m.shown = None
                THEN [m EXCEPT !.shown = Fam(m.access)] ELSE m

\* Mutant: the old timer is cancelled after the new one was set.
SetToken_CancelsLast(m, token) ==
  IF m.access = token THEN m ELSE UserShown([m EXCEPT !.access = token, !.timer = FALSE])

\* Setting a token replaces the timer; setting the same one changes nothing.
SetToken(m, token) ==
  IF m.access = token THEN m
  ELSE UserShown([m EXCEPT !.access = token, !.timer = (token # None)])

\* At most one refresh of a tab is in flight; starting it cancels the timer.
Refreshing(m) == [m EXCEPT !.timer = FALSE, !.refreshing = TRUE]

\* Tab b goes on with memory m and calls server action k with argument arg.
Start(b, k, arg, m) ==
  /\ starts < MaxStarts /\ starts' = starts + 1
  /\ tab' = [tab EXCEPT ![b] = m]
  /\ call' = [call EXCEPT ![b][k] = [Queued EXCEPT !.reply = arg]]

TimerFires(b) ==
  /\ tab[b].timer
  /\ IF tab[b].refreshing
     THEN tab' = [tab EXCEPT ![b].timer = FALSE] /\ UNCHANGED <<call, starts>>
     ELSE Start(b, "refresh", None, Refreshing(tab[b]))
  /\ UNCHANGED <<ledger, grace, alarmed, cookie, lost>>

-----------------------------------------------------------------------------
(* What the user does.                                                     *)

\* A page is loaded into tab b: AuthProvider restores the session.
Load(b) ==
  /\ ~tab[b].open /\ \A k \in Kinds : ~Pending(b, k)
  /\ Start(b, "refresh", None, [Refreshing(Closed) EXCEPT !.open = TRUE])
  /\ UNCHANGED <<ledger, grace, alarmed, cookie, lost>>

\* Whether the browser still takes the replies under way is open.
CloseTab(b) ==
  /\ tab[b].open
  /\ IF UnderWay(b) = {} THEN UNCHANGED lost ELSE lost < MaxLost /\ lost' = lost + 1
  /\ tab' = [tab EXCEPT ![b] = Closed]
  /\ call' = [call EXCEPT ![b] =
                [k \in Kinds |-> IF k \in UnderWay(b) THEN call[b][k] ELSE NoCall]]
  /\ UNCHANGED <<ledger, grace, alarmed, cookie, starts>>

\* The form's RPC opened a family; it stores the refresh token in the cookie, and
\* until then its submit button is disabled.  An RPC that fails changes nothing
\* here.
Authenticated(b, f) ==
  /\ tab[b].open /\ ~Pending(b, "setCookies")
  /\ Ledger!Open(f, <<f, 1>>)
  /\ Start(b, "setCookies", <<f, 1>>, tab[b])
  /\ UNCHANGED <<grace, alarmed, cookie, lost>>

Login(b, f)    == Authenticated(b, f)
Register(b, f) == Authenticated(b, f)

\* A playback URL costs a refresh on the server that the tab never sees.
Playback(b) ==
  /\ tab[b].open /\ ~Pending(b, "playback")
  /\ Start(b, "playback", None, tab[b])
  /\ UNCHANGED <<ledger, grace, alarmed, cookie, lost>>

\* The button is disabled while the mutation is pending.
Logout(b) ==
  /\ tab[b].open /\ ~Pending(b, "logout")
  /\ Start(b, "logout", None, tab[b])
  /\ UNCHANGED <<ledger, grace, alarmed, cookie, lost>>

-----------------------------------------------------------------------------
(* Server actions.                                                         *)

\* refreshAccessTokenAction: no cookie, no call; one call per token at a time.
Refreshed(c) ==
  IF c.carried = None THEN Answer(c, None, Keep)
  ELSE [c EXCEPT !.at = IF \E o \in Tabs, j \in {"refresh", "playback"} :
                             call[o][j].at = "rpc" /\ call[o][j].carried = c.carried
                        THEN "waiting" ELSE "rpc"]

\* setAuthCookies; logoutAction calls the service only if there is a cookie.
Served(k, c) ==
  CASE k \in {"refresh", "playback"} -> Refreshed(c)
    [] k = "setCookies"              -> Answer(c, c.reply, c.reply)
    [] k = "logout"                  -> IF c.carried = None THEN Answer(c, None, None)
                                        ELSE [c EXCEPT !.at = "rpc"]

\* The request leaves with the cookie of that moment and reaches its handler.
Send(b, k) ==
  /\ call[b][k].at = "queued"
  /\ call' = [call EXCEPT ![b][k] = Served(k, [@ EXCEPT !.carried = cookie])]
  /\ UNCHANGED <<ledger, grace, alarmed, cookie, tab, starts, lost>>

\* The call ends: its own reply sets the cookie, those that waited for it
\* return the same access token and set none.
Settle(b, k, reply, put) ==
  call' = [o \in Tabs |-> [j \in Kinds |->
    LET c == call[o][j]
    IN  IF o = b /\ j = k THEN Answer(c, reply, put)
        ELSE IF c.at = "waiting" /\ c.carried = call[b][k].carried THEN Answer(c, reply, Keep)
        ELSE c]]

Calling(b, k) == k \in {"refresh", "playback"} /\ call[b][k].at = "rpc"

\* Mutant: the new refresh token is returned to the caller, never set.
Rotate_NotSet(b, k) ==
  LET t == call[b][k].carried
      n == Successor(t)
  IN  /\ Calling(b, k)
      /\ Ledger!Pass(Fam(t), t, n) /\ n \in Tokens
      /\ grace' = grace \cup {t}
      /\ Settle(b, k, n, Keep)
      /\ UNCHANGED <<alarmed, cookie, tab, starts, lost>>

\* The auth service rotates the live token.
Rotate(b, k) ==
  LET t == call[b][k].carried
      n == Successor(t)
  IN  /\ Calling(b, k)
      /\ Ledger!Pass(Fam(t), t, n) /\ n \in Tokens
      /\ grace' = grace \cup {t}
      /\ Settle(b, k, n, n)
      /\ UNCHANGED <<alarmed, cookie, tab, starts, lost>>

\* It refuses any other; a consumed one past its grace raises the alarm.
Refuse(b, k) ==
  LET t == call[b][k].carried
      alarm == IF t \in grace \/ live[Fam(t)] = None THEN {} ELSE {Fam(t)}
  IN  /\ Calling(b, k) /\ live[Fam(t)] # t
      /\ Ledger!Close(alarm)
      /\ alarmed' = alarmed \cup alarm
      /\ Settle(b, k, None, None)
      /\ UNCHANGED <<grace, cookie, tab, starts, lost>>

\* The call fails, before or after the auth service rotated the token.
RefreshFails(b, k) ==
  LET t == call[b][k].carried
      n == Successor(t)
  IN  /\ Calling(b, k) /\ lost < MaxLost
      /\ \/ Ledger!Pass(Fam(t), t, n) /\ n \in Tokens /\ grace' = grace \cup {t}
         \/ UNCHANGED <<ledger, grace>>
      /\ Settle(b, k, None, None)
      /\ lost' = lost + 1
      /\ UNCHANGED <<alarmed, cookie, tab, starts>>

\* The family is closed whether or not the token was still live; a failing
\* call is logged, and the cookie deleted all the same.
Revoke(b) ==
  LET c == call[b]["logout"]
      Answered(r) == call' = [call EXCEPT ![b]["logout"] = Answer(c, r, None)]
  IN  /\ c.at = "rpc"
      /\ \/ Ledger!Close({Fam(c.carried)}) /\ Answered(Fam(c.carried)) /\ UNCHANGED lost
         \/ UNCHANGED ledger /\ Answered(None) /\ lost < MaxLost /\ lost' = lost + 1
      /\ UNCHANGED <<grace, alarmed, cookie, tab, starts>>

-----------------------------------------------------------------------------
(* Replies.                                                                *)

\* Mutant: the cached user stays.
Resolved_KeepsUser(b, k, reply) ==
  LET m == tab[b]
  IN  CASE k = "refresh"    -> [SetToken(m, reply) EXCEPT !.refreshing = FALSE, !.loaded = TRUE]
        [] k = "playback"   -> m
        [] k = "setCookies" -> SetToken(m, reply)
        [] k = "logout"     -> [SetToken(m, None) EXCEPT
             !.out = IF m.refreshing THEN @ ELSE @ \cup ({reply} \ {None})]

\* What the promise's continuations make of the tab's memory.
Resolved(b, k, reply) ==
  LET m == tab[b]
  IN  CASE k = "refresh"    -> [SetToken(m, reply) EXCEPT !.refreshing = FALSE, !.loaded = TRUE]
        [] k = "playback"   -> m
        [] k = "setCookies" -> SetToken(m, reply)
        [] k = "logout"     -> [SetToken(m, None) EXCEPT !.shown = None,
             !.out = IF m.refreshing THEN @ ELSE @ \cup ({reply} \ {None})]

\* Mutant: what finally does is done on success only.
Rejected_Stuck(m, k) == m

\* A rejected promise: finally runs, the token and its missing timer stay.
Rejected(m, k) ==
  IF k = "refresh" THEN [m EXCEPT !.refreshing = FALSE, !.loaded = TRUE] ELSE m

Ends(b, k, m) ==
  /\ call' = [call EXCEPT ![b][k] = NoCall]
  /\ tab' = IF tab[b].open THEN [tab EXCEPT ![b] = m] ELSE tab

\* The browser stores the cookie before the action's promise resolves.
Receive(b, k) ==
  LET c == call[b][k]
  IN  /\ c.at = "answered"
      /\ cookie' = IF c.put = Keep THEN cookie ELSE c.put
      /\ Ends(b, k, Resolved(b, k, c.reply))
      /\ UNCHANGED <<ledger, grace, alarmed, starts, lost>>

\* The request never leaves, or its reply never arrives; of a tab that was
\* closed it has been counted.
Drop(b, k) ==
  /\ call[b][k].at \in {"queued", "answered"}
  /\ IF tab[b].open THEN lost < MaxLost /\ lost' = lost + 1 ELSE UNCHANGED lost
  /\ Ends(b, k, Rejected(tab[b], k))
  /\ UNCHANGED <<ledger, grace, alarmed, cookie, starts>>

\* A round trip takes less than the grace period: the grace of a token ends
\* when no request carries it any more.
GraceEnds(t) ==
  /\ t \in grace /\ ~Carrying(t)
  /\ grace' = grace \ {t}
  /\ UNCHANGED <<ledger, alarmed, cookie, tab, call, starts, lost>>

-----------------------------------------------------------------------------
\* A tab whose page was loaded without a cookie.
SignedOut == [Closed EXCEPT !.open = TRUE, !.loaded = TRUE]

Init == /\ Ledger!LedgerInit
        /\ grace = {} /\ alarmed = {} /\ cookie = None
        /\ tab \in [Tabs -> {Closed, SignedOut}]
        /\ call = [b \in Tabs |-> [k \in Kinds |-> NoCall]]
        /\ starts = 0 /\ lost = 0

Serve(b, k) == \/ Rotate(b, k) \/ Refuse(b, k) \/ RefreshFails(b, k)
               \/ (k = "logout" /\ Revoke(b))

Next == \/ \E b \in Tabs :
             \/ TimerFires(b) \/ Load(b) \/ CloseTab(b) \/ Playback(b) \/ Logout(b)
             \/ \E f \in Families : Login(b, f) \/ Register(b, f)
             \/ \E k \in Kinds : Send(b, k) \/ Serve(b, k) \/ Receive(b, k) \/ Drop(b, k)
        \/ \E t \in Tokens : GraceEnds(t)

Spec == Init /\ [][Next]_vars

-----------------------------------------------------------------------------
(* Properties.                                                             *)

Opt(S) == S \cup {None}

Memory == [open : BOOLEAN, loaded : BOOLEAN, access : Opt(Tokens), timer : BOOLEAN,
           refreshing : BOOLEAN, shown : Opt(Families), out : SUBSET Families]

Calls == [at : {"none", "queued", "waiting", "rpc", "answered"},
          carried : Opt(Tokens), reply : Opt(Tokens \cup Families),
          put : Opt(Tokens \cup {Keep})]

\* Types; a tab refreshes exactly while its refresh action is pending, unless
\* the tab was closed.
TypeOK ==
  /\ live \in [Families -> Opt(Tokens)]
  /\ opened \subseteq Families /\ used \subseteq Tokens
  /\ grace \subseteq Tokens /\ alarmed \subseteq Families /\ cookie \in Opt(Tokens)
  /\ tab \in [Tabs -> Memory]
  /\ call \in [Tabs -> [Kinds -> Calls]]
  /\ starts \in 0..MaxStarts /\ lost \in 0..MaxLost
  /\ \A b \in Tabs : tab[b].open => (tab[b].refreshing <=> Pending(b, "refresh"))

\* As long as no request or reply is lost, the reuse alarm never ends the
\* session of an honest browser, however many tabs refresh at once: a token
\* that was consumed is out of the cookie and of every request by the end of
\* its grace (actions/auth.ts:34-62).
NoFalseAlarm == lost = 0 => alarmed = {}

\* A session whose logout a tab saw end, with no refresh of its own under way,
\* does not come back to that tab: neither another tab's refresh nor a request
\* that crossed the logout gives it an access token of it, or its user's data
\* (use-logout.ts:10-17, token-store.ts:61-69).
LogoutHolds == \A b \in Tabs :
  /\ tab[b].access # None => Fam(tab[b].access) \notin tab[b].out
  /\ tab[b].shown \notin tab[b].out

\* As long as nothing is lost, a tab that holds an access token will renew it:
\* its timer is set or a refresh is under way (token-store.ts:39-48, 59).
AccessIsRefreshed == lost = 0 =>
  \A b \in Tabs : tab[b].access # None => tab[b].timer \/ tab[b].refreshing

\* A refused refresh takes no other token out of the cookie than the one it
\* carried (actions/auth.ts:52-54).
RefusalStaysLocal ==
  [][\A b \in Tabs, k \in {"refresh", "playback"} :
       (Receive(b, k) /\ call[b][k].put = None) => cookie \in {None, call[b][k].carried}]_vars

-----------------------------------------------------------------------------
(* The inductive invariant.                                                *)

\* What a server action's record may hold, by its kind and place: only actions
\* that left carry a cookie, and only answered ones bring one back.
CallShape(k, c) ==
  /\ c.at = "none" => c.reply = None
  /\ c.at \in {"none", "queued"} => c.carried = None
  /\ c.at \in {"rpc", "waiting"} => c.carried # None
  /\ c.at # "answered" => c.put = Keep
  /\ k \in {"refresh", "playback"} =>
       /\ c.reply # None => c.at = "answered" /\ c.reply \in Tokens /\ c.reply[2] > 1
       /\ c.put \in {Keep, None, c.reply}
  /\ k = "setCookies" =>
       /\ c.at \in {"none", "queued", "answered"}
       /\ c.at # "none" => c.reply \in Families \X {1}
       /\ c.at = "answered" => c.put = c.reply
  /\ k = "logout" =>
       /\ c.at # "waiting" /\ c.put \in {Keep, None} /\ c.reply \in Opt(Families)
       /\ c.reply # None => c.at = "answered"

ShapeInv ==
  /\ \A b \in Tabs, k \in Kinds : CallShape(k, call[b][k])
  /\ \A b \in Tabs : ~tab[b].open => tab[b] = Closed

\* Tokens are of opened families; a live one is of its family.
LedgerInv ==
  /\ \A t \in used : Fam(t) \in opened
  /\ \A f \in Families : live[f] # None => live[f] \in used /\ Fam(live[f]) = f

\* The ledger knows every token and family in the browser or on its way.
CallsKnown == \A b \in Tabs, k \in Kinds :
  /\ call[b][k].carried \in Opt(used)
  /\ call[b][k].reply \in Opt(IF k = "logout" THEN opened ELSE used)
TabsKnown == \A b \in Tabs : tab[b].access \in Opt(used) /\ tab[b].out \subseteq opened
UsedInv == cookie \in Opt(used) /\ CallsKnown /\ TabsKnown

\* Family f is nowhere but in the sign-in of tab b.
Unseen(b, f) ==
  /\ cookie # None => Fam(cookie) # f
  /\ \A o \in Tabs, j \in Kinds :
       /\ call[o][j].carried # None => Fam(call[o][j].carried) # f
       /\ j = "logout" => call[o][j].reply # f
       /\ (o # b \/ j # "setCookies") /\ j # "logout" /\ call[o][j].reply # None
            => Fam(call[o][j].reply) # f
  /\ \A o \in Tabs : f \notin tab[o].out

\* Until the reply of a sign-in arrives, its token is the family's only one.
NewInv == \A b \in Tabs : LET c == call[b]["setCookies"]
                          IN  c.at # "none" => /\ Unseen(b, Fam(c.reply))
                                               /\ live[Fam(c.reply)] \in {c.reply, None}

\* A logout that was answered, or seen to end, closed its family for good.
ClosedInv == \A b \in Tabs :
  /\ call[b]["logout"].reply # None => live[call[b]["logout"].reply] = None
  /\ \A f \in tab[b].out : live[f] = None

\* The token a refresh brings is not the one its tab has, nor of a session the
\* tab saw closed.
RefreshInv == \A b \in Tabs : LET r == call[b]["refresh"].reply
                              IN  r # None => r # tab[b].access /\ Fam(r) \notin tab[b].out

\* Live, or of a closed family.
Current(t) == live[Fam(t)] \in {t, None}

\* What lost messages may break.  A reply brings a token that nothing else has;
\* a cookie that was consumed is about to be replaced by a reply; a consumed
\* token on its way has grace; a closed tab waits for nothing.
Alone(b, k, t) ==
  /\ Current(t) /\ cookie # t
  /\ \A o \in Tabs, j \in Kinds :
       /\ call[o][j].carried # t
       /\ o # b \/ j # k => call[o][j].put # t

BringInv == \A b \in Tabs, k \in Kinds :
  call[b][k].put \notin {Keep, None} => Alone(b, k, call[b][k].put)

CookieInv == cookie # None => Current(cookie) \/ \E b \in Tabs, k \in Kinds :
  call[b][k].carried = cookie /\ call[b][k].put # Keep

CarryInv == \A b \in Tabs, k \in Kinds : LET t == call[b][k].carried
                                         IN  t # None => Current(t) \/ t \in grace

QuietInv == \A b \in Tabs : ~tab[b].open => \A k \in Kinds : call[b][k].at = "none"

LosslessInv == lost = 0 => BringInv /\ CookieInv /\ CarryInv /\ QuietInv

IInv == /\ TypeOK /\ ShapeInv /\ LedgerInv /\ UsedInv
        /\ NewInv /\ ClosedInv /\ RefreshInv /\ LosslessInv
        /\ NoFalseAlarm /\ LogoutHolds /\ AccessIsRefreshed
=============================================================================
