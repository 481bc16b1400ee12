--------------------------- MODULE WebSessionProofs ---------------------------
(***************************************************************************)
(* The safety properties of WebSession for any number of tabs, families,   *)
(* server actions and lost messages.                                       *)
(***************************************************************************)
EXTENDS WebSession, TLAPS

USE SessionAssumption DEF SessionAssumption

-----------------------------------------------------------------------------
(* The memory of a tab.                                                    *)

\* Setting a token changes the token, the timer, and perhaps whose data is shown.
LEMMA SetTokenFacts ==
  ASSUME NEW m \in Memory, NEW token \in Opt(Tokens)
  PROVE  LET n == SetToken(m, token)
         IN  /\ n \in Memory /\ n.access = token
             /\ n.open = m.open /\ n.refreshing = m.refreshing /\ n.out = m.out
             /\ n.shown # m.shown => token # None /\ n.shown = Fam(token)
             /\ m.access # token => n.timer = (token # None)
             /\ m.access = token => n.timer = m.timer
  <1>1. token # None => Fam(token) \in Families
    BY DEF Opt, Tokens, Fam
  <1>2. CASE m.access = token
    BY <1>2 DEF SetToken
  <1>3. CASE m.access # token
    <2> DEFINE t == [m EXCEPT !.access = token, !.timer = (token # None)]
    <2>1. /\ t \in Memory /\ t.access = token /\ t.timer = (token # None)
          /\ t.open = m.open /\ t.refreshing = m.refreshing /\ t.out = m.out /\ t.shown = m.shown
      BY DEF Memory
    <2>2. SetToken(m, token) = UserShown(t)
      BY <1>3 DEF SetToken
    <2> HIDE DEF t
    <2>3. UserShown(t) = t \/ (token # None /\ UserShown(t) = [t EXCEPT !.shown = Fam(token)])
      BY <2>1 DEF UserShown
    <2>4. token # None => /\ [t EXCEPT !.shown = Fam(token)] \in Memory
                          /\ [t EXCEPT !.shown = Fam(token)].access = t.access
                          /\ [t EXCEPT !.shown = Fam(token)].timer = t.timer
                          /\ [t EXCEPT !.shown = Fam(token)].open = t.open
                          /\ [t EXCEPT !.shown = Fam(token)].refreshing = t.refreshing
                          /\ [t EXCEPT !.shown = Fam(token)].out = t.out
                          /\ [t EXCEPT !.shown = Fam(token)].shown = Fam(token)
      BY <1>1, <2>1 DEF Memory, Opt
    <2> QED
      BY <1>3, <2>1, <2>2, <2>3, <2>4
  <1> QED
    BY <1>2, <1>3

\* Memory n is m after the answer r to action k.
Resumes(m, k, r, n) ==
  /\ n \in Memory /\ n.open = m.open
  /\ n.refreshing = (k # "refresh" /\ m.refreshing)
  /\ k = "playback" => n = m
  /\ k \in {"refresh", "setCookies"} =>
       /\ n.access = r /\ n.out = m.out
       /\ n.shown # m.shown => r # None /\ n.shown = Fam(r)
       /\ m.access # r => n.timer = (r # None)
       /\ m.access = r => n.timer = m.timer
  /\ k = "logout" =>
       /\ n.access = None /\ n.shown = None
       /\ n.out = IF m.refreshing THEN m.out ELSE m.out \cup ({r} \ {None})

\* What the continuations of a promise change in their tab.
LEMMA ResolvedFacts ==
  ASSUME tab \in [Tabs -> Memory], NEW b \in Tabs, NEW k \in Kinds,
         NEW r, k # "logout" => r \in Opt(Tokens), k = "logout" => r \in Opt(Families)
  PROVE  Resumes(tab[b], k, r, Resolved(b, k, r))
  <1> USE DEF Resumes
  <1> DEFINE m == tab[b]
             t == SetToken(m, IF k = "logout" THEN None ELSE r)
  <1>1. m \in Memory
    OBVIOUS
  <1>2. /\ t \in Memory /\ t.access = (IF k = "logout" THEN None ELSE r)
        /\ t.open = m.open /\ t.refreshing = m.refreshing /\ t.out = m.out
        /\ t.shown # m.shown => k # "logout" /\ r # None /\ t.shown = Fam(r)
        /\ k # "logout" /\ m.access # r => t.timer = (r # None)
        /\ k # "logout" /\ m.access = r => t.timer = m.timer
    <2>1. (IF k = "logout" THEN None ELSE r) \in Opt(Tokens)
      BY DEF Opt
    <2> QED
      BY <1>1, <2>1, SetTokenFacts
  <1>3. CASE k = "playback"
    BY <1>1, <1>3 DEF Resolved, Memory
  <1>4. CASE k = "refresh"
    <2>1. Resolved(b, k, r) = [t EXCEPT !.refreshing = FALSE, !.loaded = TRUE]
      BY <1>4 DEF Resolved
    <2> HIDE DEF t
    <2> QED
      BY <1>2, <1>4, <2>1 DEF Memory
  <1>5. CASE k = "setCookies"
    <2>1. Resolved(b, k, r) = t
      BY <1>5 DEF Resolved
    <2> HIDE DEF t
    <2> QED
      BY <1>2, <1>5, <2>1 DEF Memory
  <1>6. CASE k = "logout"
    <2>1. Resolved(b, k, r) = [t EXCEPT !.shown = None,
             !.out = IF m.refreshing THEN @ ELSE @ \cup ({r} \ {None})]
      BY <1>6 DEF Resolved
    <2> HIDE DEF t
    <2> DEFINE left == IF m.refreshing THEN m.out ELSE m.out \cup ({r} \ {None})
    <2>2. left \in SUBSET Families
      BY <1>1, <1>6 DEF Memory, Opt
    <2>3. Resolved(b, k, r) = [t EXCEPT !.shown = None, !.out = left]
      BY <1>2, <2>1
    <2> HIDE DEF left
    <2>4. /\ Resolved(b, k, r) \in Memory
          /\ Resolved(b, k, r).open = t.open /\ Resolved(b, k, r).refreshing = t.refreshing
          /\ Resolved(b, k, r).access = t.access /\ Resolved(b, k, r).shown = None
          /\ Resolved(b, k, r).out = left
      BY <1>2, <2>2, <2>3 DEF Memory, Opt
    <2>5. m.refreshing \in BOOLEAN
      BY <1>1 DEF Memory
    <2> QED
      BY <1>2, <1>6, <2>4, <2>5 DEF left
  <1> QED
    BY <1>3, <1>4, <1>5, <1>6 DEF Kinds

-----------------------------------------------------------------------------
(* Server actions.                                                         *)

\* Every other call stays as it is.
OthersStay(b, k) ==
  \A o \in Tabs, j \in Kinds : o # b \/ j # k => call'[o][j] = call[o][j]

\* Call k of tab b becomes c, and nothing else changes in call.
Becomes(b, k, c) ==
  /\ call' \in [Tabs -> [Kinds -> Calls]]
  /\ call'[b][k] = c /\ OthersStay(b, k)

\* An assignment to one call does that.
LEMMA BecomesFacts ==
  ASSUME call \in [Tabs -> [Kinds -> Calls]], NEW b \in Tabs, NEW k \in Kinds, NEW c \in Calls,
         call' = [call EXCEPT ![b][k] = c]
  PROVE  Becomes(b, k, c)
  <1>1. call[b] \in [Kinds -> Calls]
    OBVIOUS
  <1>2. [call[b] EXCEPT ![k] = c] \in [Kinds -> Calls]
    BY <1>1
  <1>3. call' = [call EXCEPT ![b] = [call[b] EXCEPT ![k] = c]]
    OBVIOUS
  <1> HIDE DEF Calls
  <1>4. call'[b] = [call[b] EXCEPT ![k] = c] /\ \A o \in Tabs \ {b} : call'[o] = call[o]
    BY <1>3
  <1>5. call'[b][k] = c /\ \A j \in Kinds \ {k} : call'[b][j] = call[b][j]
    BY <1>1, <1>4
  <1>6. call' \in [Tabs -> [Kinds -> Calls]]
    BY <1>2, <1>3
  <1> QED
    BY <1>4, <1>5, <1>6 DEF Becomes, OthersStay

\* The records of the module, by their fields.
LEMMA Records ==
  /\ NoCall \in Calls /\ Queued \in Calls
  /\ NoCall.at = "none" /\ NoCall.carried = None /\ NoCall.reply = None /\ NoCall.put = Keep
  /\ \A r \in Opt(Tokens \cup Families) : LET c == [Queued EXCEPT !.reply = r]
       IN  /\ c \in Calls /\ c.at = "queued" /\ c.carried = None /\ c.reply = r /\ c.put = Keep
  /\ Closed \in Memory /\ Closed.open = FALSE /\ Closed.access = None /\ Closed.shown = None
  /\ Closed.out = {} /\ Closed.timer = FALSE /\ Closed.refreshing = FALSE
  BY DEF NoCall, Queued, Calls, Opt, Closed, Memory

\* Call c with another answer, cookie or place.
AnsweredFrom(c, a, r, p) ==
  a \in Calls /\ a.at = "answered" /\ a.carried = c.carried /\ a.reply = r /\ a.put = p

\* Answering a call keeps the cookie it carried.
LEMMA AnswerFacts ==
  ASSUME NEW c \in Calls, NEW r \in Opt(Tokens \cup Families), NEW p \in Opt(Tokens \cup {Keep})
  PROVE  AnsweredFrom(c, Answer(c, r, p), r, p)
  BY DEF Calls, Opt, Answer, AnsweredFrom

\* A request takes the cookie along.
LEMMA CarriedFacts ==
  ASSUME NEW c \in Calls, NEW t \in Opt(Tokens)
  PROVE  LET d == [c EXCEPT !.carried = t]
         IN  /\ d \in Calls /\ d.at = c.at /\ d.carried = t /\ d.reply = c.reply
             /\ d.put = c.put
  BY DEF Calls, Opt

\* A request is on its way.
LEMMA AtFacts ==
  ASSUME NEW c \in Calls, NEW p \in {"waiting", "rpc"}
  PROVE  LET d == [c EXCEPT !.at = p]
         IN  /\ d \in Calls /\ d.at = p /\ d.carried = c.carried /\ d.reply = c.reply
             /\ d.put = c.put
  BY DEF Calls

\* A tab keeps what it knows, and its timer unless it refreshes.
TabsStay == \A o \in Tabs :
  /\ tab'[o].access = tab[o].access /\ tab'[o].out = tab[o].out /\ tab'[o].shown = tab[o].shown
  /\ tab[o].timer \/ tab[o].refreshing => tab'[o].timer \/ tab'[o].refreshing
  /\ ~tab'[o].open => tab'[o] = tab[o]
  /\ tab'[o].open => (tab'[o].refreshing <=> call'[o]["refresh"].at # "none")

\* Tab b calls server action k, with argument r.
Begins(b, k, r) ==
  /\ call[b][k].at = "none"
  /\ \E c : /\ Becomes(b, k, c)
            /\ c.at = "queued" /\ c.carried = None /\ c.reply = r /\ c.put = Keep
  /\ tab' \in [Tabs -> Memory] /\ TabsStay /\ tab'[b].open
  /\ starts' \in 0..MaxStarts
  /\ UNCHANGED <<grace, alarmed, cookie, lost>>

\* Start begins an action when the memory it goes on with still renews its token.
LEMMA StartFacts ==
  ASSUME TypeOK, ShapeInv, NEW b \in Tabs, NEW k \in Kinds,
         NEW r \in Opt(Tokens \cup Families), NEW m \in Memory,
         Start(b, k, r, m), call[b][k].at = "none",
         m.access = tab[b].access, m.out = tab[b].out, m.shown = tab[b].shown, m.open,
         tab[b].timer \/ tab[b].refreshing => m.timer \/ m.refreshing,
         m.refreshing <=> (k = "refresh" \/ call[b]["refresh"].at # "none"),
         UNCHANGED <<grace, alarmed, cookie, lost>>
  PROVE  Begins(b, k, r)
  <1>1. Becomes(b, k, [Queued EXCEPT !.reply = r])
    BY Records, BecomesFacts DEF Start, TypeOK
  <1>2. tab' \in [Tabs -> Memory] /\ tab'[b] = m /\ \A o \in Tabs \ {b} : tab'[o] = tab[o]
    BY DEF Start, TypeOK
  <1>3. \A o \in Tabs \ {b} : call'[o]["refresh"] = call[o]["refresh"]
    BY <1>1 DEF Becomes, OthersStay, Kinds
  <1>4. call'[b]["refresh"].at # "none" <=> (k = "refresh" \/ call[b]["refresh"].at # "none")
    <2>1. CASE k = "refresh"
      BY <1>1, <2>1, Records DEF Becomes
    <2>2. CASE k # "refresh"
      BY <1>1, <2>2 DEF Becomes, OthersStay, Kinds
    <2> QED
      BY <2>1, <2>2
  <1>5. TabsStay
    BY <1>2, <1>3, <1>4 DEF TabsStay, TypeOK, Pending
  <1>6. \E c : /\ Becomes(b, k, c)
               /\ c.at = "queued" /\ c.carried = None /\ c.reply = r /\ c.put = Keep
    <2> DEFINE d == [Queued EXCEPT !.reply = r]
    <2>1. d.at = "queued" /\ d.carried = None /\ d.reply = r /\ d.put = Keep
      BY Records
    <2> HIDE DEF d
    <2> QED
      BY <1>1, <2>1 DEF d
  <1>7. starts' \in 0..MaxStarts
    BY DEF Start, TypeOK
  <1> QED
    BY <1>2, <1>5, <1>6, <1>7 DEF Begins

\* Timers, pages, playbacks and logouts begin an action without argument.
LEMMA UserFrame ==
  ASSUME TypeOK, ShapeInv, NEW b \in Tabs,
         (TimerFires(b) /\ ~tab[b].refreshing) \/ Load(b) \/ Playback(b) \/ Logout(b)
  PROVE  /\ \E k \in Kinds \ {"setCookies"} : Begins(b, k, None)
         /\ UNCHANGED ledger
  <1>1. /\ tab[b] \in Memory /\ None \in Opt(Tokens \cup Families)
        /\ "refresh" \in Kinds /\ "playback" \in Kinds /\ "logout" \in Kinds
        /\ ~tab[b].open => tab[b] = Closed
        /\ tab[b].open => (tab[b].refreshing <=> call[b]["refresh"].at # "none")
    BY DEF TypeOK, Opt, Kinds, ShapeInv, Pending
  <1>2. \A m \in Memory : LET n == Refreshing(m)
          IN  /\ n \in Memory /\ n.refreshing /\ n.open = m.open
              /\ n.access = m.access /\ n.out = m.out /\ n.shown = m.shown
    BY DEF Refreshing, Memory
  <1>3. CASE TimerFires(b) /\ ~tab[b].refreshing
    <2>1. tab[b].open
      BY <1>1, <1>3, Records DEF TimerFires
    <2>2. /\ Start(b, "refresh", None, Refreshing(tab[b]))
          /\ UNCHANGED <<ledger, grace, alarmed, cookie, lost>>
      BY <1>3 DEF TimerFires
    <2>3. Begins(b, "refresh", None)
      BY <1>1, <1>2, <1>3, <2>1, <2>2, StartFacts
    <2> QED
      BY <1>1, <2>2, <2>3
  <1>4. CASE Load(b)
    <2> DEFINE m == [Refreshing(Closed) EXCEPT !.open = TRUE]
    <2>1. /\ m \in Memory /\ m.refreshing /\ m.open
          /\ m.access = None /\ m.out = {} /\ m.shown = None
      BY Records, <1>2 DEF Refreshing, Memory
    <2>2. Start(b, "refresh", None, m) /\ UNCHANGED <<ledger, grace, alarmed, cookie, lost>>
      BY <1>4 DEF Load
    <2>3. tab[b] = Closed /\ call[b]["refresh"].at = "none"
      BY <1>1, <1>4 DEF Load, Pending
    <2> HIDE DEF m
    <2>4. /\ m.access = tab[b].access /\ m.out = tab[b].out /\ m.shown = tab[b].shown
          /\ tab[b].timer \/ tab[b].refreshing => m.timer \/ m.refreshing
      BY <2>1, <2>3, Records
    <2>5. Begins(b, "refresh", None)
      BY <1>1, <2>1, <2>2, <2>3, <2>4, StartFacts
    <2> QED
      BY <1>1, <2>2, <2>5
  <1>5. CASE Playback(b)
    <2>1. Begins(b, "playback", None)
      BY <1>1, <1>5, StartFacts DEF Playback, Pending
    <2> QED
      BY <1>1, <1>5, <2>1 DEF Playback
  <1>6. CASE Logout(b)
    <2>1. Begins(b, "logout", None)
      BY <1>1, <1>6, StartFacts DEF Logout, Pending
    <2> QED
      BY <1>1, <1>6, <2>1 DEF Logout
  <1> QED
    BY <1>3, <1>4, <1>5, <1>6

\* A sign-in begins with the token of a new family.
LEMMA SignInFrame ==
  ASSUME TypeOK, ShapeInv, NEW b \in Tabs, NEW f \in Families, Authenticated(b, f)
  PROVE  Begins(b, "setCookies", <<f, 1>>) /\ Ledger!Open(f, <<f, 1>>)
  <1>1. <<f, 1>> \in Opt(Tokens \cup Families)
    BY DEF Opt, Tokens
  <1>2. tab[b] \in Memory /\ tab[b].open /\ "setCookies" \in Kinds
        /\ (tab[b].refreshing <=> call[b]["refresh"].at # "none")
    BY DEF Authenticated, TypeOK, Kinds, Pending
  <1> QED
    BY <1>1, <1>2, StartFacts DEF Authenticated, Pending

\* What a request becomes when it leaves with the cookie.
Leaves(k, old, c) ==
  /\ c.carried = cookie
  /\ k \in {"refresh", "playback"} =>
       /\ cookie = None => c.at = "answered" /\ c.reply = None /\ c.put = Keep
       /\ cookie # None => c.at \in {"waiting", "rpc"} /\ c.reply = old.reply /\ c.put = Keep
  /\ k = "setCookies" => c.at = "answered" /\ c.reply = old.reply /\ c.put = old.reply
  /\ k = "logout" =>
       /\ cookie = None => c.at = "answered" /\ c.reply = None /\ c.put = None
       /\ cookie # None => c.at = "rpc" /\ c.reply = old.reply /\ c.put = Keep

\* Sending changes the one call, and nothing else.
LEMMA SendFrame ==
  ASSUME TypeOK, ShapeInv, NEW b \in Tabs, NEW k \in Kinds, Send(b, k)
  PROVE  /\ call[b][k].at = "queued"
         /\ \E c : Becomes(b, k, c) /\ Leaves(k, call[b][k], c)
         /\ UNCHANGED <<ledger, grace, alarmed, cookie, tab, starts, lost>>
  <1> DEFINE old == call[b][k]
             sent == [old EXCEPT !.carried = cookie]
             c == Served(k, sent)
  <1>1. /\ call \in [Tabs -> [Kinds -> Calls]] /\ old \in Calls /\ cookie \in Opt(Tokens)
        /\ old.at = "queued" /\ old.put = Keep
        /\ k = "setCookies" => old.reply \in Families \X {1}
    BY DEF TypeOK, Send, ShapeInv, CallShape
  <1>2. /\ sent \in Calls /\ sent.at = "queued" /\ sent.carried = cookie
        /\ sent.reply = old.reply /\ sent.put = Keep
    BY <1>1, CarriedFacts
  <1>3. call' = [call EXCEPT ![b][k] = c]
    BY DEF Send
  <1> HIDE DEF sent
  <1>4. c \in Calls /\ Leaves(k, old, c)
    <2>0. None \in Opt(Tokens \cup Families) /\ Keep \in Opt(Tokens \cup {Keep})
          /\ None \in Opt(Tokens \cup {Keep})
      BY DEF Opt
    <2>1. CASE k \in {"refresh", "playback"} /\ cookie = None
      <3>1. c = Answer(sent, None, Keep)
        BY <1>2, <2>1 DEF Served, Refreshed
      <3>2. AnsweredFrom(sent, c, None, Keep)
        BY <1>2, <2>0, <3>1, AnswerFacts
      <3> HIDE DEF c
      <3> QED
        BY <1>2, <2>1, <3>2 DEF Leaves, AnsweredFrom
    <2>2. CASE k \in {"refresh", "playback"} /\ cookie # None
      <3>1. PICK p \in {"waiting", "rpc"} : c = [sent EXCEPT !.at = p]
        BY <1>2, <2>2 DEF Served, Refreshed
      <3> HIDE DEF c
      <3>2. /\ c \in Calls /\ c.at = p
            /\ c.carried = sent.carried /\ c.reply = sent.reply /\ c.put = sent.put
        BY <1>2, <3>1, AtFacts
      <3> QED
        BY <1>2, <2>2, <3>2 DEF Leaves
    <2>3. CASE k = "setCookies"
      <3>1. c = Answer(sent, old.reply, old.reply)
        BY <1>2, <2>3 DEF Served
      <3>2. old.reply \in Tokens
        BY <1>1, <2>3 DEF Tokens
      <3>3. old.reply \in Opt(Tokens \cup Families) /\ old.reply \in Opt(Tokens \cup {Keep})
        BY <3>2 DEF Opt
      <3>4. AnsweredFrom(sent, c, old.reply, old.reply)
        BY <1>2, <3>1, <3>3, AnswerFacts
      <3> HIDE DEF c
      <3> QED
        BY <1>2, <2>3, <3>4 DEF Leaves, AnsweredFrom
    <2>4. CASE k = "logout" /\ cookie = None
      <3>1. c = Answer(sent, None, None)
        BY <1>2, <2>4 DEF Served
      <3>2. AnsweredFrom(sent, c, None, None)
        BY <1>2, <2>0, <3>1, AnswerFacts
      <3> HIDE DEF c
      <3> QED
        BY <1>2, <2>4, <3>2 DEF Leaves, AnsweredFrom
    <2>5. CASE k = "logout" /\ cookie # None
      <3>1. c = [sent EXCEPT !.at = "rpc"]
        BY <1>2, <2>5 DEF Served
      <3>2. /\ c \in Calls /\ c.at = "rpc"
            /\ c.carried = sent.carried /\ c.reply = sent.reply /\ c.put = sent.put
        BY <1>2, <3>1, AtFacts
      <3> HIDE DEF c
      <3> QED
        BY <1>2, <2>5, <3>2 DEF Leaves
    <2> QED
      BY <2>1, <2>2, <2>3, <2>4, <2>5 DEF Kinds
  <1> HIDE DEF c
  <1>5. Becomes(b, k, c)
    BY <1>1, <1>3, <1>4, BecomesFacts
  <1> QED
    BY <1>1, <1>4, <1>5 DEF Send

\* The call of tab b and kind k is answered, and so are those that waited.
Settled(b, k, r, p) ==
  /\ call' \in [Tabs -> [Kinds -> Calls]]
  /\ LET c == call'[b][k]
     IN  c.at = "answered" /\ c.carried = call[b][k].carried /\ c.reply = r /\ c.put = p
  /\ \A o \in Tabs, j \in Kinds : o # b \/ j # k =>
       \/ call'[o][j] = call[o][j]
       \/ /\ call[o][j].at = "waiting" /\ call[o][j].carried = call[b][k].carried
          /\ call'[o][j].at = "answered" /\ call'[o][j].carried = call[o][j].carried
          /\ call'[o][j].reply = r /\ call'[o][j].put = Keep

\* Settle does that, whatever the reply.
LEMMA SettleFacts ==
  ASSUME TypeOK, NEW b \in Tabs, NEW k \in Kinds, NEW r \in Opt(Tokens),
         NEW p \in Opt(Tokens \cup {Keep}), Settle(b, k, r, p)
  PROVE  Settled(b, k, r, p)
  <1> DEFINE New(o, j) == LET c == call[o][j]
                          IN  IF o = b /\ j = k THEN Answer(c, r, p)
                              ELSE IF c.at = "waiting" /\ c.carried = call[b][k].carried
                                   THEN Answer(c, r, Keep) ELSE c
  <1>1. r \in Opt(Tokens \cup Families) /\ Keep \in Opt(Tokens \cup {Keep})
    BY DEF Opt
  <1>2. \A o \in Tabs, j \in Kinds : call[o][j] \in Calls
    BY DEF TypeOK
  <1>3. \A o \in Tabs, j \in Kinds :
          /\ AnsweredFrom(call[o][j], Answer(call[o][j], r, p), r, p)
          /\ AnsweredFrom(call[o][j], Answer(call[o][j], r, Keep), r, Keep)
    BY <1>1, <1>2, AnswerFacts
  <1>4. \A o \in Tabs, j \in Kinds : New(o, j) \in Calls
    BY <1>2, <1>3 DEF AnsweredFrom
  <1>5. call' = [o \in Tabs |-> [j \in Kinds |-> New(o, j)]]
    BY DEF Settle
  <1>6. \A o \in Tabs, j \in Kinds : call'[o][j] = New(o, j)
    BY <1>5
  <1>7. call' \in [Tabs -> [Kinds -> Calls]]
    BY <1>4, <1>5
  <1>8. call'[b][k] = Answer(call[b][k], r, p)
    BY <1>6
  <1>9. \A o \in Tabs, j \in Kinds : o # b \/ j # k =>
          \/ call'[o][j] = call[o][j]
          \/ /\ call[o][j].at = "waiting" /\ call[o][j].carried = call[b][k].carried
             /\ call'[o][j] = Answer(call[o][j], r, Keep)
    BY <1>6
  <1> HIDE DEF New
  <1> QED
    BY <1>3, <1>7, <1>8, <1>9 DEF Settled, AnsweredFrom

\* A promise ends: its call is free, and the tab, if it is still there, goes on
\* with memory m.
Ended(b, k, m) ==
  /\ Becomes(b, k, NoCall)
  /\ tab' \in [Tabs -> Memory]
  /\ \A o \in Tabs \ {b} : tab'[o] = tab[o]
  /\ tab'[b] = IF tab[b].open THEN m ELSE tab[b]

\* Ends does that, whichever way the promise ends.
LEMMA EndFacts ==
  ASSUME TypeOK, NEW b \in Tabs, NEW k \in Kinds, NEW m \in Memory, Ends(b, k, m)
  PROVE  Ended(b, k, m)
  <1>1. Becomes(b, k, NoCall)
    BY Records, BecomesFacts DEF Ends, TypeOK
  <1>2. tab \in [Tabs -> Memory]
    BY DEF TypeOK
  <1> QED
    BY <1>1, <1>2 DEF Ends, Ended

\* Closing a tab forgets its memory and the calls that have not left.
LEMMA CloseFrame ==
  ASSUME TypeOK, NEW b \in Tabs, CloseTab(b)
  PROVE  /\ call' \in [Tabs -> [Kinds -> Calls]]
         /\ \A o \in Tabs \ {b}, k \in Kinds : call'[o][k] = call[o][k]
         /\ \A k \in Kinds : IF call[b][k].at \in {"none", "queued"} THEN call'[b][k] = NoCall
                             ELSE call'[b][k] = call[b][k]
         /\ tab' \in [Tabs -> Memory] /\ tab'[b] = Closed
         /\ \A o \in Tabs \ {b} : tab'[o] = tab[o]
         /\ tab[b].open /\ lost' \in 0..MaxLost /\ lost' >= lost
         /\ lost' = 0 => \A k \in Kinds : call'[b][k] = NoCall
  <1> DEFINE calls == [k \in Kinds |-> IF k \in UnderWay(b) THEN call[b][k] ELSE NoCall]
  <1>1. /\ tab \in [Tabs -> Memory] /\ call \in [Tabs -> [Kinds -> Calls]] /\ lost \in 0..MaxLost
    BY DEF TypeOK
  <1>2. calls \in [Kinds -> Calls]
    BY <1>1, Records
  <1>3. call' = [call EXCEPT ![b] = calls] /\ tab' = [tab EXCEPT ![b] = Closed]
    BY DEF CloseTab
  <1>4. \A k \in Kinds :
          calls[k] = IF call[b][k].at \in {"none", "queued"} THEN NoCall ELSE call[b][k]
    BY DEF UnderWay
  <1>5. UnderWay(b) = {} => \A k \in Kinds : calls[k] = NoCall
    BY <1>4 DEF UnderWay
  <1>6. /\ tab[b].open
        /\ IF UnderWay(b) = {} THEN lost' = lost ELSE lost < MaxLost /\ lost' = lost + 1
    BY DEF CloseTab
  <1> HIDE DEF calls
  <1>7. /\ call' \in [Tabs -> [Kinds -> Calls]] /\ call'[b] = calls
        /\ \A o \in Tabs \ {b} : call'[o] = call[o]
    BY <1>1, <1>2, <1>3
  <1>8. tab' \in [Tabs -> Memory] /\ tab'[b] = Closed /\ \A o \in Tabs \ {b} : tab'[o] = tab[o]
    BY <1>1, <1>3, Records
  <1>9. lost' \in 0..MaxLost /\ lost' >= lost /\ (lost' = 0 => UnderWay(b) = {})
    BY <1>1, <1>6
  <1> QED
    BY <1>4, <1>5, <1>6, <1>7, <1>8, <1>9

-----------------------------------------------------------------------------
(* Every step keeps the invariant.                                         *)

\* Only an answered call brings a cookie, and the token it brings is its reply.
LEMMA CallFacts ==
  ASSUME TypeOK, ShapeInv, UsedInv, NEW b \in Tabs, NEW k \in Kinds
  PROVE  LET c == call[b][k]
         IN  /\ c \in Calls
             /\ c.put # Keep => c.at = "answered"
             /\ c.put \notin {Keep, None} => k # "logout" /\ c.put = c.reply /\ c.put \in used
             /\ c.at \in {"none", "queued"} => c.carried = None
             /\ c.at = "waiting" => k \in {"refresh", "playback"}
             /\ c.carried # None => c.carried \in used
             /\ k # "logout" /\ c.reply # None => c.reply \in used
             /\ k = "logout" /\ c.reply # None => c.reply \in opened
  <1>1. call[b][k] \in Calls /\ CallShape(k, call[b][k])
    BY DEF TypeOK, ShapeInv
  <1>2. /\ call[b][k].carried \in Opt(used)
        /\ k # "logout" => call[b][k].reply \in Opt(used)
        /\ k = "logout" => call[b][k].reply \in Opt(opened)
    BY DEF UsedInv, CallsKnown
  <1> QED
    BY <1>1, <1>2 DEF CallShape, Opt, Kinds

\* The ledger's families go on as they are, beside perhaps a new one.
Grows ==
  /\ live' \in [Families -> Opt(Tokens)] /\ opened' \subseteq Families /\ used' \subseteq Tokens
  /\ opened \subseteq opened' /\ used \subseteq used'
  /\ \A f \in opened : live'[f] = live[f]
  /\ \A t \in used' : Fam(t) \in opened'
  /\ \A f \in Families : live'[f] # None => live'[f] \in used' /\ Fam(live'[f]) = f

\* It does when nothing happens to it, and when a family opens.
LEMMA GrowsFacts ==
  ASSUME TypeOK, LedgerInv
  PROVE  /\ UNCHANGED ledger => Grows
         /\ \A f \in Families : Ledger!Open(f, <<f, 1>>) =>
              /\ Grows /\ f \notin opened /\ f \in opened'
              /\ <<f, 1>> \in used' /\ live'[f] = <<f, 1>>
  <1>1. UNCHANGED ledger => Grows
    BY DEF ledger, Grows, TypeOK, LedgerInv
  <1>2. ASSUME NEW f \in Families, Ledger!Open(f, <<f, 1>>)
        PROVE  /\ Grows /\ f \notin opened /\ f \in opened'
               /\ <<f, 1>> \in used' /\ live'[f] = <<f, 1>>
    <2>1. <<f, 1>> \in Tokens /\ Fam(<<f, 1>>) = f
      BY DEF Tokens, Fam
    <2>2. /\ f \notin opened /\ opened' = opened \cup {f} /\ used' = used \cup {<<f, 1>>}
          /\ live' = [live EXCEPT ![f] = <<f, 1>>]
      BY <1>2 DEF Ledger!Open
    <2>3. live' \in [Families -> Opt(Tokens)] /\ live'[f] = <<f, 1>>
          /\ \A g \in Families \ {f} : live'[g] = live[g]
      BY <2>1, <2>2 DEF TypeOK, Opt
    <2> QED
      BY <2>1, <2>2, <2>3 DEF Grows, TypeOK, LedgerInv
  <1> QED
    BY <1>1, <1>2

\* An action that begins carries nothing yet, and a sign-in's family is seen nowhere.
LEMMA BeginKeeps ==
  ASSUME IInv, NEW b \in Tabs, NEW k \in Kinds, NEW r, Begins(b, k, r), Grows,
         k # "setCookies" => r = None,
         k = "setCookies" => \E f \in Families : /\ f \notin opened /\ f \in opened'
                                                 /\ r = <<f, 1>> /\ r \in used' /\ live'[f] = r
  PROVE  IInv'
  <1>1. PICK c : /\ Becomes(b, k, c)
                 /\ c.at = "queued" /\ c.carried = None /\ c.reply = r /\ c.put = Keep
    BY DEF Begins
  <1>2. /\ call' \in [Tabs -> [Kinds -> Calls]] /\ call'[b][k] = c
        /\ \A o \in Tabs, j \in Kinds : o # b \/ j # k => call'[o][j] = call[o][j]
    BY <1>1 DEF Becomes, OthersStay
  <1>3. /\ call[b][k].at = "none" /\ TabsStay /\ tab'[b].open /\ tab' \in [Tabs -> Memory]
        /\ UNCHANGED <<grace, alarmed, cookie, lost>> /\ starts' \in 0..MaxStarts
    BY DEF Begins
  <1>4. /\ TypeOK /\ ShapeInv /\ LedgerInv /\ UsedInv
        /\ NewInv /\ ClosedInv /\ RefreshInv /\ LosslessInv
        /\ NoFalseAlarm /\ LogoutHolds /\ AccessIsRefreshed
    BY DEF IInv
  <1>5. /\ "refresh" \in Kinds /\ "playback" \in Kinds
        /\ "setCookies" \in Kinds /\ "logout" \in Kinds
    BY DEF Kinds
  <1>6. \A t \in used : Fam(t) \in opened /\ (Current(t) => Current(t)')
    BY <1>4 DEF Grows, LedgerInv, UsedInv, Current, Fam
  <1> HIDE DEF Calls, Memory
  <1>7. TypeOK'
    BY <1>2, <1>3, <1>4 DEF TypeOK, Grows, Pending, TabsStay
  <1>8. ShapeInv'
    <2>1. CallShape(k, c)
      BY <1>1 DEF CallShape, Opt, Kinds
    <2>2. \A o \in Tabs, j \in Kinds : CallShape(j, call'[o][j])
      BY <1>2, <1>4, <2>1 DEF ShapeInv
    <2> QED
      BY <1>3, <1>4, <2>2 DEF ShapeInv, TabsStay, CallShape
  <1>9. UsedInv'
    <2>1. CallsKnown'
      BY <1>1, <1>2, <1>4 DEF UsedInv, CallsKnown, Opt, Grows
    <2>2. TabsKnown'
      BY <1>3, <1>4 DEF UsedInv, TabsKnown, Opt, Grows, TabsStay
    <2>3. (cookie \in Opt(used))'
      BY <1>3, <1>4 DEF UsedInv, Opt, Grows
    <2> QED
      BY <2>1, <2>2, <2>3 DEF UsedInv
  <1>10. NewInv'
    <2> SUFFICES ASSUME NEW o \in Tabs, call'[o]["setCookies"].at # "none"
                 PROVE  \E f : /\ Fam(call'[o]["setCookies"].reply) = f /\ Unseen(o, f)'
                               /\ live'[f] \in {call'[o]["setCookies"].reply, None}
      BY DEF NewInv, Unseen, Fam
    <2>1. ASSUME NEW f \in Families, Unseen(o, f), k = "setCookies" /\ o # b => Fam(r) # f
          PROVE  Unseen(o, f)'
      <3>1. \A p \in Tabs, j \in Kinds :
              /\ call'[p][j].carried # None => Fam(call'[p][j].carried) # f
              /\ j = "logout" => call'[p][j].reply # f
              /\ (p # o \/ j # "setCookies") /\ j # "logout" /\ call'[p][j].reply # None
                   => Fam(call'[p][j].reply) # f
        BY <1>1, <1>2, <2>1 DEF Unseen
      <3>2. \A p \in Tabs : f \notin tab'[p].out
        BY <1>3, <2>1 DEF Unseen, TabsStay
      <3> QED
        BY <1>3, <2>1, <3>1, <3>2 DEF Unseen, Fam
    <2>2. CASE o = b /\ k = "setCookies"
      <3>1. PICK f \in Families : f \notin opened /\ f \in opened' /\ r = <<f, 1>> /\ live'[f] = r
        BY <2>2
      <3>2. Unseen(o, f)
        <4>1. \A p \in Tabs, j \in Kinds :
                /\ call[p][j].carried # None => Fam(call[p][j].carried) # f
                /\ j = "logout" => call[p][j].reply # f
                /\ (p # o \/ j # "setCookies") /\ j # "logout" /\ call[p][j].reply # None
                     => Fam(call[p][j].reply) # f
          BY <1>4, <1>6, <3>1, CallFacts
        <4> QED
          BY <1>4, <1>6, <3>1, <4>1 DEF Unseen, UsedInv, TabsKnown, Opt
      <3>3. Unseen(o, f)'
        BY <2>1, <2>2, <3>2
      <3> QED
        BY <1>1, <1>2, <2>2, <3>1, <3>3 DEF Fam
    <2>3. CASE o # b \/ k # "setCookies"
      <3>1. call'[o]["setCookies"] = call[o]["setCookies"]
        BY <1>2, <1>5, <2>3
      <3>2. call[o]["setCookies"].reply \in used /\ call[o]["setCookies"].reply # None
        <4>1. CallShape("setCookies", call[o]["setCookies"])
          BY <1>4, <1>5 DEF ShapeInv
        <4> QED
          BY <1>4, <1>5, <3>1, <4>1, CallFacts DEF CallShape
      <3>3. PICK f \in Families : /\ Fam(call[o]["setCookies"].reply) = f /\ Unseen(o, f)
                                  /\ live[f] \in {call[o]["setCookies"].reply, None}
                                  /\ f \in opened
        BY <1>4, <1>6, <3>1, <3>2 DEF NewInv, TypeOK
      <3>4. Unseen(o, f)'
        BY <2>1, <3>3 DEF Fam
      <3> QED
        BY <3>1, <3>3, <3>4 DEF Grows, Fam
    <2> QED
      BY <2>2, <2>3
  <1>11. ClosedInv'
    <2>1. \A o \in Tabs : call'[o]["logout"].reply = None
                          \/ call'[o]["logout"].reply = call[o]["logout"].reply
      BY <1>1, <1>2, <1>5
    <2>2. \A o \in Tabs : call[o]["logout"].reply # None => call[o]["logout"].reply \in opened
      BY <1>4, <1>5, CallFacts
    <2>3. \A o \in Tabs : tab'[o].out = tab[o].out /\ tab[o].out \subseteq opened
      BY <1>3, <1>4 DEF TabsStay, UsedInv, TabsKnown
    <2> QED
      BY <1>4, <2>1, <2>2, <2>3 DEF ClosedInv, Grows
  <1>12. RefreshInv'
    <2>1. \A o \in Tabs : call'[o]["refresh"].reply = None
                          \/ call'[o]["refresh"].reply = call[o]["refresh"].reply
      BY <1>1, <1>2, <1>5
    <2> QED
      BY <1>3, <1>4, <2>1 DEF RefreshInv, TabsStay
  <1>13. LosslessInv'
    <2> SUFFICES ASSUME lost = 0 PROVE (BringInv /\ CookieInv /\ CarryInv /\ QuietInv)'
      BY <1>3 DEF LosslessInv
    <2>1. BringInv /\ CookieInv /\ CarryInv /\ QuietInv
      BY <1>4 DEF LosslessInv
    <2>2. BringInv'
      <3> SUFFICES ASSUME NEW o \in Tabs, NEW j \in Kinds, call'[o][j].put \notin {Keep, None}
                   PROVE  \E t : t = call'[o][j].put /\ Alone(o, j, t)'
        BY DEF BringInv, Alone, Current, Fam
      <3>1. call'[o][j] = call[o][j]
        BY <1>1, <1>2
      <3>2. PICK t : t = call[o][j].put /\ t \in used /\ Alone(o, j, t)
        BY <1>4, <2>1, <3>1, CallFacts DEF BringInv
      <3>3. Alone(o, j, t)'
        <4>1. \A p \in Tabs, i \in Kinds : /\ call'[p][i].carried # t
                                           /\ p # o \/ i # j => call'[p][i].put # t
          BY <1>1, <1>2, <1>4, <3>2, CallFacts DEF Alone
        <4>2. Current(t)' /\ cookie' # t
          BY <1>3, <1>6, <3>2 DEF Alone
        <4> QED
          BY <4>1, <4>2 DEF Alone, Current, Fam
      <3> QED
        BY <3>1, <3>2, <3>3
    <2>3. CookieInv'
      <3>1. ASSUME NEW o \in Tabs, NEW j \in Kinds, call[o][j].put # Keep
            PROVE  call'[o][j] = call[o][j]
        BY <1>2, <1>3, <1>4, <3>1, CallFacts
      <3>2. cookie # None /\ Current(cookie) => Current(cookie)'
        BY <1>3, <1>4, <1>6 DEF UsedInv, Opt, Current, Fam
      <3> QED
        BY <1>3, <2>1, <3>1, <3>2 DEF CookieInv
    <2>4. CarryInv'
      <3>1. \A o \in Tabs, j \in Kinds : call'[o][j].carried # None =>
              call'[o][j].carried = call[o][j].carried /\ call[o][j].carried \in used
        BY <1>1, <1>2, <1>4, CallFacts
      <3> QED
        BY <1>3, <1>6, <2>1, <3>1 DEF CarryInv, Current, Fam
    <2>5. QuietInv'
      BY <1>2, <1>3, <2>1 DEF QuietInv, TabsStay
    <2> QED
      BY <2>2, <2>3, <2>4, <2>5
  <1>14. NoFalseAlarm' /\ LogoutHolds' /\ AccessIsRefreshed'
    BY <1>3, <1>4 DEF NoFalseAlarm, LogoutHolds, AccessIsRefreshed, TabsStay
  <1>15. LedgerInv'
    BY DEF Grows, LedgerInv, Fam
  <1> QED
    BY <1>7, <1>8, <1>9, <1>10, <1>11, <1>12, <1>13, <1>14, <1>15 DEF IInv

\* The cookie a request takes along is current, or has grace.
LEMMA SendKeeps ==
  ASSUME IInv, NEW b \in Tabs, NEW k \in Kinds, Send(b, k)
  PROVE  IInv'
  <1>1. /\ TypeOK /\ ShapeInv /\ LedgerInv /\ UsedInv
        /\ NewInv /\ ClosedInv /\ RefreshInv /\ LosslessInv
        /\ NoFalseAlarm /\ LogoutHolds /\ AccessIsRefreshed
    BY DEF IInv
  <1>2. PICK c : Becomes(b, k, c) /\ Leaves(k, call[b][k], c)
    BY <1>1, SendFrame
  <1>3. /\ call[b][k].at = "queued"
        /\ UNCHANGED <<ledger, grace, alarmed, cookie, tab, starts, lost>>
    BY <1>1, SendFrame
  <1>4. /\ call' \in [Tabs -> [Kinds -> Calls]] /\ call'[b][k] = c
        /\ \A o \in Tabs, j \in Kinds : o # b \/ j # k => call'[o][j] = call[o][j]
    BY <1>2 DEF Becomes, OthersStay
  <1>5. /\ "refresh" \in Kinds /\ "playback" \in Kinds
        /\ "setCookies" \in Kinds /\ "logout" \in Kinds
    BY DEF Kinds
  <1>6. /\ CallShape(k, call[b][k]) /\ call[b][k].put = Keep /\ call[b][k].carried = None
        /\ k \in {"refresh", "playback", "logout"} => call[b][k].reply = None
        /\ k = "setCookies" => /\ call[b][k].reply \in Families \X {1}
                               /\ call[b][k].reply \in used
    <2>1. CallShape(k, call[b][k])
      BY <1>1 DEF ShapeInv
    <2>2. k = "setCookies" => call[b][k].reply \in Families \X {1}
      BY <1>3, <2>1 DEF CallShape
    <2> QED
      BY <1>1, <1>3, <2>1, <2>2, CallFacts DEF CallShape, Kinds
  <1>7. /\ c.carried = cookie /\ c.at # "none" /\ c.at # "queued"
        /\ k \in {"refresh", "playback"} => c.put = Keep /\ c.reply = None
        /\ k = "setCookies" => /\ c.at = "answered" /\ c.reply = call[b][k].reply
                               /\ c.put = call[b][k].reply
        /\ k = "logout" => c.reply = None /\ c.put \in {Keep, None}
    BY <1>2, <1>6 DEF Leaves, Kinds
  <1>8. live' = live /\ opened' = opened /\ used' = used
    BY <1>3 DEF ledger
  <1> HIDE DEF Calls, Memory
  <1>9. TypeOK'
    BY <1>1, <1>3, <1>4, <1>5, <1>7, <1>8 DEF TypeOK, Pending
  <1>10. ShapeInv'
    <2>1. CallShape(k, c)
      BY <1>2, <1>6, <1>7 DEF CallShape, Leaves, Opt, Kinds
    <2>2. \A o \in Tabs, j \in Kinds : CallShape(j, call'[o][j])
      BY <1>1, <1>4, <2>1 DEF ShapeInv
    <2> QED
      BY <1>1, <1>3, <2>2 DEF ShapeInv, CallShape
  <1>11. UsedInv' /\ LedgerInv'
    <2>1. CallsKnown'
      BY <1>1, <1>4, <1>6, <1>7, <1>8 DEF UsedInv, CallsKnown, Opt, Kinds
    <2>2. TabsKnown' /\ LedgerInv' /\ cookie' \in Opt(used')
      BY <1>1, <1>3, <1>8 DEF UsedInv, TabsKnown, LedgerInv, Opt
    <2> QED
      BY <2>1, <2>2 DEF UsedInv, Opt
  <1>12. NewInv'
    <2> SUFFICES ASSUME NEW o \in Tabs, call'[o]["setCookies"].at # "none"
                 PROVE  \E f : /\ Fam(call'[o]["setCookies"].reply) = f /\ Unseen(o, f)'
                               /\ live'[f] \in {call'[o]["setCookies"].reply, None}
      BY DEF NewInv, Unseen, Fam
    <2>1. /\ call[o]["setCookies"].at # "none"
          /\ call'[o]["setCookies"].reply = call[o]["setCookies"].reply
      BY <1>3, <1>4, <1>5, <1>7
    <2>2. PICK f : /\ Fam(call[o]["setCookies"].reply) = f /\ Unseen(o, f)
                   /\ live[f] \in {call[o]["setCookies"].reply, None} /\ f # None
      <3>1. call[o]["setCookies"].reply \in Families \X {1}
        BY <1>1, <1>5, <2>1 DEF ShapeInv, CallShape
      <3> QED
        BY <1>1, <2>1, <3>1 DEF NewInv, Fam
    <2>3. \A p \in Tabs, j \in Kinds :
            /\ call'[p][j].carried # None => Fam(call'[p][j].carried) # f
            /\ j = "logout" => call'[p][j].reply # f
            /\ (p # o \/ j # "setCookies") /\ j # "logout" /\ call'[p][j].reply # None
                 => Fam(call'[p][j].reply) # f
      BY <1>4, <1>7, <2>2 DEF Unseen, Kinds
    <2>4. Unseen(o, f)'
      BY <1>3, <2>2, <2>3 DEF Unseen, Fam
    <2> QED
      BY <1>8, <2>1, <2>2, <2>4
  <1>13. ClosedInv' /\ RefreshInv'
    <2>1. \A o \in Tabs : /\ call'[o]["logout"].reply \in {None, call[o]["logout"].reply}
                          /\ call'[o]["refresh"].reply \in {None, call[o]["refresh"].reply}
      BY <1>4, <1>5, <1>7
    <2> QED
      BY <1>1, <1>3, <1>8, <2>1 DEF ClosedInv, RefreshInv, Fam
  <1>14. LosslessInv'
    <2> SUFFICES ASSUME lost = 0 PROVE (BringInv /\ CookieInv /\ CarryInv /\ QuietInv)'
      BY <1>3 DEF LosslessInv
    <2>1. BringInv /\ CookieInv /\ CarryInv /\ QuietInv
      BY <1>1 DEF LosslessInv
    <2>2. BringInv'
      <3> SUFFICES ASSUME NEW o \in Tabs, NEW j \in Kinds, call'[o][j].put \notin {Keep, None}
                   PROVE  \E t : t = call'[o][j].put /\ Alone(o, j, t)'
        BY DEF BringInv, Alone, Current, Fam
      <3>1. CASE o = b /\ j = k
        <4>1. /\ k = "setCookies" /\ call[b][k].at # "none"
              /\ call'[o][j].put = call[b][k].reply
          BY <1>3, <1>4, <1>7, <3>1 DEF Kinds
        <4>2. PICK t : t = call[b][k].reply /\ Unseen(b, Fam(t)) /\ Current(t) /\ t # None
          BY <1>1, <1>6, <4>1 DEF NewInv, Current, Fam
        <4>3. \A p \in Tabs, i \in Kinds : p # b \/ i # k => call[p][i].put # t
          <5> SUFFICES ASSUME NEW p \in Tabs, NEW i \in Kinds, p # b \/ i # k, call[p][i].put = t
                       PROVE  FALSE
            OBVIOUS
          <5>1. t # Keep
            BY <1>6, <4>1, <4>2
          <5>2. i # "logout" /\ call[p][i].reply = t
            BY <1>1, <4>2, <5>1, CallFacts
          <5> QED
            BY <4>1, <4>2, <5>2 DEF Unseen
        <4>4. \A p \in Tabs, i \in Kinds : call[p][i].carried # t
          BY <4>2 DEF Unseen
        <4>5. cookie # t
          BY <4>2 DEF Unseen
        <4>6. Alone(o, j, t)'
          BY <1>3, <1>4, <1>7, <1>8, <3>1, <4>2, <4>3, <4>4, <4>5 DEF Alone, Current, Fam
        <4> QED
          BY <4>1, <4>2, <4>6
      <3>2. CASE o # b \/ j # k
        <4>1. call'[o][j] = call[o][j]
          BY <1>4, <3>2
        <4>2. PICK t : t = call[o][j].put /\ Alone(o, j, t)
          BY <2>1, <4>1 DEF BringInv
        <4>3. c.put # t
          <5> SUFFICES ASSUME c.put = t PROVE FALSE
            OBVIOUS
          <5>1. /\ k = "setCookies" /\ t = call[b][k].reply /\ call[b][k].at # "none"
            BY <1>3, <1>7, <4>1, <4>2 DEF Kinds
          <5>2. Unseen(b, Fam(t)) /\ t # None
            BY <1>1, <1>6, <5>1 DEF NewInv
          <5>3. j # "logout" /\ call[o][j].reply = t
            BY <1>1, <4>1, <4>2, CallFacts
          <5> QED
            BY <3>2, <5>1, <5>2, <5>3 DEF Unseen
        <4>4. Alone(o, j, t)'
          BY <1>3, <1>4, <1>7, <1>8, <4>2, <4>3 DEF Alone, Current, Fam
        <4> QED
          BY <4>1, <4>2, <4>4
      <3> QED
        BY <3>1, <3>2
    <2>3. CookieInv'
      <3>1. ASSUME NEW o \in Tabs, NEW j \in Kinds, call[o][j].put # Keep
            PROVE  call'[o][j] = call[o][j]
        BY <1>4, <1>6, <3>1
      <3> QED
        BY <1>3, <1>8, <2>1, <3>1 DEF CookieInv, Current, Fam
    <2>4. CarryInv'
      <3>1. cookie # None => Current(cookie) \/ cookie \in grace
        BY <2>1 DEF CookieInv, CarryInv
      <3> QED
        BY <1>3, <1>4, <1>7, <1>8, <2>1, <3>1 DEF CarryInv, Current, Fam
    <2>5. QuietInv'
      BY <1>3, <1>4, <2>1 DEF QuietInv
    <2> QED
      BY <2>2, <2>3, <2>4, <2>5
  <1>15. NoFalseAlarm' /\ LogoutHolds' /\ AccessIsRefreshed'
    BY <1>1, <1>3 DEF NoFalseAlarm, LogoutHolds, AccessIsRefreshed, Fam
  <1> QED
    BY <1>9, <1>10, <1>11, <1>12, <1>13, <1>14, <1>15 DEF IInv

\* What the auth service makes of token t that a refresh presents: it brings r,
\* the family's new token, or nothing.
Traded(t, r) ==
  /\ live' \in [Families -> Opt(Tokens)] /\ opened' = opened
  /\ used \subseteq used' /\ used' \subseteq Tokens /\ LedgerInv'
  /\ \A f \in Families \ {Fam(t)} : live'[f] = live[f]
  /\ live[Fam(t)] = None => live'[Fam(t)] = None
  /\ r # None => /\ r \in used' /\ r \notin used /\ r[2] > 1 /\ Fam(r) = Fam(t)
                 /\ live[Fam(t)] = t /\ live'[Fam(t)] = r /\ t \in grace'
  /\ grace \subseteq grace' /\ grace' \subseteq Tokens
  /\ alarmed' \subseteq Families /\ lost' \in 0..MaxLost
  /\ lost' = 0 => /\ lost = 0 /\ alarmed' = alarmed
                  /\ r = None => live'[Fam(t)] \in {live[Fam(t)], None}

\* The successor a refresh brings is new to everyone, and its family not logged out.
LEMMA SettleKeeps ==
  ASSUME IInv, NEW b \in Tabs, NEW k \in {"refresh", "playback"}, NEW r,
         call[b][k].at = "rpc", Settled(b, k, r, r), Traded(call[b][k].carried, r),
         UNCHANGED <<cookie, tab, starts>>
  PROVE  IInv'
  <1> DEFINE t == call[b][k].carried
  <1>1. /\ TypeOK /\ ShapeInv /\ LedgerInv /\ UsedInv
        /\ NewInv /\ ClosedInv /\ RefreshInv /\ LosslessInv
        /\ NoFalseAlarm /\ LogoutHolds /\ AccessIsRefreshed
    BY DEF IInv
  <1>2. /\ "refresh" \in Kinds /\ "playback" \in Kinds
        /\ "setCookies" \in Kinds /\ "logout" \in Kinds
        /\ k \in Kinds
    BY DEF Kinds
  <1>3. /\ t \in used /\ Fam(t) \in opened /\ Fam(t) \in Families
        /\ call[b][k].put = Keep /\ call[b][k].reply = None
    <2>1. CallShape(k, call[b][k])
      BY <1>1, <1>2 DEF ShapeInv
    <2>2. t \in used /\ call[b][k].put = Keep /\ call[b][k].reply = None
      BY <1>1, <1>2, <2>1, CallFacts DEF CallShape
    <2> QED
      BY <1>1, <2>2 DEF LedgerInv, TypeOK, Fam
  <1>4. r # Keep
    <2>1. Keep \notin Tokens
      BY DEF Tokens
    <2> QED
      BY <2>1 DEF Traded
  <1>5. /\ call' \in [Tabs -> [Kinds -> Calls]]
        /\ call'[b][k].at = "answered" /\ call'[b][k].carried = t
        /\ call'[b][k].reply = r /\ call'[b][k].put = r
    BY DEF Settled
  <1>6. \A o \in Tabs, j \in Kinds : o # b \/ j # k =>
          \/ call'[o][j] = call[o][j]
          \/ /\ j \in {"refresh", "playback"} /\ call[o][j].at = "waiting"
             /\ call[o][j].carried = t /\ call[o][j].put = Keep
             /\ call'[o][j].at = "answered" /\ call'[o][j].carried = t
             /\ call'[o][j].reply = r /\ call'[o][j].put = Keep
    BY <1>1, CallFacts DEF Settled
  <1>7. UNCHANGED <<cookie, tab, starts>>
    OBVIOUS
  <1> HIDE DEF Calls, Memory
  <1>8. TypeOK'
    <2>1. \A o \in Tabs : call'[o]["refresh"].at # "none" <=> call[o]["refresh"].at # "none"
      BY <1>2, <1>5, <1>6
    <2> QED
      BY <1>1, <1>5, <1>7, <2>1 DEF TypeOK, Traded, Pending
  <1>9. ShapeInv'
    <2>0. r \in Opt(Tokens) /\ (r # None => r[2] > 1)
      BY DEF Traded, Opt
    <2>1. CallShape(k, call'[b][k])
      BY <1>2, <1>3, <1>5, <2>0, <1>1 DEF CallShape, ShapeInv, Opt
    <2>2. \A o \in Tabs, j \in Kinds : o # b \/ j # k => CallShape(j, call'[o][j])
      BY <1>1, <1>6, <2>0 DEF CallShape, ShapeInv, Opt
    <2> QED
      BY <1>1, <1>7, <2>1, <2>2 DEF ShapeInv, CallShape
  <1>10. UsedInv' /\ LedgerInv'
    <2>1. CallsKnown'
      BY <1>1, <1>2, <1>5, <1>6 DEF UsedInv, CallsKnown, Opt, Traded
    <2>2. TabsKnown' /\ cookie' \in Opt(used')
      BY <1>1, <1>7 DEF UsedInv, TabsKnown, Opt, Traded
    <2> QED
      BY <2>1, <2>2 DEF UsedInv, Opt, Traded
  <1>11. NewInv'
    <2> SUFFICES ASSUME NEW o \in Tabs, call'[o]["setCookies"].at # "none"
                 PROVE  \E f : /\ Fam(call'[o]["setCookies"].reply) = f /\ Unseen(o, f)'
                               /\ live'[f] \in {call'[o]["setCookies"].reply, None}
      BY DEF NewInv, Unseen, Fam
    <2>1. call'[o]["setCookies"] = call[o]["setCookies"]
      BY <1>2, <1>6
    <2>2. PICK f : /\ Fam(call[o]["setCookies"].reply) = f /\ Unseen(o, f) /\ f \in Families
                   /\ live[f] \in {call[o]["setCookies"].reply, None} /\ f # None
      <3>1. call[o]["setCookies"].reply \in Families \X {1}
        BY <1>1, <1>2, <2>1 DEF ShapeInv, CallShape
      <3> QED
        BY <1>1, <2>1, <3>1 DEF NewInv, Fam
    <2>3. Fam(t) # f /\ (r # None => Fam(r) # f)
      <3>1. t # None
        BY <1>1, <1>2 DEF ShapeInv, CallShape
      <3> QED
        BY <1>2, <2>2, <3>1 DEF Unseen, Traded
    <2>4. \A p \in Tabs, j \in Kinds :
            /\ call'[p][j].carried # None => Fam(call'[p][j].carried) # f
            /\ j = "logout" => call'[p][j].reply # f
            /\ (p # o \/ j # "setCookies") /\ j # "logout" /\ call'[p][j].reply # None
                 => Fam(call'[p][j].reply) # f
      BY <1>5, <1>6, <2>2, <2>3 DEF Unseen
    <2>5. Unseen(o, f)'
      BY <1>7, <2>2, <2>4 DEF Unseen, Fam
    <2>6. live'[f] = live[f]
      BY <2>2, <2>3 DEF Traded
    <2> QED
      BY <2>1, <2>2, <2>5, <2>6
  <1>12. ClosedInv'
    <2>1. \A o \in Tabs : call'[o]["logout"].reply = call[o]["logout"].reply
      BY <1>2, <1>5, <1>6
    <2>2. \A f \in Families : live[f] = None => live'[f] = None
      BY <1>3 DEF Traded
    <2>3. \A o \in Tabs : /\ call[o]["logout"].reply # None => call[o]["logout"].reply \in Families
                          /\ tab[o].out \subseteq Families
      BY <1>1, <1>2, CallFacts DEF TypeOK, UsedInv, TabsKnown
    <2> QED
      BY <1>1, <1>7, <2>1, <2>2, <2>3 DEF ClosedInv
  <1>13. RefreshInv'
    <2> SUFFICES ASSUME NEW o \in Tabs, call'[o]["refresh"].reply # None
                 PROVE  /\ call'[o]["refresh"].reply # tab[o].access
                        /\ Fam(call'[o]["refresh"].reply) \notin tab[o].out
      BY <1>7 DEF RefreshInv, Fam
    <2>1. CASE call'[o]["refresh"].reply = call[o]["refresh"].reply
      BY <1>1, <2>1 DEF RefreshInv
    <2>2. CASE call'[o]["refresh"].reply = r
      <3>1. r # None /\ r \notin used /\ Fam(r) = Fam(t) /\ live[Fam(t)] # None
        BY <1>3, <2>2, <1>1 DEF Traded, TypeOK, Tokens
      <3>2. tab[o].access \in Opt(used) /\ Fam(t) \notin tab[o].out
        BY <1>1, <3>1 DEF UsedInv, TabsKnown, ClosedInv
      <3> QED
        BY <2>2, <3>1, <3>2 DEF Opt
    <2> QED
      BY <1>2, <1>5, <1>6, <2>1, <2>2
  <1>14. LosslessInv'
    <2> SUFFICES ASSUME lost' = 0 PROVE (BringInv /\ CookieInv /\ CarryInv /\ QuietInv)'
      BY DEF LosslessInv
    <2>1. BringInv /\ CookieInv /\ CarryInv /\ QuietInv
      BY <1>1 DEF LosslessInv, Traded
    <2>2. \A u \in used : Current(u) => Current(u)' \/ (u = t /\ r # None)
      <3> SUFFICES ASSUME NEW u \in used, Current(u)
                   PROVE  live'[Fam(u)] \in {u, None} \/ (u = t /\ r # None)
        BY DEF Current, Fam
      <3>1. Fam(u) \in Families /\ u # None /\ t # None
        BY <1>1, <1>3 DEF LedgerInv, TypeOK, Tokens
      <3> QED
        BY <3>1 DEF Current, Traded
    <2>3. BringInv'
      <3> SUFFICES ASSUME NEW o \in Tabs, NEW j \in Kinds, call'[o][j].put \notin {Keep, None}
                   PROVE  \E u : u = call'[o][j].put /\ Alone(o, j, u)'
        BY DEF BringInv, Alone, Current, Fam
      <3>1. CASE o = b /\ j = k
        <4>1. /\ call'[o][j].put = r /\ r # None /\ r \notin used
              /\ live'[Fam(r)] = r
          BY <1>5, <3>1 DEF Traded
        <4>2. cookie # r
          BY <1>1, <4>1 DEF UsedInv, Opt
        <4>3. \A p \in Tabs, i \in Kinds : call[p][i].carried # r /\ call[p][i].put # r
          BY <1>1, <1>4, <4>1, CallFacts
        <4>4. \A p \in Tabs, i \in Kinds : /\ call'[p][i].carried # r
                                           /\ p # o \/ i # j => call'[p][i].put # r
          BY <1>3, <1>4, <1>5, <1>6, <3>1, <4>1, <4>3
        <4>5. Alone(o, j, r)'
          BY <1>7, <4>1, <4>2, <4>4 DEF Alone, Current, Fam
        <4> QED
          BY <4>1, <4>5
      <3>2. CASE o # b \/ j # k
        <4>1. call'[o][j].put = call[o][j].put
          BY <1>6, <3>2
        <4>2. PICK u : u = call[o][j].put /\ u \in used /\ Alone(o, j, u) /\ u \notin {Keep, None}
          BY <1>1, <2>1, <4>1, CallFacts DEF BringInv
        <4>3. u # t /\ u # r
          <5>1. u # t
            <6>1. \A p \in Tabs, i \in Kinds : call[p][i].carried # u
              BY ONLY <4>2 DEF Alone
            <6> QED
              BY <1>2, <6>1
          <5>2. u # r
            BY <4>2 DEF Traded
          <5> QED
            BY <5>1, <5>2
        <4>4. \A p \in Tabs, i \in Kinds : /\ call'[p][i].carried # u
                                           /\ p # o \/ i # j => call'[p][i].put # u
          BY <1>5, <1>6, <4>2, <4>3 DEF Alone
        <4>5. Current(u)' /\ cookie # u
          BY <2>2, <4>2, <4>3 DEF Alone
        <4>6. Alone(o, j, u)'
          BY <1>7, <4>4, <4>5 DEF Alone, Current, Fam
        <4> QED
          BY <4>1, <4>2, <4>6
      <3> QED
        BY <3>1, <3>2
    <2>4. CookieInv'
      <3> SUFFICES ASSUME cookie # None
                   PROVE  live'[Fam(cookie)] \in {cookie, None} \/ \E o \in Tabs, j \in Kinds :
                            call'[o][j].carried = cookie /\ call'[o][j].put # Keep
        BY <1>7 DEF CookieInv, Current, Fam
      <3>1. cookie \in used
        BY <1>1 DEF UsedInv, Opt
      <3>2. CASE Current(cookie)
        <4>1. Current(cookie) => live'[Fam(cookie)] \in {cookie, None} \/ (cookie = t /\ r # None)
          BY <2>2, <3>1, <1>7 DEF Current, Fam
        <4> QED
          BY <1>2, <1>4, <1>5, <3>2, <4>1
      <3>3. CASE ~Current(cookie)
        <4>1. PICK o \in Tabs, j \in Kinds : call[o][j].carried = cookie /\ call[o][j].put # Keep
          BY <2>1, <3>3 DEF CookieInv
        <4>2. call'[o][j] = call[o][j]
          BY <1>3, <1>6, <4>1
        <4> QED
          BY <4>1, <4>2
      <3> QED
        BY <3>2, <3>3
    <2>5. CarryInv'
      <3>1. \A o \in Tabs, j \in Kinds : call'[o][j].carried = call[o][j].carried
        BY <1>5, <1>6
      <3>2. \A o \in Tabs, j \in Kinds : call[o][j].carried # None => call[o][j].carried \in used
        BY <1>1, CallFacts
      <3>3. \A u \in used : Current(u) => live'[Fam(u)] \in {u, None} \/ u \in grace'
        BY <2>2 DEF Current, Fam, Traded
      <3>4. grace \subseteq grace'
        BY DEF Traded
      <3> QED
        BY <2>1, <3>1, <3>2, <3>3, <3>4 DEF CarryInv, Current, Fam
    <2>6. QuietInv'
      <3>1. \A o \in Tabs, j \in Kinds : call[o][j].at = "none" => call'[o][j].at = "none"
        BY <1>5, <1>6
      <3> QED
        BY <1>7, <2>1, <3>1 DEF QuietInv
    <2> QED
      BY <2>3, <2>4, <2>5, <2>6
  <1>15. NoFalseAlarm' /\ LogoutHolds' /\ AccessIsRefreshed'
    BY <1>1, <1>7 DEF NoFalseAlarm, LogoutHolds, AccessIsRefreshed, Fam, Traded
  <1> QED
    BY <1>8, <1>9, <1>10, <1>11, <1>12, <1>13, <1>14, <1>15 DEF IInv

\* A token passes to its successor, which nothing has seen.
LEMMA PassFacts ==
  ASSUME TypeOK, LedgerInv, NEW t \in used, Ledger!Pass(Fam(t), t, Successor(t)),
         Successor(t) \in Tokens
  PROVE  LET n == Successor(t)
         IN  /\ live' \in [Families -> Opt(Tokens)] /\ opened' = opened
             /\ used \subseteq used' /\ used' \subseteq Tokens /\ LedgerInv'
             /\ \A f \in Families \ {Fam(t)} : live'[f] = live[f]
             /\ n \in used' /\ n \notin used /\ n # None /\ n[2] > 1 /\ Fam(n) = Fam(t)
             /\ live[Fam(t)] = t /\ live'[Fam(t)] = n
  <1> DEFINE n == Successor(t)
  <1>1. t \in Families \X (1..(MaxStarts + 1)) /\ t \in Tokens /\ Fam(t) \in Families
        /\ Fam(t) \in opened
    BY DEF TypeOK, Tokens, Fam, LedgerInv
  <1>2. n = <<t[1], t[2] + 1>> /\ Fam(n) = Fam(t) /\ n[2] > 1 /\ n # None
    BY <1>1 DEF Successor, Fam
  <1> HIDE DEF n
  <1>3. /\ live[Fam(t)] = t /\ n \notin used /\ live' = [live EXCEPT ![Fam(t)] = n]
        /\ used' = used \cup {n} /\ opened' = opened
    BY DEF Ledger!Pass, n
  <1>4. n \in Tokens
    BY DEF n
  <1>5. live' \in [Families -> Opt(Tokens)] /\ live'[Fam(t)] = n
        /\ \A f \in Families \ {Fam(t)} : live'[f] = live[f]
    BY <1>1, <1>3, <1>4 DEF TypeOK, Opt
  <1>6. LedgerInv'
    <2>1. \A u \in used' : Fam(u) \in opened'
      BY <1>1, <1>2, <1>3 DEF LedgerInv
    <2>2. \A f \in Families : live'[f] # None => live'[f] \in used' /\ Fam(live'[f]) = f
      BY <1>2, <1>3, <1>5 DEF LedgerInv
    <2> QED
      BY <2>1, <2>2 DEF LedgerInv, Fam
  <1> QED
    BY <1>2, <1>3, <1>4, <1>5, <1>6 DEF TypeOK, n

\* Closing families takes their tokens away.
LEMMA CloseFacts ==
  ASSUME TypeOK, LedgerInv, NEW closing, Ledger!Close(closing)
  PROVE  /\ live' \in [Families -> Opt(Tokens)] /\ UNCHANGED <<opened, used>> /\ LedgerInv'
         /\ \A f \in Families : live'[f] = IF f \in closing THEN None ELSE live[f]
  <1>1. /\ live' = [f \in Families |-> IF f \in closing THEN None ELSE live[f]]
        /\ opened' = opened /\ used' = used
    BY DEF Ledger!Close
  <1>2. live' \in [Families -> Opt(Tokens)]
    BY <1>1 DEF TypeOK, Opt
  <1> QED
    BY <1>1, <1>2 DEF LedgerInv, Fam

\* Rotation, refusal and failure trade the token that way; no loss, no alarm.
LEMMA ServeKeeps ==
  ASSUME IInv, NEW b \in Tabs, NEW k \in Kinds,
         Rotate(b, k) \/ Refuse(b, k) \/ RefreshFails(b, k)
  PROVE  IInv'
  <1> DEFINE t == call[b][k].carried
             n == Successor(t)
  <1>1. TypeOK /\ ShapeInv /\ LedgerInv /\ UsedInv /\ LosslessInv
    BY DEF IInv
  <1>2. k \in {"refresh", "playback"} /\ call[b][k].at = "rpc"
    BY DEF Rotate, Refuse, RefreshFails, Calling
  <1>3. t \in used /\ t # None /\ Fam(t) \in Families
    <2>1. t # None
      BY <1>1, <1>2 DEF ShapeInv, CallShape
    <2>2. t \in used
      BY <1>1, <2>1, CallFacts
    <2> QED
      BY <1>1, <2>1, <2>2 DEF TypeOK, Tokens, Fam
  <1>4. None \in Opt(Tokens) /\ None \in Opt(Tokens \cup {Keep})
    BY DEF Opt
  <1>5. /\ grace \subseteq Tokens /\ alarmed \subseteq Families /\ lost \in 0..MaxLost
        /\ used \subseteq Tokens /\ live \in [Families -> Opt(Tokens)]
    BY <1>1 DEF TypeOK
  <1> HIDE DEF t, n
  <1>6. CASE Rotate(b, k)
    <2>1. /\ Ledger!Pass(Fam(t), t, n) /\ n \in Tokens /\ grace' = grace \cup {t}
          /\ Settle(b, k, n, n) /\ UNCHANGED <<alarmed, cookie, tab, starts, lost>>
      BY <1>6 DEF Rotate, t, n
    <2>2. Settled(b, k, n, n)
      BY <1>1, <2>1, SettleFacts DEF Opt
    <2>3. Traded(t, n)
      BY <1>1, <1>3, <1>5, <2>1, PassFacts DEF Traded, n
    <2> QED
      BY <1>2, <2>1, <2>2, <2>3, SettleKeeps DEF t
  <1>7. CASE Refuse(b, k)
    <2> DEFINE alarm == IF t \in grace \/ live[Fam(t)] = None THEN {} ELSE {Fam(t)}
    <2>1. /\ live[Fam(t)] # t /\ Ledger!Close(alarm) /\ alarmed' = alarmed \cup alarm
          /\ Settle(b, k, None, None) /\ UNCHANGED <<grace, cookie, tab, starts, lost>>
      BY <1>7 DEF Refuse, t
    <2>2. Settled(b, k, None, None)
      BY <1>1, <1>4, <2>1, SettleFacts
    <2>3. alarm \subseteq {Fam(t)}
      OBVIOUS
    <2>4. lost = 0 => alarm = {}
      BY <1>1, <1>3, <2>1 DEF LosslessInv, CarryInv, Current, t
    <2>5. /\ live' \in [Families -> Opt(Tokens)] /\ UNCHANGED <<opened, used>> /\ LedgerInv'
          /\ \A f \in Families : live'[f] = IF f \in alarm THEN None ELSE live[f]
      BY <1>1, <2>1, CloseFacts
    <2> HIDE DEF alarm
    <2>6. Traded(t, None)
      BY <1>3, <1>5, <2>1, <2>3, <2>4, <2>5 DEF Traded
    <2> QED
      BY <1>2, <2>1, <2>2, <2>6, SettleKeeps DEF t
  <1>8. CASE RefreshFails(b, k)
    <2>1. /\ \/ Ledger!Pass(Fam(t), t, n) /\ n \in Tokens /\ grace' = grace \cup {t}
             \/ UNCHANGED <<ledger, grace>>
          /\ Settle(b, k, None, None) /\ lost < MaxLost /\ lost' = lost + 1
          /\ UNCHANGED <<alarmed, cookie, tab, starts>>
      BY <1>8 DEF RefreshFails, t, n
    <2>2. Settled(b, k, None, None)
      BY <1>1, <1>4, <2>1, SettleFacts
    <2>3. lost' \in 0..MaxLost /\ lost' # 0
      BY <1>5, <2>1
    <2>4. Traded(t, None)
      <3>1. CASE Ledger!Pass(Fam(t), t, n) /\ n \in Tokens /\ grace' = grace \cup {t}
        BY <1>1, <1>3, <1>5, <2>1, <2>3, <3>1, PassFacts DEF Traded, n
      <3>2. CASE UNCHANGED <<ledger, grace>>
        <4>1. LedgerInv'
          BY <1>1, <3>2 DEF LedgerInv, ledger, Fam
        <4> QED
          BY <1>3, <1>5, <2>1, <2>3, <3>2, <4>1 DEF Traded, ledger
      <3> QED
        BY <2>1, <3>1, <3>2
    <2> QED
      BY <1>2, <2>1, <2>2, <2>4, SettleKeeps DEF t
  <1> QED
    BY <1>6, <1>7, <1>8

\* A logout closes its family for good, or is counted as lost.
LEMMA RevokeKeeps ==
  ASSUME IInv, NEW b \in Tabs, Revoke(b)
  PROVE  IInv'
  <1> DEFINE t == call[b]["logout"].carried
  <1>1. /\ TypeOK /\ ShapeInv /\ LedgerInv /\ UsedInv
        /\ NewInv /\ ClosedInv /\ RefreshInv /\ LosslessInv
        /\ NoFalseAlarm /\ LogoutHolds /\ AccessIsRefreshed
    BY DEF IInv
  <1>2. /\ "refresh" \in Kinds /\ "playback" \in Kinds
        /\ "setCookies" \in Kinds /\ "logout" \in Kinds
    BY DEF Kinds
  <1>3. /\ call[b]["logout"].at = "rpc" /\ t \in used /\ t # None
        /\ Fam(t) \in opened /\ Fam(t) \in Families
    <2>1. call[b]["logout"].at = "rpc" /\ t # None
      BY <1>1, <1>2 DEF Revoke, ShapeInv, CallShape
    <2>2. t \in used
      BY <1>1, <1>2, <2>1, CallFacts
    <2> QED
      BY <1>1, <2>1, <2>2 DEF LedgerInv, TypeOK, Fam
  <1>4. PICK r : /\ r \in {Fam(t), None}
                 /\ call' = [call EXCEPT ![b]["logout"] = Answer(call[b]["logout"], r, None)]
                 /\ \/ Ledger!Close({Fam(t)}) /\ r = Fam(t) /\ UNCHANGED lost
                    \/ UNCHANGED ledger /\ r = None /\ lost < MaxLost /\ lost' = lost + 1
    BY DEF Revoke
  <1>5. UNCHANGED <<grace, alarmed, cookie, tab, starts>>
    BY DEF Revoke
  <1>6. /\ call' \in [Tabs -> [Kinds -> Calls]]
        /\ call'[b]["logout"].at = "answered" /\ call'[b]["logout"].carried = t
        /\ call'[b]["logout"].reply = r /\ call'[b]["logout"].put = None
        /\ \A o \in Tabs, j \in Kinds : o # b \/ j # "logout" => call'[o][j] = call[o][j]
    <2> DEFINE a == Answer(call[b]["logout"], r, None)
    <2>1. call \in [Tabs -> [Kinds -> Calls]] /\ call[b]["logout"] \in Calls
          /\ r \in Opt(Tokens \cup Families) /\ None \in Opt(Tokens \cup {Keep})
      BY <1>1, <1>2, <1>3, <1>4 DEF TypeOK, Opt
    <2>2. AnsweredFrom(call[b]["logout"], a, r, None)
      BY <2>1, AnswerFacts
    <2> HIDE DEF a
    <2>3. Becomes(b, "logout", a)
      BY <1>2, <1>4, <2>1, <2>2, BecomesFacts DEF a, AnsweredFrom
    <2> QED
      BY <2>2, <2>3 DEF Becomes, OthersStay, AnsweredFrom
  <1>7. /\ live' \in [Families -> Opt(Tokens)] /\ opened' = opened /\ used' = used /\ LedgerInv'
        /\ \A f \in Families : live'[f] \in {live[f], None}
        /\ r # None => live'[r] = None /\ r \in opened
    <2>1. CASE Ledger!Close({Fam(t)}) /\ r = Fam(t)
      BY <1>1, <1>3, <2>1, CloseFacts
    <2>2. CASE UNCHANGED ledger /\ r = None
      BY <1>1, <2>2 DEF ledger, TypeOK, LedgerInv, Fam
    <2> QED
      BY <1>4, <2>1, <2>2
  <1>8. lost' \in 0..MaxLost /\ (lost' = 0 => lost = 0)
    <2>1. lost \in 0..MaxLost
      BY <1>1 DEF TypeOK
    <2> QED
      BY <1>4, <2>1
  <1> HIDE DEF Calls, Memory, t
  <1>9. TypeOK'
    <2>1. \A o \in Tabs : call'[o]["refresh"] = call[o]["refresh"]
      BY <1>2, <1>6
    <2> QED
      BY <1>1, <1>5, <1>6, <1>7, <1>8, <2>1 DEF TypeOK, Pending
  <1>10. ShapeInv'
    <2>1. r \in Opt(Families) /\ (r # None => r \in Families)
      BY <1>3, <1>4 DEF Opt
    <2>2. CallShape("logout", call'[b]["logout"])
      BY <1>6, <2>1 DEF CallShape
    <2>3. \A o \in Tabs, j \in Kinds : CallShape(j, call'[o][j])
      BY <1>1, <1>6, <2>2 DEF ShapeInv
    <2> QED
      BY <1>1, <1>5, <2>3 DEF ShapeInv, CallShape
  <1>11. UsedInv'
    <2>1. CallsKnown'
      BY <1>1, <1>2, <1>3, <1>6, <1>7 DEF UsedInv, CallsKnown, Opt
    <2>2. TabsKnown' /\ cookie' \in Opt(used')
      BY <1>1, <1>5, <1>7 DEF UsedInv, TabsKnown, Opt
    <2> QED
      BY <2>1, <2>2 DEF UsedInv, Opt
  <1>12. NewInv'
    <2> SUFFICES ASSUME NEW o \in Tabs, call'[o]["setCookies"].at # "none"
                 PROVE  \E f : /\ Fam(call'[o]["setCookies"].reply) = f /\ Unseen(o, f)'
                               /\ live'[f] \in {call'[o]["setCookies"].reply, None}
      BY DEF NewInv, Unseen, Fam
    <2>1. call'[o]["setCookies"] = call[o]["setCookies"]
      BY <1>2, <1>6
    <2>2. PICK f : /\ Fam(call[o]["setCookies"].reply) = f /\ Unseen(o, f) /\ f \in Families
                   /\ live[f] \in {call[o]["setCookies"].reply, None} /\ f # None
      <3>1. call[o]["setCookies"].reply \in Families \X {1}
        BY <1>1, <1>2, <2>1 DEF ShapeInv, CallShape
      <3> QED
        BY <1>1, <2>1, <3>1 DEF NewInv, Fam
    <2>3. r # f
      BY <1>2, <1>3, <1>4, <2>2 DEF Unseen, t
    <2>4. \A p \in Tabs, j \in Kinds :
            /\ call'[p][j].carried # None => Fam(call'[p][j].carried) # f
            /\ j = "logout" => call'[p][j].reply # f
            /\ (p # o \/ j # "setCookies") /\ j # "logout" /\ call'[p][j].reply # None
                 => Fam(call'[p][j].reply) # f
      BY <1>2, <1>6, <2>2, <2>3 DEF Unseen, t
    <2>5. Unseen(o, f)'
      BY <1>5, <2>2, <2>4 DEF Unseen, Fam
    <2> QED
      BY <1>7, <2>1, <2>2, <2>5
  <1>13. ClosedInv' /\ RefreshInv'
    <2>1. \A o \in Tabs : /\ call'[o]["refresh"] = call[o]["refresh"]
                          /\ o # b => call'[o]["logout"] = call[o]["logout"]
      BY <1>2, <1>6
    <2>2. \A o \in Tabs : /\ call[o]["logout"].reply # None => call[o]["logout"].reply \in Families
                          /\ tab[o].out \subseteq Families
      BY <1>1, <1>2, CallFacts DEF TypeOK, UsedInv, TabsKnown
    <2>3. ClosedInv'
      BY <1>1, <1>5, <1>6, <1>7, <2>1, <2>2 DEF ClosedInv
    <2> QED
      BY <1>1, <1>5, <2>1, <2>3 DEF RefreshInv, Fam
  <1>14. LosslessInv'
    <2> SUFFICES ASSUME lost' = 0 PROVE (BringInv /\ CookieInv /\ CarryInv /\ QuietInv)'
      BY DEF LosslessInv
    <2>1. BringInv /\ CookieInv /\ CarryInv /\ QuietInv
      BY <1>1, <1>8 DEF LosslessInv
    <2>2. \A u \in used : Current(u) => live'[Fam(u)] \in {u, None}
      BY <1>1, <1>7 DEF Current, LedgerInv, TypeOK
    <2>3. BringInv'
      <3> SUFFICES ASSUME NEW o \in Tabs, NEW j \in Kinds, call'[o][j].put \notin {Keep, None}
                   PROVE  \E u : u = call'[o][j].put /\ Alone(o, j, u)'
        BY DEF BringInv, Alone, Current, Fam
      <3>1. call'[o][j] = call[o][j]
        BY <1>6
      <3>2. PICK u : u = call[o][j].put /\ u \in used /\ Alone(o, j, u) /\ u # None
        BY <1>1, <2>1, <3>1, CallFacts DEF BringInv
      <3>3. \A p \in Tabs, i \in Kinds :
              /\ call'[p][i].carried # u
              /\ p # o \/ i # j => call'[p][i].put # u
        BY <1>2, <1>6, <3>2 DEF Alone, t
      <3>4. Alone(o, j, u)'
        BY <1>5, <2>2, <3>2, <3>3 DEF Alone, Current, Fam
      <3> QED
        BY <3>1, <3>2, <3>4
    <2>4. CookieInv'
      <3>1. cookie # None => cookie \in used
        BY <1>1 DEF UsedInv, Opt
      <3>2. \A o \in Tabs, j \in Kinds : /\ call'[o][j].carried = call[o][j].carried
                                         /\ call[o][j].put # Keep => call'[o][j].put # Keep
        BY <1>6 DEF t
      <3> SUFFICES ASSUME cookie # None
                   PROVE  live'[Fam(cookie)] \in {cookie, None} \/ \E o \in Tabs, j \in Kinds :
                            call'[o][j].carried = cookie /\ call'[o][j].put # Keep
        BY <1>5 DEF CookieInv, Current, Fam
      <3>3. CASE Current(cookie)
        BY <2>2, <3>1, <3>3
      <3>4. CASE ~Current(cookie)
        <4>1. PICK o \in Tabs, j \in Kinds : call[o][j].carried = cookie /\ call[o][j].put # Keep
          BY <2>1, <3>4 DEF CookieInv
        <4> QED
          BY <3>2, <4>1
      <3> QED
        BY <3>3, <3>4
    <2>5. CarryInv'
      <3>1. \A o \in Tabs, j \in Kinds : call'[o][j].carried = call[o][j].carried
        BY <1>6 DEF t
      <3>2. \A o \in Tabs, j \in Kinds : call[o][j].carried # None => call[o][j].carried \in used
        BY <1>1, CallFacts
      <3> QED
        BY <1>5, <2>1, <2>2, <3>1, <3>2 DEF CarryInv, Current, Fam
    <2>6. QuietInv'
      <3>1. \A o \in Tabs, j \in Kinds : call[o][j].at = "none" => call'[o][j].at = "none"
        BY <1>3, <1>6
      <3> QED
        BY <1>5, <2>1, <3>1 DEF QuietInv
    <2> QED
      BY <2>3, <2>4, <2>5, <2>6
  <1>15. NoFalseAlarm' /\ LogoutHolds' /\ AccessIsRefreshed'
    BY <1>1, <1>5, <1>8 DEF NoFalseAlarm, LogoutHolds, AccessIsRefreshed, Fam
  <1> QED
    BY <1>7, <1>9, <1>10, <1>11, <1>12, <1>13, <1>14, <1>15 DEF IInv

\* A reply puts its token in the cookie, and renews, or ends, the tab's session.
LEMMA ReceiveKeeps ==
  ASSUME IInv, NEW b \in Tabs, NEW k \in Kinds, Receive(b, k)
  PROVE  IInv'
  <1> DEFINE c == call[b][k]
             m == tab[b]
             n == Resolved(b, k, c.reply)
  <1>1. /\ TypeOK /\ ShapeInv /\ LedgerInv /\ UsedInv
        /\ NewInv /\ ClosedInv /\ RefreshInv /\ LosslessInv
        /\ NoFalseAlarm /\ LogoutHolds /\ AccessIsRefreshed
    BY DEF IInv
  <1>2. /\ "refresh" \in Kinds /\ "playback" \in Kinds
        /\ "setCookies" \in Kinds /\ "logout" \in Kinds
    BY DEF Kinds
  <1>3. /\ c.at = "answered" /\ cookie' = IF c.put = Keep THEN cookie ELSE c.put
        /\ Ends(b, k, n) /\ UNCHANGED <<ledger, grace, alarmed, starts, lost>>
    BY DEF Receive
  <1>4. live' = live /\ opened' = opened /\ used' = used
    BY <1>3 DEF ledger
  <1>5. CallShape(k, c) /\ c \in Calls /\ m \in Memory
    BY <1>1 DEF ShapeInv, TypeOK
  <1>6. /\ k # "logout" => c.reply \in Opt(used) /\ c.reply \in Opt(Tokens)
        /\ k = "logout" => c.reply \in Opt(opened) /\ c.reply \in Opt(Families)
        /\ c.put \in {Keep, None} \cup used
    <2>1. used \subseteq Tokens /\ opened \subseteq Families
      BY <1>1 DEF TypeOK
    <2> QED
      BY <1>1, <2>1, CallFacts DEF Opt
  <1>7. Resumes(m, k, c.reply, n)
    BY <1>1, <1>6, ResolvedFacts DEF TypeOK
  <1> USE DEF Resumes
  <1> HIDE DEF n
  <1>8. Ended(b, k, n)
    BY <1>1, <1>3, <1>7, EndFacts
  <1>9. /\ call' \in [Tabs -> [Kinds -> Calls]] /\ call'[b][k] = NoCall
        /\ \A o \in Tabs, j \in Kinds : o # b \/ j # k => call'[o][j] = call[o][j]
    BY <1>8 DEF Ended, Becomes, OthersStay
  <1>10. /\ tab' \in [Tabs -> Memory] /\ \A o \in Tabs \ {b} : tab'[o] = tab[o]
         /\ tab'[b] = IF m.open THEN n ELSE m
    BY <1>8 DEF Ended
  <1>11. NoCall.at = "none" /\ NoCall.carried = None /\ NoCall.reply = None /\ NoCall.put = Keep
    BY Records
  <1>12. m.open \in BOOLEAN /\ m.refreshing \in BOOLEAN
         /\ (m.open => (m.refreshing <=> call[b]["refresh"].at # "none"))
    BY <1>1, <1>5 DEF Memory, TypeOK, Pending
  <1>13. ~m.open => m = Closed
    BY <1>1 DEF ShapeInv
  <1> HIDE DEF Calls, Memory, NoCall
  <1>14. TypeOK'
    <2>1. cookie' \in Opt(Tokens)
      BY <1>1, <1>3, <1>6 DEF TypeOK, Opt
    <2>2. ASSUME NEW o \in Tabs, tab'[o].open
          PROVE  tab'[o].refreshing <=> call'[o]["refresh"].at # "none"
      <3>1. CASE o # b
        BY <1>1, <1>2, <1>9, <1>10, <2>2, <3>1 DEF TypeOK, Pending
      <3>2. CASE o = b /\ k = "refresh"
        BY <1>7, <1>9, <1>10, <1>11, <1>12, <2>2, <3>2
      <3>3. CASE o = b /\ k # "refresh"
        BY <1>2, <1>7, <1>9, <1>10, <1>12, <2>2, <3>3
      <3> QED
        BY <3>1, <3>2, <3>3
    <2> QED
      BY <1>1, <1>3, <1>4, <1>9, <1>10, <2>1, <2>2 DEF TypeOK, Pending
  <1>15. ShapeInv'
    <2>1. CallShape(k, NoCall)
      BY <1>11 DEF CallShape, Opt, Kinds
    <2>2. \A o \in Tabs, j \in Kinds : CallShape(j, call'[o][j])
      BY <1>1, <1>9, <2>1 DEF ShapeInv
    <2>3. \A o \in Tabs : ~tab'[o].open => tab'[o] = Closed
      BY <1>1, <1>7, <1>10, <1>12, <1>13 DEF ShapeInv
    <2> QED
      BY <2>2, <2>3 DEF ShapeInv, CallShape
  <1>16. UsedInv' /\ LedgerInv'
    <2>1. CallsKnown'
      BY <1>1, <1>4, <1>9, <1>11 DEF UsedInv, CallsKnown, Opt
    <2>2. n.access \in Opt(used) /\ n.out \subseteq opened
      <3>1. m.access \in Opt(used) /\ m.out \subseteq opened
        BY <1>1 DEF UsedInv, TabsKnown
      <3> QED
        BY <1>6, <1>7, <3>1 DEF Opt, Kinds
    <2>3. TabsKnown'
      BY <1>1, <1>4, <1>10, <2>2 DEF UsedInv, TabsKnown, Opt
    <2>4. cookie' \in Opt(used') /\ LedgerInv'
      BY <1>1, <1>3, <1>4, <1>6 DEF UsedInv, LedgerInv, Opt, Fam
    <2> QED
      BY <2>1, <2>3, <2>4 DEF UsedInv, Opt
  <1>17. NewInv'
    <2> SUFFICES ASSUME NEW o \in Tabs, call'[o]["setCookies"].at # "none"
                 PROVE  \E f : /\ Fam(call'[o]["setCookies"].reply) = f /\ Unseen(o, f)'
                               /\ live'[f] \in {call'[o]["setCookies"].reply, None}
      BY DEF NewInv, Unseen, Fam
    <2>1. call'[o]["setCookies"] = call[o]["setCookies"] /\ (o # b \/ k # "setCookies")
      BY <1>2, <1>9, <1>11
    <2>2. PICK f : /\ Fam(call[o]["setCookies"].reply) = f /\ Unseen(o, f) /\ f \in Families
                   /\ live[f] \in {call[o]["setCookies"].reply, None} /\ f # None
      <3>1. call[o]["setCookies"].reply \in Families \X {1}
        BY <1>1, <1>2, <2>1 DEF ShapeInv, CallShape
      <3> QED
        BY <1>1, <2>1, <3>1 DEF NewInv, Fam
    <2>3. /\ k = "logout" => c.reply # f
          /\ k # "logout" /\ c.reply # None => Fam(c.reply) # f
      BY <2>1, <2>2 DEF Unseen
    <2>4. \A p \in Tabs, j \in Kinds :
            /\ call'[p][j].carried # None => Fam(call'[p][j].carried) # f
            /\ j = "logout" => call'[p][j].reply # f
            /\ (p # o \/ j # "setCookies") /\ j # "logout" /\ call'[p][j].reply # None
                 => Fam(call'[p][j].reply) # f
      BY <1>9, <1>11, <2>2 DEF Unseen
    <2>5. cookie' # None => Fam(cookie') # f
      <3>1. c.put \notin {Keep, None} => Fam(c.put) # f
        BY <1>1, <2>3, CallFacts
      <3> QED
        BY <1>3, <2>2, <3>1 DEF Unseen
    <2>6. \A p \in Tabs : f \notin tab'[p].out
      <3>1. f \notin m.out
        BY <2>2 DEF Unseen
      <3>2. f \notin n.out
        BY <1>7, <2>3, <3>1 DEF Kinds
      <3> QED
        BY <1>10, <2>2, <3>1, <3>2 DEF Unseen
    <2>7. Unseen(o, f)'
      BY <2>4, <2>5, <2>6 DEF Unseen, Fam
    <2> QED
      BY <1>4, <2>1, <2>2, <2>7
  <1>18. ClosedInv'
    <2>1. \A f \in n.out : live[f] = None
      <3>1. \A f \in m.out : live[f] = None
        BY <1>1 DEF ClosedInv
      <3>2. k = "logout" /\ c.reply # None => live[c.reply] = None
        BY <1>1 DEF ClosedInv
      <3> QED
        BY <1>7, <3>1, <3>2 DEF Kinds
    <2> QED
      BY <1>1, <1>2, <1>4, <1>9, <1>10, <1>11, <2>1 DEF ClosedInv
  <1>19. RefreshInv'
    <2> SUFFICES ASSUME NEW o \in Tabs, call'[o]["refresh"].reply # None
                 PROVE  /\ call'[o]["refresh"].reply # tab'[o].access
                        /\ Fam(call'[o]["refresh"].reply) \notin tab'[o].out
      BY DEF RefreshInv, Fam
    <2> DEFINE r == call[o]["refresh"].reply
    <2>1. /\ call'[o]["refresh"] = call[o]["refresh"] /\ r # None
          /\ r # tab[o].access /\ Fam(r) \notin tab[o].out
          /\ o # b \/ k # "refresh"
      BY <1>1, <1>2, <1>9, <1>11 DEF RefreshInv
    <2>2. CASE tab'[o] = tab[o]
      BY <2>1, <2>2
    <2>3. CASE o = b /\ m.open /\ tab'[o] = n
      <3>1. CASE k = "playback"
        BY <1>7, <2>1, <2>3, <3>1
      <3>2. CASE k = "setCookies"
        <4>1. c.reply # r
          <5>1. c.reply \in Families \X {1}
            BY <1>3, <1>5, <3>2 DEF CallShape
          <5>2. r[2] > 1
            BY <1>1, <1>2, <2>1 DEF ShapeInv, CallShape
          <5> QED
            BY <5>1, <5>2
        <4> QED
          BY <1>7, <2>1, <2>3, <3>2, <4>1
      <3>3. CASE k = "logout"
        <4>1. m.refreshing
          <5>1. CallShape("refresh", call[o]["refresh"])
            BY <1>1, <1>2 DEF ShapeInv
          <5> QED
            BY <1>12, <2>1, <2>3, <5>1 DEF CallShape
        <4> QED
          BY <1>7, <2>1, <2>3, <3>3, <4>1
      <3> QED
        BY <2>1, <2>3, <3>1, <3>2, <3>3 DEF Kinds
    <2> QED
      BY <1>10, <2>2, <2>3
  <1>20. LosslessInv'
    <2> SUFFICES ASSUME lost = 0 PROVE (BringInv /\ CookieInv /\ CarryInv /\ QuietInv)'
      BY <1>3 DEF LosslessInv
    <2>1. BringInv /\ CookieInv /\ CarryInv /\ QuietInv
      BY <1>1 DEF LosslessInv
    <2>3. BringInv'
      <3> SUFFICES ASSUME NEW o \in Tabs, NEW j \in Kinds, call'[o][j].put \notin {Keep, None}
                   PROVE  \E u : u = call'[o][j].put /\ Alone(o, j, u)'
        BY DEF BringInv, Alone, Current, Fam
      <3>1. call'[o][j] = call[o][j] /\ (o # b \/ j # k)
        BY <1>9, <1>11
      <3>2. PICK u : u = call[o][j].put /\ Alone(o, j, u) /\ u \notin {Keep, None}
        BY <2>1, <3>1 DEF BringInv
      <3>3. \A p \in Tabs, i \in Kinds :
              /\ call'[p][i].carried # u
              /\ p # o \/ i # j => call'[p][i].put # u
        BY <1>9, <1>11, <3>2 DEF Alone
      <3>4. cookie' # u
        BY <1>3, <3>1, <3>2 DEF Alone
      <3>5. Alone(o, j, u)'
        BY <1>4, <3>2, <3>3, <3>4 DEF Alone, Current, Fam
      <3> QED
        BY <3>1, <3>2, <3>5
    <2>4. CookieInv'
      <3>1. CASE c.put = Keep
        <4> SUFFICES ASSUME cookie # None
                     PROVE  Current(cookie) \/ \E o \in Tabs, j \in Kinds :
                              call'[o][j].carried = cookie /\ call'[o][j].put # Keep
          BY <1>3, <1>4, <3>1 DEF CookieInv, Current, Fam
        <4>1. CASE ~Current(cookie)
          <5>1. PICK o \in Tabs, j \in Kinds : call[o][j].carried = cookie /\ call[o][j].put # Keep
            BY <2>1, <4>1 DEF CookieInv
          <5>2. call'[o][j] = call[o][j]
            BY <1>9, <3>1, <5>1
          <5> QED
            BY <5>1, <5>2
        <4> QED
          BY <4>1
      <3>2. CASE c.put # Keep
        <4>1. c.put # None => Current(c.put)
          BY <2>1, <3>2 DEF BringInv, Alone
        <4> QED
          BY <1>3, <1>4, <3>2, <4>1 DEF CookieInv, Current, Fam
      <3> QED
        BY <3>1, <3>2
    <2>5. CarryInv'
      BY <1>3, <1>4, <1>9, <1>11, <2>1 DEF CarryInv, Current, Fam
    <2>6. QuietInv'
      BY <1>7, <1>9, <1>10, <1>11, <2>1 DEF QuietInv
    <2> QED
      BY <2>3, <2>4, <2>5, <2>6
  <1>21. LogoutHolds'
    <2>1. /\ m.access # None => Fam(m.access) \notin m.out
          /\ m.shown \notin m.out /\ None \notin n.out
      BY <1>1, <1>7 DEF LogoutHolds, Memory
    <2>2. /\ n.access # None => Fam(n.access) \notin n.out
          /\ n.shown \notin n.out
      <3>1. CASE k = "refresh"
        BY <1>1, <1>7, <2>1, <3>1 DEF RefreshInv
      <3>2. CASE k = "setCookies"
        BY <1>1, <1>2, <1>3, <1>7, <2>1, <3>2 DEF NewInv, Unseen
      <3>3. CASE k = "playback" \/ k = "logout"
        BY <1>7, <2>1, <3>3
      <3> QED
        BY <3>1, <3>2, <3>3 DEF Kinds
    <2> QED
      BY <1>1, <1>10, <2>1, <2>2 DEF LogoutHolds, Fam
  <1>22. AccessIsRefreshed'
    <2> SUFFICES ASSUME lost = 0, NEW o \in Tabs, tab'[o].access # None
                 PROVE  tab'[o].timer \/ tab'[o].refreshing
      BY <1>3 DEF AccessIsRefreshed
    <2>1. tab[o].access # None => tab[o].timer \/ tab[o].refreshing
      BY <1>1 DEF AccessIsRefreshed
    <2>2. CASE tab'[o] = tab[o]
      BY <2>1, <2>2
    <2>3. CASE o = b /\ tab'[o] = n
      <3>1. CASE k = "refresh"
        BY <1>1, <1>7, <2>3, <3>1 DEF RefreshInv
      <3>2. CASE k = "setCookies"
        BY <1>7, <2>1, <2>3, <3>2
      <3>3. CASE k = "playback" \/ k = "logout"
        BY <1>7, <2>1, <2>3, <3>3
      <3> QED
        BY <3>1, <3>2, <3>3 DEF Kinds
    <2> QED
      BY <1>10, <2>2, <2>3
  <1>23. NoFalseAlarm'
    BY <1>1, <1>3 DEF NoFalseAlarm
  <1> QED
    BY <1>14, <1>15, <1>16, <1>17, <1>18, <1>19, <1>20, <1>21, <1>22, <1>23 DEF IInv

\* Some calls are forgotten, some tabs closed, and grace ends of tokens that no
\* request carries; the service, the cookie and what open tabs know stay.
Forgets ==
  /\ call' \in [Tabs -> [Kinds -> Calls]] /\ tab' \in [Tabs -> Memory]
  /\ \A o \in Tabs, j \in Kinds : call'[o][j] \in {call[o][j], NoCall}
  /\ \A o \in Tabs :
       /\ \/ tab'[o] = Closed
          \/ /\ tab'[o].open = tab[o].open /\ tab'[o].access = tab[o].access
             /\ tab'[o].out = tab[o].out /\ tab'[o].shown = tab[o].shown
       /\ ~tab'[o].open => tab'[o] = Closed
       /\ tab'[o].open => (tab'[o].refreshing <=> call'[o]["refresh"].at # "none")
  /\ UNCHANGED <<live, opened, used, alarmed, cookie, starts>>
  /\ grace' \subseteq grace /\ lost' \in 0..MaxLost
  /\ lost' = 0 =>
       /\ lost = 0
       /\ \A o \in Tabs, j \in Kinds :
            /\ call[o][j].put # Keep => call'[o][j] = call[o][j]
            /\ call[o][j].carried \in grace => call[o][j].carried \in grace'
       /\ \A o \in Tabs :
            /\ ~tab'[o].open => \A j \in Kinds : call'[o][j].at = "none"
            /\ tab'[o].access # None => tab'[o].timer \/ tab'[o].refreshing

\* What is forgotten is needed by nobody, or is counted as lost.
LEMMA ForgetKeeps ==
  ASSUME IInv, Forgets
  PROVE  IInv'
  <1>1. /\ TypeOK /\ ShapeInv /\ LedgerInv /\ UsedInv
        /\ NewInv /\ ClosedInv /\ RefreshInv /\ LosslessInv
        /\ NoFalseAlarm /\ LogoutHolds /\ AccessIsRefreshed
    BY DEF IInv
  <1>2. /\ "refresh" \in Kinds /\ "playback" \in Kinds
        /\ "setCookies" \in Kinds /\ "logout" \in Kinds
    BY DEF Kinds
  <1>3. /\ NoCall.at = "none" /\ NoCall.carried = None /\ NoCall.reply = None /\ NoCall.put = Keep
        /\ Closed.open = FALSE /\ Closed.access = None /\ Closed.shown = None /\ Closed.out = {}
    BY Records
  <1>4. \A o \in Tabs, j \in Kinds : call'[o][j] = call[o][j] \/ call'[o][j] = NoCall
    BY DEF Forgets
  <1>5. \A o \in Tabs :
          /\ tab'[o].access \in {tab[o].access, None} /\ tab'[o].out \subseteq tab[o].out
          /\ \/ tab'[o].shown = None /\ tab'[o].out = {}
             \/ tab'[o].shown = tab[o].shown /\ tab'[o].out = tab[o].out
    BY <1>3 DEF Forgets
  <1>6. /\ live' = live /\ opened' = opened /\ used' = used /\ alarmed' = alarmed
        /\ cookie' = cookie /\ starts' = starts
    BY DEF Forgets
  <1> HIDE DEF Calls, Memory, NoCall, Closed
  <1>7. TypeOK'
    BY <1>1, <1>6 DEF TypeOK, Forgets, Pending
  <1>8. ShapeInv'
    <2>1. \A j \in Kinds : CallShape(j, NoCall)
      BY <1>3 DEF CallShape, Opt, Kinds
    <2>2. \A o \in Tabs, j \in Kinds : CallShape(j, call'[o][j])
      BY <1>1, <1>4, <2>1 DEF ShapeInv
    <2> QED
      BY <2>2 DEF ShapeInv, CallShape, Forgets
  <1>9. UsedInv' /\ LedgerInv'
    <2>1. CallsKnown'
      BY <1>1, <1>3, <1>4, <1>6 DEF UsedInv, CallsKnown, Opt
    <2>2. TabsKnown'
      BY <1>1, <1>5, <1>6 DEF UsedInv, TabsKnown, Opt
    <2>3. cookie' \in Opt(used') /\ LedgerInv'
      BY <1>1, <1>6 DEF UsedInv, LedgerInv, Opt, Fam
    <2> QED
      BY <2>1, <2>2, <2>3 DEF UsedInv, Opt
  <1>10. NewInv'
    <2> SUFFICES ASSUME NEW o \in Tabs, call'[o]["setCookies"].at # "none"
                 PROVE  \E f : /\ Fam(call'[o]["setCookies"].reply) = f /\ Unseen(o, f)'
                               /\ live'[f] \in {call'[o]["setCookies"].reply, None}
      BY DEF NewInv, Unseen, Fam
    <2>1. call'[o]["setCookies"] = call[o]["setCookies"]
      BY <1>2, <1>3, <1>4
    <2>2. PICK f : /\ Fam(call[o]["setCookies"].reply) = f /\ Unseen(o, f) /\ f # None
                   /\ live[f] \in {call[o]["setCookies"].reply, None}
      <3>1. call[o]["setCookies"].reply \in Families \X {1}
        BY <1>1, <1>2, <2>1 DEF ShapeInv, CallShape
      <3> QED
        BY <1>1, <2>1, <3>1 DEF NewInv, Fam
    <2>3. \A p \in Tabs, j \in Kinds :
            /\ call'[p][j].carried # None => Fam(call'[p][j].carried) # f
            /\ j = "logout" => call'[p][j].reply # f
            /\ (p # o \/ j # "setCookies") /\ j # "logout" /\ call'[p][j].reply # None
                 => Fam(call'[p][j].reply) # f
      BY <1>3, <1>4, <2>2 DEF Unseen
    <2>4. Unseen(o, f)'
      BY <1>5, <1>6, <2>2, <2>3 DEF Unseen, Fam
    <2> QED
      BY <1>6, <2>1, <2>2, <2>4
  <1>11. ClosedInv'
    BY <1>1, <1>2, <1>3, <1>4, <1>5, <1>6 DEF ClosedInv
  <1>12. RefreshInv'
    BY <1>1, <1>2, <1>3, <1>4, <1>5 DEF RefreshInv, Fam
  <1>13. LosslessInv'
    <2> SUFFICES ASSUME lost' = 0 PROVE (BringInv /\ CookieInv /\ CarryInv /\ QuietInv)'
      BY DEF LosslessInv
    <2>1. BringInv /\ CookieInv /\ CarryInv /\ QuietInv
      BY <1>1 DEF LosslessInv, Forgets
    <2>2. BringInv'
      <3> SUFFICES ASSUME NEW o \in Tabs, NEW j \in Kinds, call'[o][j].put \notin {Keep, None}
                   PROVE  \E u : u = call'[o][j].put /\ Alone(o, j, u)'
        BY DEF BringInv, Alone, Current, Fam
      <3>1. call'[o][j] = call[o][j]
        BY <1>3, <1>4
      <3>2. PICK u : u = call[o][j].put /\ Alone(o, j, u) /\ u \notin {Keep, None}
        BY <2>1, <3>1 DEF BringInv
      <3>3. \A p \in Tabs, i \in Kinds :
              /\ call'[p][i].carried # u
              /\ p # o \/ i # j => call'[p][i].put # u
        BY <1>3, <1>4, <3>2 DEF Alone
      <3>4. Alone(o, j, u)'
        BY <1>6, <3>2, <3>3 DEF Alone, Current, Fam
      <3> QED
        BY <3>1, <3>2, <3>4
    <2>3. CookieInv'
      <3> SUFFICES ASSUME cookie # None, ~Current(cookie)
                   PROVE  \E o \in Tabs, j \in Kinds :
                            call'[o][j].carried = cookie /\ call'[o][j].put # Keep
        BY <1>6 DEF CookieInv, Current, Fam
      <3>1. PICK o \in Tabs, j \in Kinds : call[o][j].carried = cookie /\ call[o][j].put # Keep
        BY <2>1 DEF CookieInv
      <3>2. call'[o][j] = call[o][j]
        BY <3>1 DEF Forgets
      <3> QED
        BY <3>1, <3>2
    <2>4. CarryInv'
      <3>1. \A o \in Tabs, j \in Kinds :
              /\ call'[o][j].carried \in {call[o][j].carried, None}
              /\ call[o][j].carried \in grace => call[o][j].carried \in grace'
        BY <1>3, <1>4 DEF Forgets
      <3> QED
        BY <1>6, <2>1, <3>1 DEF CarryInv, Current, Fam
    <2>5. QuietInv'
      BY DEF QuietInv, Forgets
    <2> QED
      BY <2>2, <2>3, <2>4, <2>5
  <1>14. NoFalseAlarm' /\ LogoutHolds' /\ AccessIsRefreshed'
    <2>1. NoFalseAlarm' /\ AccessIsRefreshed'
      BY <1>1, <1>6 DEF NoFalseAlarm, AccessIsRefreshed, Forgets
    <2>2. LogoutHolds'
      BY <1>1, <1>5 DEF LogoutHolds, Fam
    <2> QED
      BY <2>1, <2>2
  <1> QED
    BY <1>7, <1>8, <1>9, <1>10, <1>11, <1>12, <1>13, <1>14 DEF IInv

\* Idle timers, tabs that close and messages that get lost are such steps.
LEMMA LossFacts ==
  ASSUME IInv, NEW b \in Tabs,
         \/ TimerFires(b) /\ tab[b].refreshing
         \/ CloseTab(b)
         \/ \E k \in Kinds : Drop(b, k)
  PROVE  Forgets
  <1>1. TypeOK /\ ShapeInv /\ LosslessInv /\ AccessIsRefreshed
    BY DEF IInv
  <1>2. /\ tab \in [Tabs -> Memory] /\ call \in [Tabs -> [Kinds -> Calls]] /\ lost \in 0..MaxLost
        /\ \A o \in Tabs : tab[o].open => (tab[o].refreshing <=> call[o]["refresh"].at # "none")
        /\ "refresh" \in Kinds
    BY <1>1 DEF TypeOK, Pending, Kinds
  <1>3. /\ NoCall.at = "none" /\ NoCall.carried = None /\ NoCall.reply = None /\ NoCall.put = Keep
        /\ Closed.open = FALSE /\ Closed.access = None /\ Closed.shown = None /\ Closed.out = {}
    BY Records
  <1>4. CASE TimerFires(b) /\ tab[b].refreshing
    <2>1. /\ tab' = [tab EXCEPT ![b].timer = FALSE] /\ call' = call
          /\ UNCHANGED <<live, opened, used, grace, alarmed, cookie, starts, lost>>
      BY <1>4 DEF TimerFires, ledger
    <2>2. /\ tab' \in [Tabs -> Memory] /\ \A o \in Tabs \ {b} : tab'[o] = tab[o]
          /\ tab'[b].open = tab[b].open /\ tab'[b].access = tab[b].access
          /\ tab'[b].out = tab[b].out /\ tab'[b].shown = tab[b].shown
          /\ tab'[b].refreshing = tab[b].refreshing
      BY ONLY <1>2, <2>1 DEF Memory
    <2>3. tab[b].open
      BY <1>1, <1>4, Records DEF ShapeInv
    <2> HIDE DEF Calls, Memory
    <2>4. lost = 0 => \A o \in Tabs :
            /\ ~tab'[o].open => \A j \in Kinds : call'[o][j].at = "none"
            /\ tab'[o].access # None => tab'[o].timer \/ tab'[o].refreshing
      BY <1>1, <1>4, <2>1, <2>2, <2>3 DEF LosslessInv, QuietInv, AccessIsRefreshed
    <2> QED
      BY <1>1, <1>2, <1>4, <2>1, <2>2, <2>3, <2>4 DEF Forgets, ShapeInv
  <1>5. CASE CloseTab(b)
    <2>1. /\ call' \in [Tabs -> [Kinds -> Calls]]
          /\ \A o \in Tabs \ {b}, k \in Kinds : call'[o][k] = call[o][k]
          /\ \A k \in Kinds : IF call[b][k].at \in {"none", "queued"} THEN call'[b][k] = NoCall
                              ELSE call'[b][k] = call[b][k]
          /\ tab' \in [Tabs -> Memory] /\ tab'[b] = Closed
          /\ \A o \in Tabs \ {b} : tab'[o] = tab[o]
          /\ tab[b].open /\ lost' \in 0..MaxLost /\ lost' >= lost
          /\ lost' = 0 => \A k \in Kinds : call'[b][k] = NoCall
      BY <1>1, <1>5, CloseFrame
    <2>2. UNCHANGED <<live, opened, used, grace, alarmed, cookie, starts>>
      BY <1>5 DEF CloseTab, ledger
    <2>3. lost' = 0 => lost = 0
      BY <1>2, <2>1
    <2>4. \A j \in Kinds : call[b][j].put # Keep => call[b][j].at = "answered"
      BY <1>1 DEF ShapeInv, CallShape
    <2> HIDE DEF Calls, Memory
    <2>5. lost' = 0 => \A o \in Tabs :
            /\ ~tab'[o].open => \A j \in Kinds : call'[o][j].at = "none"
            /\ tab'[o].access # None => tab'[o].timer \/ tab'[o].refreshing
      BY <1>1, <1>3, <2>1, <2>3 DEF LosslessInv, QuietInv, AccessIsRefreshed
    <2>6. \A o \in Tabs, j \in Kinds : /\ call'[o][j] \in {call[o][j], NoCall}
                                       /\ call[o][j].put # Keep => call'[o][j] = call[o][j]
      BY <2>1, <2>4
    <2>7. \A o \in Tabs :
            /\ tab'[o] = Closed \/ tab'[o] = tab[o]
            /\ ~tab'[o].open => tab'[o] = Closed
            /\ tab'[o].open => (tab'[o].refreshing <=> call'[o]["refresh"].at # "none")
      BY <1>1, <1>2, <1>3, <2>1 DEF ShapeInv
    <2> QED
      BY <2>1, <2>2, <2>3, <2>5, <2>6, <2>7 DEF Forgets
  <1>6. ASSUME NEW k \in Kinds, Drop(b, k) PROVE Forgets
    <2> DEFINE m == Rejected(tab[b], k)
    <2>1. /\ m \in Memory /\ m.open = tab[b].open /\ m.access = tab[b].access
          /\ m.out = tab[b].out /\ m.shown = tab[b].shown
          /\ m.refreshing = (k # "refresh" /\ tab[b].refreshing)
      <3>1. tab[b] \in Memory
        BY <1>2
      <3> QED
        BY <3>1 DEF Rejected, Memory
    <2> HIDE DEF m
    <2>2. /\ call[b][k].at \in {"queued", "answered"} /\ Ends(b, k, m)
          /\ UNCHANGED <<live, opened, used, grace, alarmed, cookie, starts>>
          /\ IF tab[b].open THEN lost < MaxLost /\ lost' = lost + 1 ELSE lost' = lost
      BY <1>6 DEF Drop, ledger, m
    <2>3. lost' \in 0..MaxLost /\ lost' # 0
      <3>1. lost = 0 => tab[b].open
        BY <1>1, <2>2 DEF LosslessInv, QuietInv
      <3> QED
        BY <1>2, <2>2, <3>1
    <2>4. Ended(b, k, m)
      BY <1>1, <2>1, <2>2, EndFacts
    <2> HIDE DEF Calls, Memory
    <2>5. /\ call' \in [Tabs -> [Kinds -> Calls]] /\ call'[b][k] = NoCall
          /\ \A o \in Tabs, j \in Kinds : o # b \/ j # k => call'[o][j] = call[o][j]
          /\ tab' \in [Tabs -> Memory] /\ \A o \in Tabs \ {b} : tab'[o] = tab[o]
          /\ tab'[b] = IF tab[b].open THEN m ELSE tab[b]
      BY <2>4 DEF Ended, Becomes, OthersStay
    <2>6. \A o \in Tabs, j \in Kinds : call'[o][j] \in {call[o][j], NoCall}
      BY <2>5
    <2>7. ASSUME NEW o \in Tabs
          PROVE  /\ /\ tab'[o].open = tab[o].open /\ tab'[o].access = tab[o].access
                    /\ tab'[o].out = tab[o].out /\ tab'[o].shown = tab[o].shown
                 /\ ~tab'[o].open => tab'[o] = Closed
                 /\ tab'[o].open => (tab'[o].refreshing <=> call'[o]["refresh"].at # "none")
      <3>1. CASE o # b
        BY <1>1, <1>2, <2>5, <3>1 DEF ShapeInv
      <3>2. CASE o = b /\ ~tab[b].open
        BY <1>1, <2>5, <3>2 DEF ShapeInv
      <3>3. CASE o = b /\ tab[b].open
        <4>1. m.refreshing <=> call'[b]["refresh"].at # "none"
          BY <1>2, <1>3, <2>1, <2>5, <3>3
        <4> QED
          BY <2>1, <2>5, <3>3, <4>1
      <3> QED
        BY <3>1, <3>2, <3>3
    <2> QED
      BY <2>2, <2>3, <2>5, <2>6, <2>7 DEF Forgets
  <1> QED
    BY <1>4, <1>5, <1>6

\* So is the end of a grace period.
LEMMA GraceFacts ==
  ASSUME IInv, NEW t \in Tokens, GraceEnds(t)
  PROVE  Forgets
  <1>1. TypeOK /\ ShapeInv /\ LosslessInv /\ AccessIsRefreshed
    BY DEF IInv
  <1>2. /\ grace' = grace \ {t} /\ ~Carrying(t)
        /\ UNCHANGED <<live, opened, used, alarmed, cookie, tab, call, starts, lost>>
    BY DEF GraceEnds, ledger
  <1>3. ASSUME NEW o \in Tabs, NEW j \in Kinds, call[o][j].carried \in grace
        PROVE  call[o][j].carried \in grace'
    <2>1. call[o][j].carried # None
      BY <1>1, <1>3 DEF TypeOK, Tokens
    <2>2. j \in UnderWay(o)
      BY <1>1, <2>1 DEF ShapeInv, CallShape, UnderWay
    <2> QED
      BY <1>2, <1>3, <2>2 DEF Carrying
  <1> HIDE DEF Calls, Memory
  <1>4. lost = 0 => \A o \in Tabs :
          /\ ~tab[o].open => \A j \in Kinds : call[o][j].at = "none"
          /\ tab[o].access # None => tab[o].timer \/ tab[o].refreshing
    BY <1>1 DEF LosslessInv, QuietInv, AccessIsRefreshed
  <1> QED
    BY <1>1, <1>2, <1>3, <1>4 DEF Forgets, TypeOK, ShapeInv, Pending

\* Timers, pages, playbacks, logouts and sign-ins.
LEMMA UserKeeps ==
  ASSUME IInv, NEW b \in Tabs,
         \/ TimerFires(b) /\ ~tab[b].refreshing
         \/ Load(b) \/ Playback(b) \/ Logout(b)
         \/ \E f \in Families : Login(b, f) \/ Register(b, f)
  PROVE  IInv'
  <1>1. TypeOK /\ ShapeInv /\ LedgerInv
    BY DEF IInv
  <1>2. CASE (TimerFires(b) /\ ~tab[b].refreshing) \/ Load(b) \/ Playback(b) \/ Logout(b)
    <2>1. Grows
      BY <1>1, <1>2, UserFrame, GrowsFacts
    <2>2. PICK k \in Kinds \ {"setCookies"} : Begins(b, k, None)
      BY <1>1, <1>2, UserFrame
    <2> QED
      BY <2>1, <2>2, BeginKeeps
  <1>3. ASSUME NEW f \in Families, Login(b, f) \/ Register(b, f) PROVE IInv'
    <2>1. Authenticated(b, f)
      BY <1>3 DEF Login, Register
    <2>2. Begins(b, "setCookies", <<f, 1>>) /\ Ledger!Open(f, <<f, 1>>)
      BY <1>1, <2>1, SignInFrame
    <2>3. /\ Grows /\ f \notin opened /\ f \in opened'
          /\ <<f, 1>> \in used' /\ live'[f] = <<f, 1>>
      BY <1>1, <2>2, GrowsFacts
    <2>4. "setCookies" \in Kinds
      BY DEF Kinds
    <2> QED
      BY <2>2, <2>3, <2>4, BeginKeeps
  <1> QED
    BY <1>2, <1>3

\* The invariant holds at the start.
LEMMA InitKeeps == Init => IInv
  <1> SUFFICES ASSUME Init PROVE IInv
    OBVIOUS
  <1>1. /\ live = [f \in Families |-> None] /\ opened = {} /\ used = {}
        /\ grace = {} /\ alarmed = {} /\ cookie = None /\ starts = 0 /\ lost = 0
        /\ tab \in [Tabs -> {Closed, SignedOut}]
        /\ call = [b \in Tabs |-> [k \in Kinds |-> NoCall]]
    BY DEF Init, Ledger!LedgerInit
  <1>2. \A b \in Tabs, k \in Kinds : call[b][k] = NoCall
    BY <1>1
  <1>3. /\ NoCall \in Calls
        /\ NoCall.at = "none" /\ NoCall.carried = None /\ NoCall.reply = None /\ NoCall.put = Keep
    BY Records
  <1>4. \A b \in Tabs : /\ tab[b] \in Memory /\ tab[b].access = None /\ tab[b].out = {}
                        /\ tab[b].shown = None /\ tab[b].refreshing = FALSE
                        /\ ~tab[b].open => tab[b] = Closed
    <2>1. /\ SignedOut \in Memory /\ SignedOut.access = None /\ SignedOut.out = {}
          /\ SignedOut.shown = None /\ SignedOut.refreshing = FALSE /\ SignedOut.open
      BY DEF SignedOut, Closed, Memory, Opt
    <2> QED
      BY <1>1, <2>1, Records
  <1> HIDE DEF Calls, Memory, NoCall
  <1>5. TypeOK
    <2>1. call \in [Tabs -> [Kinds -> Calls]]
      BY <1>1, <1>3
    <2>2. tab \in [Tabs -> Memory]
      BY <1>1, <1>4
    <2>3. "refresh" \in Kinds
      BY DEF Kinds
    <2> QED
      BY <1>1, <1>2, <1>3, <1>4, <2>1, <2>2, <2>3 DEF TypeOK, Opt, Pending
  <1>6. ShapeInv
    <2>1. \A k \in Kinds : CallShape(k, NoCall)
      BY <1>3 DEF CallShape, Opt, Kinds
    <2> QED
      BY <1>2, <1>4, <2>1 DEF ShapeInv
  <1>7. LedgerInv /\ UsedInv
    <2>1. CallsKnown
      BY <1>2, <1>3 DEF CallsKnown, Opt
    <2>2. TabsKnown
      BY <1>4 DEF TabsKnown, Opt
    <2>3. LedgerInv
      BY <1>1 DEF LedgerInv
    <2> QED
      BY <1>1, <2>1, <2>2, <2>3 DEF UsedInv, Opt
  <1>8. NewInv /\ ClosedInv /\ RefreshInv
    BY <1>2, <1>3, <1>4 DEF NewInv, ClosedInv, RefreshInv, Kinds
  <1>9. LosslessInv
    BY <1>1, <1>2, <1>3 DEF LosslessInv, BringInv, CookieInv, CarryInv, QuietInv
  <1>10. NoFalseAlarm /\ LogoutHolds /\ AccessIsRefreshed
    BY <1>1, <1>4 DEF NoFalseAlarm, LogoutHolds, AccessIsRefreshed
  <1> QED
    BY <1>5, <1>6, <1>7, <1>8, <1>9, <1>10 DEF IInv

\* Every step keeps it.
LEMMA NextKeeps == IInv /\ [Next]_vars => IInv'
  <1> SUFFICES ASSUME IInv, [Next]_vars PROVE IInv'
    OBVIOUS
  <1>1. ASSUME NEW b \in Tabs, TimerFires(b) PROVE IInv'
    BY <1>1, UserKeeps, LossFacts, ForgetKeeps
  <1>2. ASSUME NEW b \in Tabs, Load(b) \/ Playback(b) \/ Logout(b) PROVE IInv'
    BY <1>2, UserKeeps
  <1>3. ASSUME NEW b \in Tabs, NEW f \in Families, Login(b, f) \/ Register(b, f) PROVE IInv'
    BY <1>3, UserKeeps
  <1>4. ASSUME NEW b \in Tabs, CloseTab(b) PROVE IInv'
    BY <1>4, LossFacts, ForgetKeeps
  <1>5. ASSUME NEW b \in Tabs, NEW k \in Kinds, Send(b, k) PROVE IInv'
    BY <1>5, SendKeeps
  <1>6. ASSUME NEW b \in Tabs, NEW k \in Kinds, Serve(b, k) PROVE IInv'
    BY <1>6, ServeKeeps, RevokeKeeps DEF Serve
  <1>7. ASSUME NEW b \in Tabs, NEW k \in Kinds, Receive(b, k) PROVE IInv'
    BY <1>7, ReceiveKeeps
  <1>8. ASSUME NEW b \in Tabs, NEW k \in Kinds, Drop(b, k) PROVE IInv'
    BY <1>8, LossFacts, ForgetKeeps
  <1>9. ASSUME NEW t \in Tokens, GraceEnds(t) PROVE IInv'
    BY <1>9, GraceFacts, ForgetKeeps
  <1>10. CASE UNCHANGED vars
    <2>1. UNCHANGED <<live, opened, used, grace, alarmed, cookie, tab, call, starts, lost>>
      BY <1>10 DEF vars
    <2>2. TypeOK /\ ShapeInv /\ LosslessInv /\ AccessIsRefreshed
      BY DEF IInv
    <2> HIDE DEF Calls, Memory
    <2>3. Forgets
      BY <2>1, <2>2 DEF Forgets, TypeOK, ShapeInv, Pending, LosslessInv, QuietInv, AccessIsRefreshed
    <2> QED
      BY <2>3, ForgetKeeps
  <1> QED
    BY <1>1, <1>2, <1>3, <1>4, <1>5, <1>6, <1>7, <1>8, <1>9, <1>10 DEF Next

-----------------------------------------------------------------------------
(* The theorems.                                                           *)

\* What a tab, the cookie and the calls on their way know of each other holds
\* in every state.
THEOREM Inductive == Spec => []IInv
  BY InitKeeps, NextKeeps, PTL DEF Spec

\* The types, and that a tab refreshes exactly while its action is pending.
THEOREM TypeCorrect == Spec => []TypeOK
  <1>1. IInv => TypeOK
    BY DEF IInv
  <1> QED
    BY <1>1, Inductive, PTL

\* Without losses the reuse alarm never ends the session of an honest browser.
THEOREM NoAlarm == Spec => []NoFalseAlarm
  <1>1. IInv => NoFalseAlarm
    BY DEF IInv
  <1> QED
    BY <1>1, Inductive, PTL

\* A session whose logout a tab saw end does not come back to it.
THEOREM LogoutIsFinal == Spec => []LogoutHolds
  <1>1. IInv => LogoutHolds
    BY DEF IInv
  <1> QED
    BY <1>1, Inductive, PTL

\* Without losses a tab that holds an access token will renew it.
THEOREM AccessRenewed == Spec => []AccessIsRefreshed
  <1>1. IInv => AccessIsRefreshed
    BY DEF IInv
  <1> QED
    BY <1>1, Inductive, PTL
=============================================================================
