---------------------------- MODULE SessionLedger ----------------------------
(***************************************************************************)
(* What the refresh-token store promises, without Redis: a family is       *)
(* opened once, has at most one live token at a time, passes from a token  *)
(* to a token never seen before, and once closed stays closed.             *)
(***************************************************************************)
CONSTANTS Families, Tokens, None

VARIABLES
  live,    \* live[f]: the family's token, None before it opens and once closed
  opened,  \* families opened so far
  used     \* tokens that are or were live in some family

ledgerVars == <<live, opened, used>>

LedgerInit ==
  /\ live = [f \in Families |-> None]
  /\ opened = {}
  /\ used = {}

Open(f, t) ==
  /\ f \notin opened /\ t \notin used
  /\ live' = [live EXCEPT ![f] = t]
  /\ opened' = opened \cup {f}
  /\ used' = used \cup {t}

\* The holder of the live token, and nobody else, trades it for a new one.
Pass(f, t, n) ==
  /\ live[f] = t /\ n \notin used
  /\ live' = [live EXCEPT ![f] = n]
  /\ used' = used \cup {n}
  /\ UNCHANGED opened

\* Revocation of one family, or expiry of several at once.
Close(closing) ==
  /\ live' = [f \in Families |-> IF f \in closing THEN None ELSE live[f]]
  /\ UNCHANGED <<opened, used>>

LedgerNext ==
  \/ \E f \in Families, t \in Tokens :
       Open(f, t) \/ \E n \in Tokens : Pass(f, t, n)
  \/ \E closing \in SUBSET Families : Close(closing)

LedgerSpec == LedgerInit /\ [][LedgerNext]_ledgerVars
=============================================================================
