------------------------------- MODULE MCWebApp -------------------------------
EXTENDS WebApp

CONSTANTS v1, v2, b1, o1, o2, j1, t0, t1

MCKeyOf    == (v1 :> o1) @@ (v2 :> o2) @@ (b1 :> o2)
MCSize     == [o \in {o1, o2} |-> 1]
MCRows     == <<Row(v1, t1)>>
MCBuiltIn  == <<b1>>
MCObjectOf == [j \in {j1} |-> o1]

Plan(go, listen, tidy, edit, create, speak) ==
  [go |-> go, listen |-> listen, tidy |-> tidy, edit |-> edit, form |-> create, speak |-> speak]

MCBudgets == {Plan(2, 4, 0, 0, 0, 0), Plan(1, 2, 2, 0, 0, 0),
              Plan(2, 0, 0, 6, 0, 0), Plan(1, 1, 0, 3, 0, 0), Plan(2, 0, 0, 0, 6, 0),
              Plan(2, 0, 0, 2, 0, 2), Plan(4, 0, 0, 0, 0, 3)}
=============================================================================
