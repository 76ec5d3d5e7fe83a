----------------------- MODULE MCWindowsDumpRequest ------------------------
EXTENDS WindowsDumpRequest, TLC
CONSTANTS c1, c2

Plan(n1, n2, who) == [asks |-> (c1 :> n1 @@ c2 :> n2), mortal |-> who]

\* One client asks twice and may die while the other is registered; both ask,
\* for the mutex; both may die, for the count of work items.
MCPlans == {Plan(2, 0, {c1}), Plan(1, 1, {}), Plan(0, 0, {c1, c2})}
=============================================================================
