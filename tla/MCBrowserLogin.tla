--------------------------- MODULE MCBrowserLogin ---------------------------
\* Two tabs, one login of another browser, and two of its own.
EXTENDS BrowserLogin, Sequences, TLC

CONSTANTS c1, c2, c3   \* the calls

\* Calls are alike, so they begin in order, and so do the logins.
Order == <<c1, c2, c3>>
InOrder ==
    \A i, j \in 1..Len(Order) :
        i < j /\ Order[i] \in Calls /\ Order[j] \in Calls
              /\ call'[Order[i]].at = "idle" => call'[Order[j]].at = "idle"
LoginsInOrder == code'["mine"] = "none" => code'["again"] = "none"

\* At most two calls are at work at a time.
Pairs == Cardinality({c \in Calls : Busy(c)}) <= 2

=============================================================================
