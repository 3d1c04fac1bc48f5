--------------------------- MODULE MCAcmeIssuance ---------------------------
(* AcmeIssuance on a small instance: two runs, one of which also asks for   *)
(* the wildcard of the name they share, and three registration commands.    *)
EXTENDS AcmeIssuance

MCName == {"x", "*.x", "y"}

MCRecordName == [n \in MCName |-> IF n = "*.x" THEN "x" ELSE n]

MCRequest == [r \in Run |-> IF r = "r1" THEN {"x", "*.x"} ELSE {"x"}]

MCToken == {"tx", "tw"}

MCNameOf == [t \in MCToken |-> IF t = "tw" THEN "*.x" ELSE "x"]

First == [terms |-> "t1", eab |-> FALSE, verbatim |-> TRUE]

MCMade == [by |-> "o2", claims |-> "t1", consent |-> "t1", served |-> {"t1"},
           contact |-> "c", eab |-> FALSE]

MCDirectory == {First, [terms |-> "t2", eab |-> FALSE, verbatim |-> FALSE],
                [terms |-> "none", eab |-> TRUE, verbatim |-> TRUE]}

=============================================================================
