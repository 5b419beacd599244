------------------------------ MODULE MCPortSpeed ------------------------------
(* Two rates above the boot speed: 1, and 2 above DEFAULT_CEILING (measured before its commit,   *)
(* with a longer verify_ms).  A tick is a second.                                                *)
EXTENDS PortSpeed

MCRates == {1, 2}
MCVerifyMs == [r \in MCRates |-> IF r = 1 THEN 2 ELSE 6]
MCVerified == {2}
MCPlans == {<<2, 1>>}
MCLines == {[r \in MCRates |-> "all"], [r \in MCRates |-> IF r = 1 THEN "all" ELSE "small"]}
MCKinds == {"work", "large", "end", "open"}
MCLoads == {[calls |-> 3, opens |-> 1, faults |-> 1, events |-> 1],
            [calls |-> 2, opens |-> 0, faults |-> 4, events |-> 0],
            [calls |-> 4, opens |-> 0, faults |-> 0, events |-> 0]}
=============================================================================
