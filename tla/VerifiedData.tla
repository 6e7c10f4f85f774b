----------------------------- MODULE VerifiedData -----------------------------
(***************************************************************************)
(* What the supervised collection promises of the data it shows, with no   *)
(* runs, repairs or locks: the verified rows and the contract of each      *)
(* collector change only in the few ways below, in memory and, unless a    *)
(* write fails, in the file.                                               *)
(***************************************************************************)
CONSTANTS
    Collectors,
    Pages,                      \* the rows a run may return
    NoRows, NoContract,
    Satisfies(_, _),            \* rows satisfy the contract in force, or the minimum without one
    KeepsEnough(_, _, _),       \* rows that may replace earlier ones under a contract
    LearnedFrom(_)              \* the contract rows teach

VARIABLES shown, saved          \* the data in memory and in the file

Nothing == [rows |-> [c \in Collectors |-> NoRows],
            contracts |-> [c \in Collectors |-> NoContract]]

Init == shown = Nothing /\ saved = Nothing

\* The file holds all of what is shown, or the write threw.
Written == saved' \in {shown', saved}

\* New rows replace the verified ones if they satisfy the contract and have not lost too much.
Replace(c) ==
    /\ \E rows \in Pages :
          /\ shown' = [shown EXCEPT !.rows[c] = rows]
          /\ Satisfies(rows, shown.contracts[c])
          /\ shown.rows[c] # NoRows => KeepsEnough(shown.rows[c], rows, shown.contracts[c])
    /\ Written

\* A contract is learned once, from the rows that are shown.
Teach(c) ==
    /\ shown.contracts[c] = NoContract
    /\ shown.rows[c] # NoRows
    /\ shown' = [shown EXCEPT !.contracts[c] = LearnedFrom(shown.rows[c])]
    /\ Written

\* Something else is written, and with it what an earlier write has failed to keep.
Keep == UNCHANGED shown /\ Written

Reload == shown' = saved /\ UNCHANGED saved

Next == Keep \/ Reload \/ \E c \in Collectors : Replace(c) \/ Teach(c)

Spec == Init /\ [][Next]_<<shown, saved>>
=============================================================================
