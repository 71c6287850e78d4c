--------------------------- MODULE MCStreamHistory ---------------------------
(* Small instances of StreamHistory: which inputs each run allows.           *)
EXTENDS StreamHistory

Of(counts) == counts @@ [k \in Inputs |-> 0]

RetryBudget == Of([turn |-> 1, queued |-> 1, think |-> 1, toolUse |-> 1,
                   announced |-> 1, retry |-> 1, noticeMid |-> 1])
CancelBudget == Of([turn |-> 1, text |-> 1, toolUse |-> 2, parallel |-> 2, esc |-> 1,
                    late |-> 1])
LoopBudget == Of([turn |-> 1, text |-> 2, think |-> 1, toolUse |-> 2,
                  notice |-> 1, announced |-> 1, esc |-> 1, late |-> 1])
UntrackedBudget == Of([turn |-> 1, queued |-> 1, toolUse |-> 1, parallel |-> 1])

RetryBudgets == {RetryBudget}
CancelBudgets == {CancelBudget, LoopBudget}
UntrackedBudgets == {UntrackedBudget}
=============================================================================
