\* Three transactions: a reader, a writer that commits or aborts, and a third
\* of either kind to race with both.
CONSTANTS
    Txns = {t1, t2, t3}
    Docs = {d1, d2}
    Values = {v1}
    Policies = {p1}
    Modules = {m1}
    Handles = {h1}
    Absent = Absent
    Keep = Keep
    TriggersWrite = FALSE
SPECIFICATION LiveSpec
INVARIANTS TypeOK TriggersSeeCommit
PROPERTIES ImplementsSnapshots ReadersStable TransactionsFinish
