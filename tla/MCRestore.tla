----------------------------- MODULE MCRestore -----------------------------
(* Small instances of Restore for TLC. *)
EXTENDS Restore, TLC

GoodBackup == {{"saved"}}
TwoBackups == {{"saved"}, {"broken"}}
BadBackup  == {{"broken"}}
Nothing    == {}

Dying    == [concurrent |-> {}, readers |-> FALSE, crashes |-> TRUE,
             parallel |-> TRUE, restores |-> 4]
Blocked  == [concurrent |-> {}, readers |-> TRUE, crashes |-> FALSE,
             parallel |-> FALSE, restores |-> 3]
Anything == [concurrent |-> {"process", "thread"}, readers |-> TRUE,
             crashes |-> TRUE, parallel |-> TRUE, restores |-> 2]
Three    == {Dying, Blocked, Anything}

Calm     == {[concurrent |-> {}, readers |-> FALSE, crashes |-> FALSE,
              parallel |-> TRUE, restores |-> 3]}
Both     == {[concurrent |-> {}, readers |-> TRUE, crashes |-> TRUE,
              parallel |-> FALSE, restores |-> 1]}

Symmetry == Permutations(Restorer) \cup Permutations(Txn)
=============================================================================
