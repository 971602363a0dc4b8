---------------------------- MODULE AtomicRestore ----------------------------
(***************************************************************************)
(* What `wgpl db restore' promises whoever opens the database: it shows    *)
(* the transactions of commands, until a restore replaces all of it, in    *)
(* one step, by exactly the accepted backup that was asked for.  Restores  *)
(* may be given up at any time, and are independent of one another.        *)
(***************************************************************************)
CONSTANTS
    Restorer, Txn,
    Offered,        \* the backups one may ask for, as sets of transactions
    Accepted        \* those of them that validation accepts

VARIABLES
    shown,          \* the transactions that a connection opened now sees
    asked,          \* of each restorer: the backup it has yet to put in place
    promised        \* whether the promise is made; otherwise anything goes

Init ==
    /\ shown = {} /\ asked = [r \in Restorer |-> {}]
    /\ promised \in BOOLEAN

Commit(t) == shown' = shown \cup {t} /\ UNCHANGED asked

Ask(r, from) ==
    /\ asked[r] = {}
    /\ asked' = [asked EXCEPT ![r] = {from}]
    /\ UNCHANGED shown

Answer(r) == asked[r] # {} /\ asked' = [asked EXCEPT ![r] = {}]

Replace(r) == shown' \in asked[r] \cap Accepted /\ Answer(r)

GiveUp(r) == Answer(r) /\ UNCHANGED shown

Next ==
    /\ UNCHANGED promised
    /\ \/ \E t \in Txn : Commit(t)
       \/ \E r \in Restorer, from \in Offered : Ask(r, from)
       \/ \E r \in Restorer : Replace(r) \/ GiveUp(r)
       \/ ~promised

Spec == Init /\ [][Next]_<<shown, asked, promised>>
=============================================================================
