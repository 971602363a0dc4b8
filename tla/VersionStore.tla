---------------------------- MODULE VersionStore ----------------------------
(***************************************************************************)
(* What commands and `wgpl apply' promise together, whatever the locks,    *)
(* retries and connections behind it: a log of versions to which a command *)
(* adds only on top of the version it looked at, and from which a reader   *)
(* takes one version, a valid one and the last at that moment, to hand it  *)
(* over later or never.                                                    *)
(***************************************************************************)
EXTENDS Naturals, Sequences

CONSTANTS Committer, Reader

VARIABLES
    log,        \* the versions: whether each one is valid
    holds,      \* of each process: the version it looked at or took, or 0
    kernel      \* the version handed over last, or 0

store  == <<log, holds, kernel>>
Anyone == Committer \cup Reader

Init == log = <<TRUE>> /\ holds = [p \in Anyone |-> 0] /\ kernel = 0

Hold(p, version) ==
    holds[p] = 0 /\ version # 0 /\ holds' = [holds EXCEPT ![p] = version]

Forget(p) == holds' = [holds EXCEPT ![p] = 0]

Look(c) == Hold(c, Len(log)) /\ UNCHANGED <<log, kernel>>

Add(c) ==
    /\ holds[c] = Len(log)
    /\ \E valid \in BOOLEAN : log' = Append(log, valid)
    /\ Forget(c) /\ UNCHANGED kernel

Take(r) == log[Len(log)] /\ Hold(r, Len(log)) /\ UNCHANGED <<log, kernel>>

HandOver(r) ==
    /\ holds[r] # 0 /\ kernel' = holds[r]
    /\ Forget(r) /\ UNCHANGED log

GiveUp(p) == Forget(p) /\ UNCHANGED <<log, kernel>>

Next ==
    \/ \E c \in Committer : Look(c) \/ Add(c)
    \/ \E r \in Reader : Take(r) \/ HandOver(r)
    \/ \E p \in Anyone : GiveUp(p)

Spec == Init /\ [][Next]_store
=============================================================================
