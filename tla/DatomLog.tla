------------------------------ MODULE DatomLog ------------------------------
(***************************************************************************)
(* What a litelog database promises its readers: a log that only grows, by *)
(* the rows of one transaction at a time, and a set of current facts that  *)
(* moves only where those rows say so and never shows a retracted one.     *)
(***************************************************************************)
EXTENDS Tables

VARIABLES
    log,        \* rows [e, a, v, tx, added, vf]
    facts,      \* triples <<e, a, v>> that hold
    committed   \* IDs of the transactions on record

Init == log = <<>> /\ facts = {} /\ committed = {}

\* The rows this step appends, and the triples they are about.
Appended == {log'[i] : i \in (Len(log) + 1)..Len(log')}
Touched == {EAV(r) : r \in Appended}

Commit ==
    /\ Len(log') >= Len(log)
    /\ \A i \in 1..Len(log) : log'[i] = log[i]
    /\ \E t \in committed' \ committed :
          /\ committed' = committed \cup {t}
          /\ \A r \in Appended : r.tx = t
    /\ facts' \ facts \subseteq Touched
    /\ facts \ facts' \subseteq Touched
    /\ \A f \in facts' : IsLive(log', f[1], f[2], f[3])

Spec == Init /\ [][Commit]_<<log, facts, committed>>
=============================================================================
