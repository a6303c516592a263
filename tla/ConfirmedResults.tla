-------------------------- MODULE ConfirmedResults --------------------------
(***************************************************************************)
(* What the catalogue promises about confirmed results, without tables,    *)
(* transactions, syncs or answers that come late: a notebook with a page   *)
(* for each title.  One prober asks about one title at a time, one with an *)
(* empty page, and enters on it what it was told, or gives up.  Others may *)
(* clear pages, whoever is asking; nobody writes over an entry.            *)
(***************************************************************************)
CONSTANTS Title, Result

VARIABLES
    known,  \* what is on the page of each title: one result or none
    asking  \* the title asked about, if any

vars == <<known, asking>>

Init ==
    /\ known = [t \in Title |-> {}]
    /\ asking = {}

Ask(t) ==
    /\ asking = {}
    /\ known[t] = {}
    /\ asking' = {t}
    /\ UNCHANGED known

Learn(t, result) ==
    /\ asking = {t}
    /\ known[t] = {}
    /\ known' = [known EXCEPT ![t] = {result}]
    /\ asking' = {}

GiveUp ==
    /\ asking' = {}
    /\ UNCHANGED known

Forget(titles) ==
    /\ known' = [t \in Title |-> IF t \in titles THEN {} ELSE known[t]]
    /\ UNCHANGED asking

Next ==
    \/ \E t \in Title : Ask(t) \/ \E result \in Result : Learn(t, result)
    \/ GiveUp
    \/ \E titles \in SUBSET Title : Forget(titles)

Spec == Init /\ [][Next]_vars

=============================================================================
