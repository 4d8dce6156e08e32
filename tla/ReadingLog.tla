----------------------------- MODULE ReadingLog -----------------------------
(***************************************************************************)
(* What the table of chlorine readings promises, whoever writes it: a      *)
(* write-once log keyed on (sampling point, measured time).  models.py     *)
(* states it as integrity rule 1: replaying a laboratory file "can never   *)
(* duplicate or overwrite a reading".  LabIngest implements this module.   *)
(***************************************************************************)

CONSTANTS LogKey, LogValue

VARIABLE log    \* set of entries [key, value]

Entry == [key : LogKey, value : LogValue]

KeysOf(entries) == {e.key : e \in entries}

OnePerKey(entries) ==
    \A e1, e2 \in entries : e1.key = e2.key => e1 = e2

Init == log = {}

\* One transaction: entries under keys that had none; nothing is rewritten.
Append ==
    LET new == log' \ log
    IN  /\ log \subseteq log'
        /\ new \subseteq Entry
        /\ OnePerKey(new)
        /\ KeysOf(new) \cap KeysOf(log) = {}

Spec == Init /\ [][Append]_log
=============================================================================
