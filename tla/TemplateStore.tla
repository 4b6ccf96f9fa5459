----------------------------- MODULE TemplateStore -----------------------------
(***************************************************************************)
(* What kleya's commands promise about one launch template: it is created  *)
(* only while the name is free, an update replaces what launches use in    *)
(* one step or not at all, and every instance is launched from what was    *)
(* current at that moment.  A template and each of its versions is known   *)
(* by the process that wrote it.                                           *)
(***************************************************************************)
CONSTANTS Procs, NoTemplate, Launchers, Updaters

VARIABLES template, current, ran

vars == <<template, current, ran>>

Init == /\ template = NoTemplate /\ current = NoTemplate
        /\ ran = [p \in Procs |-> NoTemplate]

Create(p) == /\ template = NoTemplate
             /\ template' = p /\ current' = p
             /\ UNCHANGED ran

Publish(p) == /\ p \in Updaters
              /\ template # NoTemplate
              /\ current' = p
              /\ UNCHANGED <<template, ran>>

Delete == /\ template' = NoTemplate /\ current' = NoTemplate
          /\ UNCHANGED ran

Run(p) == /\ p \in Launchers
          /\ current # NoTemplate
          /\ ran' = [ran EXCEPT ![p] = current]
          /\ UNCHANGED <<template, current>>

Next == \/ \E p \in Procs : Create(p) \/ Publish(p) \/ Run(p)
        \/ Delete

Spec == Init /\ [][Next]_vars
================================================================================
