--------------------------- MODULE OptimisticStore ---------------------------
(***************************************************************************)
(* What a version field promises a caller, told without versions, clocks   *)
(* or statements (schema/field.go: "a write that names an older one is     *)
(* refused").  A caller plans to replace the body it has read; later the    *)
(* plan either replaces precisely that body, in one step, or comes to       *)
(* nothing.  Inserts and forced writes promise nothing about the body they  *)
(* find.  EntServer implements this with a version column.                  *)
(***************************************************************************)
CONSTANTS
    Call,  \* callers
    Body,  \* what a row holds beside its version; body.id is its key
    None   \* no plan

VARIABLES
    store, \* the bodies stored, at most one for each key
    plan   \* plan[c]: what caller c is about to do

vars == <<store, plan>>

SwapPlan == [kind: {"swap"}, old: Body]

FreePlan == [kind: {"free"}]

Init ==
    /\ store = {}
    /\ plan = [c \in Call |-> None]

Plan(c) ==
    /\ plan[c] = None
    /\ \E p \in SwapPlan \cup FreePlan : plan' = [plan EXCEPT ![c] = p]
    /\ UNCHANGED store

Swap(c) ==
    /\ plan[c] \in SwapPlan
    /\ plan[c].old \in store
    /\ \E new \in Body :
         /\ new.id = plan[c].old.id
         /\ store' = (store \ {plan[c].old}) \cup {new}
    /\ plan' = [plan EXCEPT ![c] = None]

Put(c) ==
    /\ plan[c] \in FreePlan
    /\ \E new \in Body : store' = {b \in store : b.id # new.id} \cup {new}
    /\ plan' = [plan EXCEPT ![c] = None]

GiveUp(c) ==
    /\ plan[c] # None
    /\ plan' = [plan EXCEPT ![c] = None]
    /\ UNCHANGED store

Remove ==
    /\ \E b \in store : store' = store \ {b}
    /\ UNCHANGED plan

Next ==
    \/ \E c \in Call : Plan(c) \/ Swap(c) \/ Put(c) \/ GiveUp(c)
    \/ Remove

Spec == Init /\ [][Next]_vars

=============================================================================
