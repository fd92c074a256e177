---------------------------- MODULE AtomicParams ----------------------------
(***************************************************************************)
(* What the parameter directory promises to the processes that share it:   *)
(* a key holds a whole value or none, a value written replaces the one     *)
(* before it in one step, and a power loss may undo only the writes that   *)
(* were not settled yet.                                                   *)
(***************************************************************************)
CONSTANTS Keys,     \* the names of the parameters
          Values,   \* what a parameter may be set to
          Absent    \* the value of a key that is not there

VARIABLES store,    \* store[k]: what a reader of k gets
          back      \* back[k]: what a reader of k may get after a power loss

vars == <<store, back>>

Stored == Values \cup {Absent}

Kept(s) == [k \in Keys |-> {s[k]}]

Init == /\ store \in [Keys -> Stored]
        /\ back = Kept(store)

Set(k, v) == /\ store' = [store EXCEPT ![k] = v]
             /\ back'  = [back EXCEPT ![k] = @ \cup {v}]

Settle == /\ back' = Kept(store)
          /\ UNCHANGED store

PowerLoss == \E s \in [Keys -> Stored] :
                /\ \A k \in Keys : s[k] \in back[k]
                /\ store' = s
                /\ back'  = Kept(s)

Next == \/ \E k \in Keys, v \in Stored : Set(k, v)
        \/ Settle
        \/ PowerLoss

Spec == Init /\ [][Next]_vars
=============================================================================
