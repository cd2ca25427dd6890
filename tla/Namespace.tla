------------------------------ MODULE Namespace -------------------------------
(***************************************************************************)
(* What the directory calls of firmware/ff.c promise, whatever the tables  *)
(* look like: names are the entries of a tree, a call that answers FR_OK   *)
(* has done its work and nothing else, and it is on the card.  A call that *)
(* fails has done its work, nothing, or, when it renames, left the object  *)
(* both names; so has one that a power loss interrupts.                    *)
(***************************************************************************)
EXTENDS Integers, FiniteSets

VARIABLES
  ns,        \* the entries as the calls see them: [dir, name, obj, table]
  durable,   \* the entries as they are on the card
  ret        \* the last call and its answer

vars == <<ns, durable, ret>>

Root == 0

\* The entries of n below the directories D.
Below(n, D) ==
  LET in[k \in 0 .. Cardinality(n)] ==
        IF k = 0 THEN {e \in n : e.dir \in D}
        ELSE LET p == in[k - 1] IN p \cup {e \in n : e.dir \in {x.obj : x \in p}}
  IN  in[Cardinality(n)]

\* e is a new name in n, in the root or in a directory of n.
Placed(n, e) ==
  /\ \A x \in n : <<x.dir, x.name>> # <<e.dir, e.name>>
  /\ e.dir = Root \/ \E x \in n : x.obj = e.dir /\ x.table

\* Each operation as a relation of the entries before and after it.
Create(n, m, table) ==
  \E e \in m \ n :
    /\ m = n \cup {e} /\ Placed(n, e) /\ e.table = table
    /\ \A x \in n : x.obj # e.obj

Remove(n, m) == \E e \in n \ m : m = n \ {e} /\ Below(n, {e.obj}) = {}

Link(n, m) ==
  \E y \in m \ n :
    /\ m = n \cup {y} /\ Placed(n, y)
    /\ \E e \in n : e.obj = y.obj /\ e.table = y.table

Move(n, m) ==
  \E e \in n \ m, y \in m \ n :
    /\ m = (n \ {e}) \cup {y} /\ Placed(n, y)
    /\ e.obj = y.obj /\ e.table = y.table

\* A directory moved below itself is lost with all that is in it.
Lose(n, m) == \E e \in n \ m : e.table /\ m = n \ ({e} \cup Below(n, {e.obj}))

Effect(op, n, m) ==
  CASE op = "create" -> Create(n, m, FALSE)
    [] op = "mkdir" -> Create(n, m, TRUE)
    [] op = "unlink" -> Remove(n, m)
    [] op = "rename" -> Move(n, m) \/ Lose(n, m)
    [] OTHER -> n = m

\* How far a call can have come when it stops.
Partly(op, n, m) == n = m \/ Effect(op, n, m) \/ (op = "rename" /\ Link(n, m))

Init == ns = {} /\ durable = {} /\ ret = [op |-> "other", ok |-> TRUE]

\* FR_OK; the entry of a new file reaches the card later.
Done(op) ==
  /\ ret' = [op |-> op, ok |-> TRUE]
  /\ Effect(op, ns, ns')
  /\ IF op \in {"create", "other"} THEN durable' \in {durable, ns, ns'} ELSE durable' = ns'

Failed(op) ==
  /\ ret' = [op |-> op, ok |-> FALSE]
  /\ Partly(op, ns, ns')
  /\ durable' = durable \/ Partly(op, ns, durable')

PowerLost(op) ==
  /\ ret' = [op |-> op, ok |-> FALSE]
  /\ durable' = durable \/ Partly(op, ns, durable')
  /\ ns' = durable'

Next == \E op \in {"create", "mkdir", "unlink", "rename", "other"} :
          Done(op) \/ Failed(op) \/ PowerLost(op)

Spec == Init /\ [][Next]_vars

=============================================================================
