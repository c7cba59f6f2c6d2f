------------------------------ MODULE MCIngest ------------------------------
(* Small instances of Ingest for TLC: an alert that fires, resolves and    *)
(* fires again, another one that comes with it in either order and starts  *)
(* between two units of the column, and two rules, the second of which is  *)
(* for notifications and shows what the first one's enrichment has stored. *)
EXTENDS Ingest, TLC

CONSTANTS a1, a2, users, host, summary

Fires(a, s) == [fp |-> a, status |-> "firing", start |-> s, annots |-> {summary}]
Resolves(a, s) == [Fires(a, s) EXCEPT !.status = "resolved"]

MCPayloads == {<<Fires(a1, 2)>>, <<Fires(a1, 4)>>,
               <<Fires(a1, 2), Fires(a2, 3)>>, <<Resolves(a2, 3), Resolves(a1, 2)>>}

Alert(fields) == [matches |-> {a1, a2}, stores |-> users, fields |-> fields,
                  notificationOnly |-> FALSE]
Notice == [matches |-> {a1}, stores |-> host, fields |-> {users, summary},
           notificationOnly |-> TRUE]

LoneField == <<Alert({users}), Notice>>
Symmetry == Permutations(Handlers)
=============================================================================
