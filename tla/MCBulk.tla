-------------------------------- MODULE MCBulk --------------------------------
(* Bulk on three documents in batches of two. *)
EXTENDS Bulk

CONSTANTS d1, d2, d3

MCDocs == {d1, d2, d3}

Option(op, dry, empty, allow, pause, retries) ==
    [op |-> op, dryRun |-> dry, emptyFilter |-> empty, allowEmpty |-> allow,
     pause |-> pause, maxRetries |-> retries]

(* Every operation with and without a pause; the default number of retries   *)
(* and an explicit one; a dry run; an empty filter, allowed and not.         *)
MCOptions ==
    {Option(op, FALSE, FALSE, FALSE, p, 0) : op \in Operations, p \in BOOLEAN}
        \cup {Option("keep", FALSE, FALSE, FALSE, FALSE, 1),
              Option("delete", TRUE, TRUE, FALSE, FALSE, 0),
              Option("delete", FALSE, TRUE, FALSE, FALSE, 0),
              Option("delete", FALSE, TRUE, TRUE, FALSE, 1)}
===============================================================================
