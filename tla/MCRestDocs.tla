----------------------------- MODULE MCRestDocs -----------------------------
(* The document operations of the REST client, on small instances *)
EXTENDS RestDocs, TLC

CONSTANTS w1, v1

\* One operation for every way to change a document: what the other thread's operations
\* are interleaved with.
Changes == {"update_doc", "add_conflict", "delete_docs", "add_docs", "purge_docs"}

MCDoes == (w1 :> Changes) @@ (v1 :> {"update_doc"} \union (Operations \ Changes))

Alike == Permutations(Docs)

=============================================================================
