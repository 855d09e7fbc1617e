--------------------------- MODULE MCEdiDocuments ---------------------------
(****************************************************************************)
(* The settings EdiDocuments is checked under.                               *)
(****************************************************************************)
EXTENDS EdiDocuments, TLC

\* A framework contract, its specification and an invoice of it; or a one-off
\* contract with three documents.  One session at a time.
Serial == { [overlap |-> FALSE, frame |-> f, docs |-> 3] : f \in BOOLEAN }

\* The sessions of two documents overlap.
Racing == [overlap |-> TRUE, frame |-> FALSE, docs |-> 2]

AllWorlds == Serial \cup {Racing}

=============================================================================
