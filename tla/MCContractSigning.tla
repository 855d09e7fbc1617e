-------------------------- MODULE MCContractSigning --------------------------
(****************************************************************************)
(* The schedules ContractSigning is checked under.                           *)
(****************************************************************************)
EXTENDS ContractSigning, TLC

\* One handler at a time, consumers in order.
Quiet == [overlap |-> {}, calm |-> TRUE]

\* The doors of one contract overlap (the sessions never read the deal, so the
\* consumers may be calm).
Racing == [overlap |-> {"send", "decline", "cancel", "expire", "sign", "provider"},
           calm |-> TRUE]

\* Only the two doors that lock the row overlap: no final status may change.
Signing == [overlap |-> {"sign", "provider"}, calm |-> TRUE]

\* Events are repeated, reordered and lost.
Scrambled == [overlap |-> {}, calm |-> FALSE]

AllWorlds == {Quiet, Racing, Signing, Scrambled}

QuietWorld == {Quiet}

=============================================================================
