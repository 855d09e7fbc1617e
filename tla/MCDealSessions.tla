--------------------------- MODULE MCDealSessions ---------------------------
(****************************************************************************)
(* Model-checking instances of DealSessions: which doors are open to the     *)
(* sessions of a run.                                                        *)
(****************************************************************************)
EXTENDS DealSessions, TLC

SessionSymmetry == Permutations(Sessions)

AllDoors   == Doors
NoDoors    == {}
BankOnly   == {"bank"}
Operators  == {"mark"}
Traders    == {"party"}
DirectRail == {"party", "confirm"}
Consumers  == {"party", "contract"}

=============================================================================
