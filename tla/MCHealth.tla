-------------------------------- MODULE MCHealth --------------------------------
EXTENDS Health, TLC

CONSTANTS u1, u2, all

MCUsers    == {u1, u2}
MCSymmetry == Permutations(MCUsers)
MCFaulty   == {"download", "command"}
MCModes    == {"api", "catalog"}
MCFresh    == [uclass |-> 1, telegram |-> 0, weather |-> 0]

=============================================================================
