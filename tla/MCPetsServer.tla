---------------------------- MODULE MCPetsServer -----------------------------
\* Instances of the PETS server.
EXTENDS PetsServer, TLC

AllFaults == FaultKinds
SameRnti  == [k \in Keys |-> CHOOSE r \in Rntis : TRUE]
AnyWorker == Permutations(Workers)
=============================================================================
