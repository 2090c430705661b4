---------------------------- MODULE MCPetsClient ----------------------------
(* Two requests or files in each of two configurations (one in the client with
   handshakes, which has the most datagrams), and faults of every kind. *)
EXTENDS PetsClient

AllFaults == FaultKinds

Configurations == [p \in AllPrograms |-> IF p \in WithHandshakes THEN 1 ELSE 2]
=============================================================================
