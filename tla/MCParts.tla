------------------------------ MODULE MCParts ------------------------------
(* The parts for TLC: small values, and one start for what is not followed. *)
EXTENDS Parts

CONSTANTS m, a, f1, f2, f3, d1, n1, n2, m1, c1, c2, c3, blanks, p1, p2, p3, p4

SomeListings == {<<d1, f1, f2, f3>>, <<f2, f1>>}
SomeBursts == {<<"GGA", "GSV", "RMC">>, <<"GSV", "RMC", "GGA">>}

MCInit ==
  /\ PartsInit
  /\ part # "notepad" => files = [p \in Places |-> "missing"]
  /\ part # "gnss" => burst = <<"GGA", "GSV", "RMC">>

MCSpec == MCInit /\ [][PartsNext]_parts
=============================================================================
