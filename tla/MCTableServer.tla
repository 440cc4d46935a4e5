---------------------------- MODULE MCTableServer ----------------------------
(***************************************************************************)
(* Small instances of TableServer: two clients and the three addresses     *)
(* their sessions need, so that an address is reused as soon as a client   *)
(* connects again.  The cfg files choose codes, faults and bounds.         *)
(***************************************************************************)
EXTENDS TableServer, TLC

CONSTANTS c1, c2, a1, a2, a3, none, asio, table

OneClient == {c1}
TwoClients == {c1, c2}
TwoAddrs == {a1, a2}
ThreeAddrs == {a1, a2, a3}
BothThreads == {asio, table}

Commands == [n : 1 .. MaxSends, from : Clients, code : Codes]
Strings == [cmds : UNION {[1 .. k -> Commands] : k \in 1 .. MaxSends}, garbled : BOOLEAN]
OneString == {<<s>> : s \in Strings}

AddrSymmetry == Permutations(Addrs) \cup Permutations(Clients)
=============================================================================
