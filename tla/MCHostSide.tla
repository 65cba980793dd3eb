----------------------------- MODULE MCHostSide -----------------------------
(* A finite instance of HostSide: two proxies, a hosts file in several shapes
   and the calls that differ in what they do. *)
EXTENDS HostSide, TLC

CONSTANTS i1, i2, f1, v1

R(kind, server, ip, binary, cert, hosts) ==
  [kind |-> kind, server |-> server, ip |-> ip, version |-> v1,
   binary |-> binary, cert |-> cert, hosts |-> hosts]

SomeRequests ==
  {R("install", i1, None, TRUE, FALSE, TRUE), R("install", None, i2, FALSE, TRUE, TRUE),
   R("enroll", None, None, FALSE, FALSE, FALSE), R("enroll", i2, None, FALSE, FALSE, TRUE),
   R("uninstall", None, None, TRUE, TRUE, TRUE)}

(* An empty file, and a block twice before a line and empty lines. *)
SomeStart == {<<Blank>>, <<Begin, i1, End, Begin, i1, End, f1, Blank, Blank>>}

(* Two commands may overlap; the last one runs after both. *)
LastAlone == calls = MaxCalls => \E p \in Processes : Resting(p)

Symmetry == Permutations(Processes)
=============================================================================
