------------------------------ MODULE MCFusedOps ------------------------------
(***************************************************************************)
(* Instances of FusedOps: every pattern alone, and a few that share their  *)
(* funct3 group, muxes or register ports with a second one.                *)
(***************************************************************************)
EXTENDS FusedDatapath, Bitwise

MCAnd(x, y) == x & y
MCOr(x, y) == x | y
MCXor(x, y) == x ^^ y

Alone == {<<p>> : p \in Patterns}

Probes == {p \in Patterns :
              \/ p.ops[1] = "srl" /\ p.ops[2] \in {"add", "xor"} /\ p.imm \in {{1}, {1, 2}}
              \/ p.ops = <<"mul", "sub">>
              \/ p.ops = <<"and", "sub">> /\ p.imm \in {{}, {1}}}

Pairs == {s \in Probes \X Probes : s[1] # s[2]}

MCMdFiles == Alone \union Pairs
=============================================================================
