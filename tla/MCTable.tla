------------------------------ MODULE MCTable ------------------------------
(***************************************************************************)
(* An instance of Table for TLC.  n1 to n4 compete for bucket 1; boot, the *)
(* bootstrap node, and lone have a bucket to themselves.  With one address *)
(* of a subnet per bucket and two in the table, bucket 1 meets the         *)
(* bucket's limit, boot and lone the table's; and when subnet y is full,   *)
(* boot cannot move from x1 to y1.                                         *)
(***************************************************************************)
EXTENDS Table, TLC

CONSTANTS self, n1, n2, n3, n4, boot, lone

MCBucketOf == [id \in Ids |-> CASE id = boot -> 2 [] id = lone -> 3 [] OTHER -> 1]
MCSubnet == [ip \in Ips |-> CASE ip = "x1" -> "x" [] ip = "y1" -> "y"
                              [] OTHER -> "local"]
MCAddresses == [id \in Ids |-> CASE id = boot -> {"x1", "y1"} [] id = lone -> {"y1"}
                                 [] OTHER -> {"y1", "lan"}]
MCNursery == {[id |-> boot, ip |-> "x1"]}

(* Those that compete for bucket 1 are interchangeable. *)
Interchangeable == Permutations({n1, n2, n3, n4})
=============================================================================
