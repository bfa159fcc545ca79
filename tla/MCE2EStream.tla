---------------------------- MODULE MCE2EStream ----------------------------
(* E2EStream with few bytes: records are cut in two by Write, read in two by
   Read, and the sequence numbers run out. *)
EXTENDS E2EStream

CONSTANTS c1, c2, UpBytes, DownBytes

SmallSource == [d \in Directions |-> IF d = "up" THEN UpBytes ELSE DownBytes]
=============================================================================
