----------------------------- MODULE MCInterop ------------------------------
(***************************************************************************)
(* Instance of Interop for TLC: a client built with every section of the   *)
(* test, and one with the exceptions only, which is the build that ends    *)
(* its tests against the dynamic servers on TAO; the latter may instead be *)
(* an unrelated client that disturbs the attributes.                       *)
(***************************************************************************)
EXTENDS Interop

CONSTANTS c1, c2

Builds ==
  [c \in Clients |->
     IF c = c1 THEN {"SIMPLE", "SEQUENCE", "ARRAY", "UNION", "ATTRIBUTE",
                     "OBJECT", "MONEY", "EXCEPTION"}
               ELSE {"EXCEPTION"}]
=============================================================================
