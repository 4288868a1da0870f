---------------------------- MODULE MCNegotiation ----------------------------
(* Offers that fit, and offers that differ in each thing the reduction looks *)
(* at: a required width the peer lacks, an unknown feature, another target.  *)
EXTENDS Negotiation

MCKnown == {"u32", "u64"}

MCHardMaximum == [regions |-> 3, bytes |-> 3]

Body(required, lockFree, regions, bytes, layout) ==
    [supported |-> MCKnown \cup required, required |-> required, lockFree |-> lockFree,
     limits |-> [regions |-> regions, bytes |-> bytes], layout |-> layout]

MCOffers ==
    {Body({}, MCKnown, 1, 3, "amd64"),
     Body({"u64"}, MCKnown, 2, 1, "amd64"),
     Body({}, {"u32"}, 3, 2, "amd64"),
     Body({"later"}, MCKnown, 3, 3, "amd64"),
     Body({}, MCKnown, 3, 3, "arm64")}

=============================================================================
