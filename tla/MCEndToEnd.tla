----------------------------- MODULE MCEndToEnd -----------------------------
(***************************************************************************)
(* Instances of EndToEnd for TLC: scripts of three calls of one or two     *)
(* clients about one document, one server process.                       *)
(***************************************************************************)
EXTENDS EndToEnd

CONSTANTS a, b, d, p

By(c, o) == [client |-> c, op |-> o, doc |-> d, reqId |-> FALSE]
WithReqId(r) == [r EXCEPT !.reqId = TRUE]

MCScript ==
    {<<WithReqId(By(a, "build")), By(a, "withdraw"), By(a, "read")>>,
     <<WithReqId(By(a, "create")), By(a, "build"), By(a, "read")>>,
     <<By(a, "build"), By(a, "read"), By(b, "withdraw")>>,
     <<By(a, "build"), By(b, "remove"), By(a, "read")>>}
=============================================================================
