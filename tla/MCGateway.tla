----------------------------- MODULE MCGateway -----------------------------
(* Instance of Gateway: two orders, behind a malformed packet or not, or an *)
(* order beside a rejected one and a cancel or modify of another client,    *)
(* which finds the order or does not.                                       *)
EXTENDS Gateway, TLC
CONSTANTS c1, c2

MCClient == {c1, c2}
MCWorkload ==
    {(c1 :> <<"malformed", "order">>) @@ (c2 :> <<"order">>),
     (c1 :> <<"reject", "request">>) @@ (c2 :> <<"order">>)}
=============================================================================
