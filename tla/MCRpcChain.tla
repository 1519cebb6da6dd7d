----------------------------- MODULE MCRpcChain -----------------------------
(* Two processes of one user.  One request to evaluate is sound; the others  *)
(* have what evaluate() looks for wrong, one thing each.                     *)
EXTENDS RpcChain

CONSTANTS p1, p2, a, b, none

Sound == [query |-> "text", mode |-> "known", fragments |-> <<a, b>>,
          questions |-> {"plain"}]

MCRequests ==
    {Sound,
     [Sound EXCEPT !.fragments = <<a, a>>], [Sound EXCEPT !.fragments = <<b, none>>],
     [Sound EXCEPT !.query = "blank"], [Sound EXCEPT !.mode = "unknown"],
     [Sound EXCEPT !.questions = {"plain", "reserved"}],
     [Sound EXCEPT !.questions = {"untyped"}]}
===========================================================================
