---------------------------- MODULE CardPayment ----------------------------
(***************************************************************************)
(* What a card holder and a merchant may expect of card-present payments,  *)
(* whatever the order of requests: money is held before it is taken or     *)
(* released, taken once, returned once and only after it was taken, and    *)
(* money that was taken is never released instead of returned.             *)
(***************************************************************************)
CONSTANT Payment

VARIABLE phase

Phase == { "none", "held", "taken", "released", "returned" }

Moves ==
  { << "none", "held" >>, << "none", "taken" >>, << "held", "taken" >>,
    << "held", "released" >>, << "taken", "returned" >> }

Init == phase = [ p \in Payment |-> "none" ]

Move(p) ==
  \E to \in Phase : /\ << phase[p], to >> \in Moves
                    /\ phase' = [ phase EXCEPT ![p] = to ]

Next == \E p \in Payment : Move(p)

Spec == Init /\ [][Next]_phase

=============================================================================
