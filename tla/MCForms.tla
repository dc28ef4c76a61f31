--------------------------------- MODULE MCForms ---------------------------------
(***************************************************************************)
(* Small instances of the forms: two things to ask for, and the forms that *)
(* somebody opens one after another.                                       *)
(***************************************************************************)
EXTENDS FormsProperties

CONSTANTS b1, b2

MCPlans == {<<"remove", "receive">>, <<"receive">>, <<"adjust">>, <<"reverse">>,
            <<"reconcile">>, <<"count">>, <<"product", "product">>, <<"user">>}

(* Everything that was begun is over.                                      *)
Terminated == form = None /\ flight = None /\ orphan = None /\ UNCHANGED vars

MCSpec == Init /\ [][Next \/ Terminated]_vars /\ Fairness
=============================================================================
