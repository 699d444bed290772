------------------------------ MODULE MCRunner ------------------------------
(* An instance of Runner for TLC *)
EXTENDS Runner

Hill == <<[policy |-> "HILL", params |-> "mru 64"],
          [policy |-> "HILL", params |-> "mru 0"]>>
TwoSizes == <<1, 2>>
OneTrace == <<"example">>
AllOrHill == {".", "HILL"}
Names == [p \in AllOrHill |-> {"HILL"}]

=============================================================================
