----------------------------- MODULE MCInstall -----------------------------
(* Two builds of one payload file that both trees hold, the second made a   *)
(* second after the first, and the setups an operator runs.                 *)
EXTENDS Install, TLC

LabelSymmetry == Permutations(Label)

MadeThen == <<1, 2>>
BaseTexts == <<[f \in File |-> 1], [f \in File |-> 2]>>
OverlayTexts == <<[f \in File |-> 3], [f \in File |-> 4]>>

Plans == {[steps |-> {"binary", "service"}, roles |-> {"hub", "node"},
           force |-> FALSE, conf |-> 1],
          [steps |-> {"path", "env", "node", "service", "boot"}, roles |-> {"node"}, force |-> TRUE, conf |-> 2],
          [steps |-> {"config", "caddy"}, roles |-> {}, force |-> FALSE, conf |-> 1]}
Removals == {{}, {"all", "purge"}}
=============================================================================
