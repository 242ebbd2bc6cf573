----------------------------- MODULE MCIntents -----------------------------
(* Installers for model-checking Intents. *)
EXTENDS Intents, TLC

CONSTANTS a, b

OneInstaller  == {a}
TwoInstallers == {a, b}
AllRequests   == Requests
NoPurge       == {"INSTALL_REQ", "WITHDRAW_REQ"}

Symmetry == Permutations(Installers)

=============================================================================
