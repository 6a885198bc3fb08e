---------------------------- MODULE MCDeployment ----------------------------
(* The three parts share no variable, so each is run with the others at rest. *)
EXTENDS LocalModels, Credentials, Startup
CONSTANTS m1, m2, m3, small, large
MCCatalogue == <<m1, m2, m3>>
MCNames == <<"ann", "ann", "bob">>
MCDims == [e \in Embedder |-> IF e = large THEN 2 ELSE 1]
ModelsRest == LocalModelsInit /\ installed = {}
CredentialsRest == CredentialsInit /\ env = <<>> /\ \A c \in Connector : config[c] = None
StartupRest == StartupInit /\ ~db /\ configured = small
MCInit ==
  /\ LocalModelsInit /\ CredentialsInit /\ StartupInit
  /\ \/ ModelsRest /\ CredentialsRest
     \/ ModelsRest /\ StartupRest
     \/ CredentialsRest /\ StartupRest
MCNext ==
  \/ CredentialsRest /\ StartupRest /\ LocalModelsNext /\ UNCHANGED <<credentialVars, startupVars>>
  \/ ModelsRest /\ StartupRest /\ CredentialsNext /\ UNCHANGED <<modelVars, startupVars>>
  \/ ModelsRest /\ CredentialsRest /\ StartupNext /\ UNCHANGED <<modelVars, credentialVars>>
MCSpec == MCInit /\ [][MCNext]_<<modelVars, credentialVars, startupVars>>
=============================================================================
