--------------------------- MODULE AccountServices ---------------------------
(***************************************************************************)
(* What auth-service and user-service keep for accounts besides sessions:  *)
(* profiles, roles and the permission cache on the one hand, the secrets   *)
(* and counters of account recovery and of logins on the other.  They are  *)
(* in tables and Redis keys of their own, so that each behaviour exercises *)
(* one of the two; a change of an account that the secrets depend on is    *)
(* part of AccountSecrets.                                                 *)
(***************************************************************************)
EXTENDS Provisioning, AccountSecrets

VARIABLE part      \* what is exercised

Part == {"provisioning", "secrets"}

accountVars == <<part, vars, secretsVars>>

\* A part that is not exercised stays in one of its initial states.
AccountServicesInit ==
    /\ part \in Part
    /\ Init /\ SecretsInit
    /\ part = "secrets" => \A a \in Account : profile[a] = None
    /\ part = "provisioning" =>
          (\A s \in Secret : kind[s] = "oidc") /\ mail = Nobody /\ identity = Nobody

AccountServicesNext ==
    /\ UNCHANGED part
    /\ \/ part = "provisioning" /\ Next /\ UNCHANGED secretsVars
       \/ part = "secrets" /\ SecretsNext /\ UNCHANGED vars

AccountServicesSpec == AccountServicesInit /\ [][AccountServicesNext]_accountVars

=============================================================================
