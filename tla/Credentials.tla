------------------------------ MODULE Credentials ------------------------------
(***************************************************************************)
(* The integration credentials of one workspace and the users who create,  *)
(* rotate and revoke them.                                                 *)
(*   lib/integrations/credentials.ts, repository.ts                        *)
(*                                                                         *)
(* A rotation or a revocation reads the row, checks the user's permission, *)
(* and writes later.  Names and the time of last use are left out.         *)
(***************************************************************************)
EXTENDS SecretEnvelope, Naturals, FiniteSets

CONSTANTS
  CredentialIds,    \* credential ids
  Managers,         \* users at work on credentials
  Keyring,          \* INTEGRATION_CREDENTIAL_KEYRING_JSON
  CurrentKey,       \* INTEGRATION_CREDENTIAL_CURRENT_KEY_VERSION
  CredentialLimit,  \* limits.integrationCredentials
  MaxSecret         \* bound of the model: the last secret version

ASSUME CredentialsAssumption ==
  /\ HasKey(Keyring, CurrentKey)
  /\ CredentialLimit \in Nat \ {0} /\ MaxSecret \in Nat \ {0}

VARIABLES
  credential,  \* credential[c]: the row, or NoCredential
  manager      \* manager[u]: the call user u is in

credentialVars == <<credential, manager>>

NoCredential == [status |-> "none"]
NoCall == [op |-> "none"]

Context(c, version) == <<"slack", c, version>>

(* encryptMaterial, with secretContext                                       *)
SealedAs(c, secret, version) ==
  Seal("integration", secret, Context(c, version), Keyring, CurrentKey)

(* What a call throws is neither a secret nor an envelope.                   *)
ASSUME InvalidAssumption ==
  /\ Invalid \notin Managers
  /\ \A c \in CredentialIds, u \in Managers, v \in 1..MaxSecret : SealedAs(c, u, v) # Invalid

(* decryptIntegrationCredentialSecret                                        *)
SecretOf(c, row) == Open(row.material, "integration", Context(c, row.version), Keyring)

(* revokedAt and deletedAt are set together, and both are null otherwise.    *)
IsActive(c) == credential[c].status = "active"

CredentialInit ==
  /\ credential = [c \in CredentialIds |-> NoCredential]
  /\ manager = [u \in Managers |-> NoCall]

-------------------------------------------------------------------------------
(* One transaction, which holds the workspace row while it counts.           *)
CreateCredential(u, c) ==
  /\ manager[u] = NoCall /\ credential[c] = NoCredential
  /\ Cardinality({d \in CredentialIds : IsActive(d)}) < CredentialLimit
  /\ credential' = [credential EXCEPT ![c] =
       [status |-> "active", version |-> 1, material |-> SealedAs(c, u, 1)]]
  /\ UNCHANGED manager

BeginChange(u, op, c) ==
  /\ manager[u] = NoCall /\ IsActive(c)
  /\ op = "rotate" => credential[c].version < MaxSecret
  /\ manager' = [manager EXCEPT ![u] =
       [op |-> op, credential |-> c, version |-> credential[c].version]]
  /\ UNCHANGED credential

(* Mutated form of NotDeleted: the update that rotates clears revokedAt and  *)
(* does not ask for deletedAt.                                               *)
Exists(c) == credential[c] # NoCredential

NotDeleted(c) == IsActive(c)

Finish(u) == manager' = [manager EXCEPT ![u] = NoCall]

(* The version written is the one read plus one, whatever happened between.  *)
WriteRotation(u) ==
  /\ manager[u].op = "rotate"
  /\ LET c == manager[u].credential
         version == manager[u].version + 1
     IN IF NotDeleted(c)
        THEN credential' = [credential EXCEPT ![c] =
               [status |-> "active", version |-> version, material |-> SealedAs(c, u, version)]]
        ELSE UNCHANGED credential
  /\ Finish(u)

WriteRevocation(u) ==
  /\ manager[u].op = "revoke"
  /\ LET c == manager[u].credential
     IN IF IsActive(c)
        THEN credential' = [credential EXCEPT ![c].status = "deleted"]
        ELSE UNCHANGED credential
  /\ Finish(u)

CredentialStep ==
  \E u \in Managers :
    \/ \E c \in CredentialIds :
         CreateCredential(u, c) \/ \E op \in {"rotate", "revoke"} : BeginChange(u, op, c)
    \/ WriteRotation(u)
    \/ WriteRevocation(u)
===============================================================================
