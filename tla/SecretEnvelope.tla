---------------------------- MODULE SecretEnvelope ----------------------------
(***************************************************************************)
(* The envelopes stored secrets are sealed in: webhook secrets, the        *)
(* secrets of integration credentials, the answers kept for a replay.      *)
(*   lib/security/secrets.ts, keyring.ts                                   *)
(*                                                                         *)
(* The cipher is taken as ideal: an envelope opens under the key and the   *)
(* associated data it was sealed with, and in no other way.  A keyring is  *)
(* a function from the key versions it holds to keys.                      *)
(***************************************************************************)
EXTENDS Sequences

CONSTANT Invalid  \* the outcome of a call that throws

Purposes == {"webhook", "integration", "ai_response"}

HasKey(keyring, version) == version \in DOMAIN keyring

(* The context is the trigger and its secret version; the connector, the     *)
(* credential and its secret version; the workspace and the record.          *)
AssociatedData(purpose, version, context) == <<purpose, version>> \o context

(* Without a key of that version every one of the three throws.              *)
Seal(purpose, text, context, keyring, version) ==
  IF HasKey(keyring, version)
  THEN [purpose |-> purpose, version |-> version, text |-> text, key |-> keyring[version],
        data |-> AssociatedData(purpose, version, context)]
  ELSE Invalid

Authentic(envelope, purpose, context, keyring) ==
  /\ HasKey(keyring, envelope.version)
  /\ envelope.key = keyring[envelope.version]
  /\ envelope.data = AssociatedData(purpose, envelope.version, context)

(* decryptIntegrationSecret and decryptAiIdempotencyResponse take the key    *)
(* version from the envelope.                                                *)
Open(envelope, purpose, context, keyring) ==
  IF envelope # Invalid /\ envelope.purpose = purpose
       /\ Authentic(envelope, purpose, context, keyring)
  THEN envelope.text ELSE Invalid

(* encryptWebhookSecret and decryptWebhookSecret are told the version and    *)
(* the one key of that version.                                              *)
SealWebhook(text, context, key, version) ==
  Seal("webhook", text, context, [v \in {version} |-> key], version)

OpenWebhook(envelope, context, key, version) ==
  IF envelope # Invalid /\ envelope.version = version
  THEN Open(envelope, "webhook", context, [v \in {version} |-> key]) ELSE Invalid
===============================================================================
