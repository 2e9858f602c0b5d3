-------------------------- MODULE MCSecretsJournal --------------------------
(***************************************************************************)
(* Model checking instances of SecretsJournal.                             *)
(***************************************************************************)
EXTENDS SecretsJournal

\* An enrollment writes the token, with MQTT settings or not, and those with
\* a CA certificate or not.
EnrollmentFiles ==
    {{"token"}, {"token", "mqtt"}, {"token", "ca", "mqtt"}}
=============================================================================
