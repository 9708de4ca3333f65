---------------------------- MODULE Provisioning ----------------------------
(***************************************************************************)
(* credentials_provision.c: what the firmware writes into the modem's       *)
(* credential store at every boot.  The store outlives resets and updates,  *)
(* and every write may fail; the first one that does ends the provisioning, *)
(* whose result nobody looks at.                                            *)
(***************************************************************************)
EXTENDS Naturals, FiniteSets

CONSTANTS Embedded,   \* those of "ca", "cert" and "key" the builds have files for
          Faults      \* how many calls of the modem may fail

ASSUME ProvisioningAssumption == /\ Embedded \subseteq {"ca", "cert", "key"}
                                 /\ Faults \in Nat

VARIABLES running,    \* the build that runs, named by its file
          store,      \* the modem's credentials: of each, a set with its value
          provision,  \* the call that comes next in this boot
          imei,       \* imei, as store holds it
          faults,     \* how many of them are left
          spoilt      \* the provisioning of this boot has ended with an error

provisioningVars == <<running, store, provision, imei, faults, spoilt>>

\* The credentials the firmware holds; of its security tags, "fota_ca" is in
\* TLS_SEC_TAG and all others in CONFIG_DYNSEC_MQTT_HELPER_SEC_TAG.
Own == Embedded \cup {"psk", "fota_ca"}
Compiled == {"ca", "cert", "key", "psk", "fota_ca"}
Credentials == Compiled \cup {"identity"}
Identities == {{}, {"imei"}, {"garbage"}}
Calls == Compiled \cup {"cgsn", "identity", "exists", "delete", "done"}

Following == [ca |-> "cert", cert |-> "key", key |-> "cgsn", cgsn |-> "identity",
              identity |-> "psk", psk |-> "exists", fota_ca |-> "done"]

Fails == faults > 0 /\ faults' = faults - 1

-----------------------------------------------------------------------------

\* modem_key_mgmt_write, which replaces what is there.
Write(c, content) ==
    \/ /\ store' = [store EXCEPT ![c] = content]
       /\ provision' = Following[c]
       /\ UNCHANGED <<faults, spoilt>>
    \/ /\ Fails
       /\ provision' = "done"
       /\ spoilt' = TRUE
       /\ UNCHANGED store

\* Mutant: what is there already is not written again.
WriteMissing(c) ==
    /\ provision = c
    /\ \/ (c \in Own /\ store[c] = {}) /\ Write(c, {running})
       \/ /\ c \notin Own \/ store[c] # {}
          /\ provision' = Following[c]
          /\ UNCHANGED <<store, faults, spoilt>>
    /\ UNCHANGED <<running, imei>>

\* One of the credentials compiled into the build; a missing file is skipped.
WriteOwn(c) ==
    /\ provision = c
    /\ \/ c \in Own /\ Write(c, {running})
       \/ /\ c \notin Own
          /\ provision' = Following[c]
          /\ UNCHANGED <<store, faults, spoilt>>
    /\ UNCHANGED <<running, imei>>

\* AT+CGSN.  Its error is printed, and imei gets what is in the response buffer,
\* which nothing has initialised.
ReadImei ==
    /\ provision = "cgsn"
    /\ \/ imei' = {"imei"} /\ UNCHANGED faults
       \/ imei' = {"garbage"} /\ Fails
    /\ provision' = Following["cgsn"]
    /\ UNCHANGED <<running, store, spoilt>>

\* Mutant: an identity is removed before it is written, as fota_cert_provision
\* does with its certificate.
WriteIdentityAnew ==
    /\ provision = "identity"
    /\ \/ /\ store["identity"] # {}
          /\ store' = [store EXCEPT !["identity"] = {}]
          /\ UNCHANGED <<provision, faults, spoilt>>
       \/ store["identity"] = {} /\ Write("identity", imei)
    /\ UNCHANGED <<running, imei>>

WriteIdentity == /\ provision = "identity"
                 /\ Write("identity", imei)
                 /\ UNCHANGED <<running, imei>>

\* fota_cert_provision.  Only the check for a certificate can end it early; a
\* failed removal is printed.
Exists ==
    /\ provision = "exists"
    /\ \/ /\ provision' = IF store["fota_ca"] # {} THEN "delete" ELSE "fota_ca"
          /\ UNCHANGED <<faults, spoilt>>
       \/ Fails /\ provision' = "done" /\ spoilt' = TRUE
    /\ UNCHANGED <<running, store, imei>>

Delete ==
    /\ provision = "delete"
    /\ \/ store' = [store EXCEPT !["fota_ca"] = {}] /\ UNCHANGED faults
       \/ Fails /\ UNCHANGED store
    /\ provision' = "fota_ca"
    /\ UNCHANGED <<running, imei, spoilt>>

Provision == \/ \E c \in Compiled : WriteOwn(c)
             \/ ReadImei \/ WriteIdentity \/ Exists \/ Delete

-----------------------------------------------------------------------------

\* Every boot begins here, whatever the boot before it has come to.
ProvisioningReset == /\ provision' = "ca"
                     /\ imei' = {}
                     /\ spoilt' = FALSE
                     /\ UNCHANGED <<store, faults>>

\* The broker lets the device in: TLS-PSK with its IMEI as the identity.
Reachable == store["identity"] = {"imei"} /\ store["psk"] # {}
=============================================================================
