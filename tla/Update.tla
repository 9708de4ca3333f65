------------------------------- MODULE Update -------------------------------
(***************************************************************************)
(* The life of a device over boots and firmware updates: MCUboot chooses    *)
(* the build, its credentials are provisioned, and a request from the       *)
(* broker leads to the next one.  A reset may come at any moment: the       *)
(* command "reset" of the shell, a loss of power, a fatal error.            *)
(***************************************************************************)
EXTENDS Provisioning, Fota

VARIABLES fallback,   \* the build in the other slot, to revert to
          confirmed   \* the running build has been confirmed

vars == <<provisioningVars, fotaVars, fallback, confirmed>>

Booted == provision = "done"

-----------------------------------------------------------------------------

Provisioning == /\ Provision
                /\ UNCHANGED <<fotaVars, fallback, confirmed>>

\* fota_init at the start of fota_task confirms the build, whatever it is worth.
FotaTaskInit == /\ Booted
                /\ task = "init"
                /\ task' = "wait"
                /\ confirmed' = TRUE
                /\ UNCHANGED <<provisioningVars, pollVars, notif, length, filename,
                               fota_work, downloadVars, hurried, budget, fallback>>

\* PUBLISHes come only to a device the broker lets in.
Message == /\ Booted /\ Reachable
           /\ Arrive
           /\ UNCHANGED <<provisioningVars, fallback, confirmed>>

Forward == Publishing /\ UNCHANGED <<provisioningVars, fallback, confirmed>>

Request == FotaTask /\ UNCHANGED <<provisioningVars, fallback, confirmed>>

Work == FotaWork /\ UNCHANGED <<provisioningVars, fallback, confirmed>>

Downloading == Downloads /\ UNCHANGED <<provisioningVars, fallback, confirmed>>

\* MCUboot boots a new image once on trial, refuses one that is not whole, and
\* goes back to the old one if the trial was not confirmed.
Reset ==
    /\ Spend("reset")
    /\ \/ \E build \in slot :
              /\ slot = {build}
              /\ running' = build
              /\ fallback' = running
              /\ confirmed' = FALSE
       \/ /\ Cardinality(slot) # 1
          /\ ~confirmed
          /\ running' = fallback
          /\ confirmed' = TRUE
          /\ UNCHANGED fallback
       \/ /\ Cardinality(slot) # 1
          /\ confirmed
          /\ UNCHANGED <<running, fallback, confirmed>>
    /\ slot' = {}
    /\ ProvisioningReset
    /\ FotaReset

-----------------------------------------------------------------------------

Init == /\ FotaInit
        /\ running = <<>> /\ fallback = <<>> /\ confirmed = TRUE
        /\ store = [c \in Credentials |-> {}]
        /\ provision = "ca" /\ imei = {} /\ spoilt = FALSE
        /\ faults = Faults

Next == \/ Provisioning \/ FotaTaskInit \/ Message \/ Forward \/ Request
        \/ Downloading \/ Reset

Spec == Init /\ [][Next]_vars

\* The threads get the CPU, a queue is worked off or given up on.
FairSpec == /\ Spec
            /\ WF_vars(Forward) /\ WF_vars(Request) /\ WF_vars(Work)

-----------------------------------------------------------------------------
(* Properties *)

\* Types of the store, the boot, the request on its way and the image slots.
TypeOK ==
    /\ FotaTypeOK
    /\ running \in Seq(Nat) /\ fallback \in Seq(Nat)
    /\ DOMAIN store = Credentials
    /\ \A c \in Compiled : store[c] \subseteq Seq(Nat)
    /\ store["identity"] \in Identities
    /\ provision \in Calls
    /\ imei \in Identities
    /\ faults \in Nat /\ spoilt \in BOOLEAN /\ confirmed \in BOOLEAN

\* After a boot in which every call that can end the provisioning has succeeded,
\* the modem has the running build's credentials and the identity read in this
\* boot, whatever earlier boots of this and of other builds have left: updates,
\* reverted trials, provisionings cut off by an error or by a reset
\* (credentials_provision.c:135-259).
CredentialsMatch ==
    Booted /\ ~spoilt => /\ \A c \in Own : store[c] = {running}
                        /\ store["identity"] = imei

\* A device that the broker lets in is never locked out by a new provisioning, at
\* whichever call it fails or is cut off, but by an identity made of a response
\* that AT+CGSN has not filled in (credentials_provision.c:178-217).
StaysReachable == [][Reachable => Reachable' \/ imei = {"garbage"}]_vars

\* When the last PUBLISH is a firmware request and all requests have been worked
\* off, the name in fota.c is the one it asked for, however many came in a burst,
\* were read twice, or were copied while the next was being received.
LastRequestWins ==
    /\ poll = "poll" /\ task = "wait" /\ notif = 0
    /\ Len(sent) \in Requests
    /\ payload_buf[1] = Len(sent)
    => filename = Name(Len(sent))

\* When every PUBLISH and every command comes after the request before it is
\* through, the server is never asked for a name no request was for, nor half of
\* one, although the buffer, the name and the library share it unprotected.
DownloadsAsAsked == ~hurried => asked \subseteq (Files \cup {<<>>})

\* A request that comes on its own is downloaded, unless the library fails to start,
\* or is lost in a reset or because fota_task has ended.
RequestTried ==
    (poll = "publish" /\ ~hurried) ~>
        \/ Len(sent) \in Requests /\ filename = Name(Len(sent)) /\ download
        \/ budget["startfail"] < Budget["startfail"]
        \/ hurried \/ task \in {"ended", "init"}
=============================================================================
