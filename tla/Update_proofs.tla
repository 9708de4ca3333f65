---------------------------- MODULE Update_proofs ----------------------------
(***************************************************************************)
(* The credentials over boots and updates, and the way of a request, for    *)
(* every number of messages, resets and faults and every length of names    *)
(* and of the queue.                                                        *)
(***************************************************************************)
EXTENDS Update, SequenceTheorems, TLAPS

-----------------------------------------------------------------------------
(* Types of the way of a request *)

\* What the types rest on: there is a message to publish, and the buffer is
\* filled and copied from no further than the message is long.
Ranges ==
    /\ poll # "poll" => sent # <<>>
    /\ IF poll = "fill" THEN filled < Last(sent).length ELSE filled = 0
    /\ (notif > 0 \/ task = "read" \/ Locked) => fota_chan \in 1..Parts
    /\ task \in {"sleep", "copy"} => length \in 1..Parts
    /\ task = "copy" => Len(filename) < length

FotaTyped == FotaTypeOK /\ Ranges

PUBLISH == [fota : BOOLEAN, length : 1..Parts]

\* What an event takes from the budget leaves a budget.
LEMMA SpendTyped ==
  ASSUME NEW e \in FotaEvents, budget \in [FotaEvents -> Nat], Spend(e)
  PROVE  budget' \in [FotaEvents -> Nat]
BY DEF Spend

\* The newest PUBLISH is one of those sent.
LEMMA LastSent ==
  ASSUME FotaTypeOK, sent # <<>>
  PROVE  /\ Len(sent) \in Nat \ {0}
         /\ Last(sent) = sent[Len(sent)]
         /\ Last(sent) \in PUBLISH
         /\ Last(sent).length \in 1..Parts /\ Last(sent).fota \in BOOLEAN
<1>1. sent \in Seq(PUBLISH)
  BY DEF FotaTypeOK, PUBLISH
<1>2. Len(sent) \in Nat \ {0}
  BY <1>1, EmptySeq
<1>3. Last(sent) = sent[Len(sent)]
  BY DEF Last
<1>4. Last(sent) \in PUBLISH
  BY <1>1, <1>2, <1>3, ElementOfSeq
<1> QED
  BY <1>2, <1>3, <1>4 DEF PUBLISH

\* One more PUBLISH; the others stay.
LEMMA Sending ==
  ASSUME FotaTypeOK, Arrive
  PROVE  /\ sent' \in Seq(PUBLISH) /\ sent' # <<>>
         /\ Len(sent') = Len(sent) + 1 /\ Len(sent) \in Nat
         /\ \A n \in 1..Len(sent) : sent'[n] = sent[n]
         /\ Last(sent') \in PUBLISH /\ Last(sent').length \in 1..Parts
<1>1. sent \in Seq(PUBLISH)
  BY DEF FotaTypeOK, PUBLISH
<1>2. PICK fota \in BOOLEAN, n \in 1..Parts :
          sent' = Append(sent, [fota |-> fota, length |-> n])
  BY DEF Arrive
<1> DEFINE message == [fota |-> fota, length |-> n]
<1>3. message \in PUBLISH /\ message.length = n
  BY DEF PUBLISH
<1> HIDE DEF message
<1>4. sent' = Append(sent, message)
  BY <1>2 DEF message
<1>5. /\ sent' \in Seq(PUBLISH) /\ Len(sent') = Len(sent) + 1 /\ Len(sent) \in Nat
      /\ \A k \in 1..Len(sent) : sent'[k] = sent[k]
      /\ sent'[Len(sent')] = message
  BY <1>1, <1>3, <1>4
<1>6. sent' # <<>>
  BY <1>5, EmptySeq
<1> QED
  BY <1>3, <1>5, <1>6 DEF Last

\* The poll thread keeps the types.
LEMMA PollTyped ==
  ASSUME FotaTyped, Arrive \/ Publishing
  PROVE  FotaTyped'
<1> USE FotaAssumption DEF FotaTyped, Ranges, FotaTypeOK, buffer, fromTask, taskVars,
        downloadVars, environment, Locked
<1>1. CASE Arrive
  <2>1. budget' \in [FotaEvents -> Nat]
    BY <1>1, SpendTyped DEF Arrive, FotaEvents
  <2>2. hurried' \in BOOLEAN
    BY <1>1, Zenon DEF Arrive
  <2>3. /\ sent' \in Seq(PUBLISH) /\ sent' # <<>>
        /\ Last(sent').length \in 1..Parts
    BY <1>1, Sending
  <2>4. Ranges'
    BY <1>1, <2>3, SMTT(60) DEF Arrive
  <2>5. /\ poll' = "fill"
        /\ UNCHANGED <<payload_buf, filled, fota_chan, notif, fromTask>>
    BY <1>1 DEF Arrive
  <2> QED
    BY <2>1, <2>2, <2>3, <2>4, <2>5 DEF PUBLISH
<1>2. CASE Fill
  <2>1. sent # <<>> /\ Last(sent).length \in 1..Parts /\ poll = "fill"
    BY <1>2, LastSent DEF Fill
  <2>2. filled + 1 \in 1..Parts /\ Len(sent) \in Nat
    BY <2>1
  <2>3. payload_buf' \in [1..Parts -> Nat]
    BY <1>2, <2>2 DEF Fill
  <2>4. filled' \in 0..Parts
    BY <1>2, <2>2 DEF Fill
  <2>5. poll' \in {"fill", "poll", "publish"}
    BY <1>2, <2>1 DEF Fill
  <2>6. IF poll' = "fill" THEN filled' < Last(sent').length ELSE filled' = 0
    BY <1>2, <2>1 DEF Fill
  <2>7. UNCHANGED <<sent, fota_chan, notif, fromTask, environment>>
    BY <1>2 DEF Fill
  <2>8. FotaTypeOK'
    BY <2>3, <2>4, <2>5, <2>7
  <2>9. Ranges'
    BY <2>1, <2>5, <2>6, <2>7
  <2> QED
    BY <2>8, <2>9
<1>3. CASE CopyMessage
  BY <1>3, LastSent DEF CopyMessage
<1>4. CASE NotifyFotaApp
  <2>1. notif' \in 0..FotaLen /\ fota_chan \in 1..Parts
    BY <1>4, SMTT(60) DEF NotifyFotaApp
  <2> QED
    BY <1>4, <2>1 DEF NotifyFotaApp
<1>5. CASE NotifyTransport
  BY <1>5 DEF NotifyTransport
<1>6. CASE Unjam
  BY <1>6 DEF Unjam
<1> QED
  BY <1>1, <1>2, <1>3, <1>4, <1>5, <1>6 DEF Publishing

\* So does fota_task.
LEMMA TaskTyped ==
  ASSUME FotaTyped, FotaTask
  PROVE  FotaTyped'
<1> USE FotaAssumption DEF FotaTyped, Ranges, FotaTypeOK, buffer, pollVars, fromWork,
        downloadVars, environment, Locked
<1>1. CASE SubWait
  BY <1>1 DEF SubWait
<1>2. CASE ReadChan
  BY <1>2 DEF ReadChan
<1>3. CASE ReadTimeout
  BY <1>3 DEF ReadTimeout
<1>4. CASE BeginName
  BY <1>4, EmptySeq DEF BeginName
<1>5. CASE CopyName
  <2>1. Len(filename) \in Nat /\ Len(filename) + 1 \in 1..Parts
    BY <1>5 DEF CopyName
  <2>2. payload_buf[Len(filename) + 1] \in Nat
    BY <2>1
  <2>3. filename' \in Seq(Nat) /\ Len(filename') = Len(filename) + 1
    BY <1>5, <2>2 DEF CopyName
  <2> QED
    BY <1>5, <2>1, <2>3 DEF CopyName
<1>6. CASE Submit
  BY <1>6 DEF Submit
<1> QED
  BY <1>1, <1>2, <1>3, <1>4, <1>5, <1>6 DEF FotaTask

\* So do the downloads.
LEMMA DownloadsTyped ==
  ASSUME FotaTyped, Downloads
  PROVE  FotaTyped'
<1> USE FotaAssumption DEF FotaTyped, Ranges, FotaTypeOK, buffer, pollVars, taskVars,
        downloadVars, environment, Locked, FotaStart
<1>0. FotaStart => budget' \in [FotaEvents -> Nat]
  BY SpendTyped DEF FotaEvents
<1>1. CASE FotaWork
  BY <1>0, <1>1 DEF FotaWork
<1>2. CASE ShellDownload
  <2>1. hurried' \in BOOLEAN
    BY <1>2, Zenon DEF ShellDownload
  <2> QED
    BY <1>0, <1>2, <2>1 DEF ShellDownload
<1>3. CASE Ask
  BY <1>3 DEF Ask
<1>4. CASE DownloadError
  BY <1>4 DEF DownloadError
<1>5. CASE DownloadFinished
  BY <1>5 DEF DownloadFinished
<1> QED
  BY <1>1, <1>2, <1>3, <1>4, <1>5 DEF Downloads

\* A reset leaves nothing of a request.
LEMMA ResetTyped ==
  ASSUME FotaTyped, FotaReset, slot' = {}, budget' \in [FotaEvents -> Nat]
  PROVE  FotaTyped'
<1>1. filename' \in Seq(Nat) /\ Len(filename') = 0
  BY EmptySeq DEF FotaReset
<1>2. payload_buf' \in [1..Parts -> Nat]
  BY FotaAssumption DEF FotaReset, NoPayload
<1>3. /\ sent' \in Seq([fota : BOOLEAN, length : 1..Parts])
      /\ 0 \in 0..Parts /\ 0 \in 0..FotaLen
  BY FotaAssumption DEF FotaReset, FotaTyped, FotaTypeOK
<1>4. fota_work' \in BOOLEAN /\ download' \in BOOLEAN /\ hurried' \in BOOLEAN
  BY Zenon DEF FotaReset
<1>5. asked' \subseteq Seq(Nat) /\ slot' \subseteq Seq(Nat)
  BY DEF FotaReset
<1>6. Len(filename') <= Parts
  BY <1>1, FotaAssumption
<1>7. poll' = "poll" /\ task' = "init"
  BY DEF FotaReset
<1>8. /\ filled' \in 0..Parts /\ fota_chan' \in 0..Parts
      /\ notif' \in 0..FotaLen /\ length' \in 0..Parts
  BY <1>3 DEF FotaReset
<1>9. FotaTypeOK'
  BY <1>1, <1>2, <1>3, <1>4, <1>5, <1>6, <1>7, <1>8 DEF FotaTypeOK
<1>10. Ranges'
  BY DEF FotaReset, Ranges, Locked
<1> QED
  BY <1>9, <1>10 DEF FotaTyped

\* The FOTA module starts well typed.
LEMMA StartTyped == FotaInit => FotaTyped
<1> SUFFICES ASSUME FotaInit PROVE FotaTyped
  OBVIOUS
<1>1. sent \in Seq(PUBLISH) /\ filename \in Seq(Nat) /\ Len(filename) = 0
  BY EmptySeq DEF FotaInit
<1>2. payload_buf \in [1..Parts -> Nat]
  BY FotaAssumption DEF FotaInit, NoPayload
<1>3. 0 \in 0..Parts /\ 0 \in 0..FotaLen
  BY FotaAssumption
<1>4. fota_work \in BOOLEAN /\ download \in BOOLEAN /\ hurried \in BOOLEAN
  BY Zenon DEF FotaInit
<1>5. asked \subseteq Seq(Nat) /\ slot \subseteq Seq(Nat)
  BY DEF FotaInit
<1>6. Len(filename) <= Parts
  BY <1>1, FotaAssumption
<1>7. poll = "poll" /\ task = "init" /\ budget \in [FotaEvents -> Nat]
  BY FotaAssumption DEF FotaInit
<1>8. /\ filled \in 0..Parts /\ fota_chan \in 0..Parts
      /\ notif \in 0..FotaLen /\ length \in 0..Parts
  BY <1>3 DEF FotaInit
<1>9. FotaTypeOK
  BY <1>1, <1>2, <1>3, <1>4, <1>5, <1>6, <1>7, <1>8 DEF FotaTypeOK, PUBLISH
<1>10. Ranges
  BY DEF FotaInit, Ranges, Locked
<1> QED
  BY <1>9, <1>10 DEF FotaTyped

-----------------------------------------------------------------------------
(* Types of the store and of the builds, and the credentials *)

ProvisioningTyped ==
    /\ running \in Seq(Nat) /\ fallback \in Seq(Nat)
    /\ DOMAIN store = Credentials
    /\ \A c \in Compiled : store[c] \subseteq Seq(Nat)
    /\ store["identity"] \in Identities
    /\ provision \in Calls
    /\ imei \in Identities
    /\ faults \in Nat /\ spoilt \in BOOLEAN /\ confirmed \in BOOLEAN

\* The calls of a provisioning that come before each one.
Before == [ca |-> {}, cert |-> {"ca"}, key |-> {"ca", "cert"},
           cgsn |-> {"ca", "cert", "key"}, identity |-> {"ca", "cert", "key"},
           psk |-> {"ca", "cert", "key"}, exists |-> {"ca", "cert", "key", "psk"},
           delete |-> {"ca", "cert", "key", "psk"},
           fota_ca |-> {"ca", "cert", "key", "psk"}, done |-> Compiled]

\* Those after the identity has been written.
After == {"psk", "exists", "delete", "fota_ca", "done"}

\* As long as the provisioning goes well, what it has been through is in place.
Provisioned ==
    /\ ~spoilt => \A c \in Own \cap Before[provision] : store[c] = {running}
    /\ ~spoilt /\ provision \in After => store["identity"] = imei
    /\ provision = "identity" => imei # {}

\* The order of the calls, one by one.
LEMMA Order ==
  /\ \A c \in Compiled : /\ Following[c] \in Calls
                         /\ Before[Following[c]] = Before[c] \cup {c}
  /\ Following["cgsn"] = "identity" /\ Before["identity"] = Before["cgsn"]
  /\ Following["identity"] = "psk" /\ Before["psk"] = Before["identity"]
  /\ Before["delete"] = Before["exists"] /\ Before["fota_ca"] = Before["exists"]
  /\ \A c \in Compiled : Following[c] # "identity"
  /\ \A c \in Compiled : Following[c] \in After => c \in After
<1> USE DEF Compiled, Calls, Following, Before, After
<1>1. /\ Following["ca"] = "cert" /\ Following["cert"] = "key"
      /\ Following["key"] = "cgsn" /\ Following["psk"] = "exists"
      /\ Following["fota_ca"] = "done"
  OBVIOUS
<1>2. \A c \in Compiled : Following[c] \in Calls /\ Following[c] # "identity"
  BY <1>1
<1>3. \A c \in Compiled : Before[Following[c]] = Before[c] \cup {c}
  <2> SUFFICES ASSUME NEW c \in Compiled PROVE Before[Following[c]] = Before[c] \cup {c}
    OBVIOUS
  <2>1. CASE c = "ca"
    BY <2>1
  <2>2. CASE c = "cert"
    BY <2>2
  <2>3. CASE c = "key"
    BY <2>3
  <2>4. CASE c = "psk"
    BY <2>4
  <2>5. CASE c = "fota_ca"
    BY <2>5
  <2> QED
    BY <2>1, <2>2, <2>3, <2>4, <2>5
<1>4. \A c \in Compiled : Following[c] \in After => c \in After
  BY <1>1
<1> QED
  BY <1>2, <1>3, <1>4

\* A write replaces one credential, and the builds have all but the identity.
LEMMA Written ==
  ASSUME DOMAIN store = Credentials, NEW c \in Credentials, NEW content,
         store' = [store EXCEPT ![c] = content]
  PROVE  /\ DOMAIN store' = Credentials
         /\ store'[c] = content
         /\ \A d \in Credentials \ {c} : store'[d] = store[d]
OBVIOUS

\* The names of the credentials, which are written in Provisioning.tla.
LEMMA CredentialNames ==
  /\ Credentials = Compiled \cup {"identity"} /\ "identity" \notin Compiled
  /\ Own \subseteq Compiled /\ {"psk", "fota_ca"} \subseteq Own
  /\ "done" \in Calls \ Compiled /\ Compiled \subseteq Calls
BY ProvisioningAssumption DEF Credentials, Compiled, Own, Calls

\* A failure spends a fault and ends the provisioning.
LEMMA FailureKeeps ==
  ASSUME ProvisioningTyped, Provisioned, Fails, provision' = "done", spoilt' = TRUE,
         UNCHANGED <<running, store, imei, fallback, confirmed>>
  PROVE  ProvisioningTyped' /\ Provisioned' /\ (Reachable => Reachable')
<1>1. faults' \in Nat
  BY DEF Fails, ProvisioningTyped
<1>2. spoilt' \in BOOLEAN
  OBVIOUS
<1>3. confirmed' \in BOOLEAN
  BY Zenon DEF ProvisioningTyped
<1>4. ProvisioningTyped'
  BY <1>1, <1>2, <1>3, CredentialNames DEF ProvisioningTyped
<1>5. Provisioned'
  BY DEF Provisioned
<1>6. Reachable => Reachable'
  BY DEF Reachable
<1> QED
  BY <1>4, <1>5, <1>6

\* A write of one of the compiled credentials.
LEMMA OwnKeeps ==
  ASSUME ProvisioningTyped, Provisioned, UNCHANGED <<fallback, confirmed>>,
         NEW c \in Compiled, WriteOwn(c)
  PROVE  ProvisioningTyped' /\ Provisioned' /\ (Reachable => Reachable')
<1> USE CredentialNames
<1>0. provision = c /\ UNCHANGED <<running, imei>>
  BY DEF WriteOwn
<1>1. CASE c \in Own /\ Fails /\ provision' = "done" /\ spoilt' = TRUE /\ UNCHANGED store
  BY <1>0, <1>1, FailureKeeps
<1>2. CASE /\ provision' = Following[c]
           /\ UNCHANGED <<faults, spoilt>>
           /\ \/ c \in Own /\ store' = [store EXCEPT ![c] = {running}]
              \/ c \notin Own /\ UNCHANGED store
  <2>1. /\ DOMAIN store' = Credentials
        /\ \A d \in Credentials \ {c} : store'[d] = store[d]
        /\ c \in Own => store'[c] = {running}
        /\ c \notin Own => store'[c] = store[c]
    BY <1>2, Written DEF ProvisioningTyped
  <2>2. \A d \in Compiled : store'[d] \subseteq Seq(Nat)
    <3> SUFFICES ASSUME NEW d \in Compiled PROVE store'[d] \subseteq Seq(Nat)
      OBVIOUS
    <3>1. CASE d # c \/ c \notin Own
      BY <2>1, <3>1 DEF ProvisioningTyped
    <3>2. CASE d = c /\ c \in Own
      BY <2>1, <3>2 DEF ProvisioningTyped
    <3> QED
      BY <3>1, <3>2
  <2>3. store'["identity"] = store["identity"]
    BY <2>1
  <2>4. provision' \in Calls /\ provision' # "identity"
    BY <1>2, Order
  <2>5. spoilt' \in BOOLEAN /\ confirmed' \in BOOLEAN
    BY <1>2, Zenon DEF ProvisioningTyped
  <2>6. ProvisioningTyped'
    BY <1>0, <1>2, <2>1, <2>2, <2>3, <2>4, <2>5 DEF ProvisioningTyped
  <2>7. ASSUME ~spoilt', NEW d \in Own \cap Before[provision']
        PROVE  store'[d] = {running'}
    <3>1. d \in Before[c] \/ d = c
      BY <1>2, <2>7, Order
    <3>2. CASE d = c
      BY <1>0, <2>1, <3>2
    <3>3. CASE d \in Before[c] /\ d # c
      BY <1>0, <1>2, <2>1, <2>7, <3>3 DEF Provisioned
    <3> QED
      BY <3>1, <3>2, <3>3
  <2>8. ~spoilt' /\ provision' \in After => store'["identity"] = imei'
    BY <1>0, <1>2, <2>3, Order DEF Provisioned
  <2>9. Provisioned'
    BY <2>4, <2>7, <2>8 DEF Provisioned
  <2>10. Reachable => Reachable'
    BY <2>1, <2>3 DEF Reachable
  <2> QED
    BY <2>6, <2>9, <2>10
<1> QED
  BY <1>1, <1>2 DEF WriteOwn, Write

\* Reading the IMEI keeps what is provisioned, and the device reachable.
LEMMA ImeiKeeps ==
  ASSUME ProvisioningTyped, Provisioned, UNCHANGED <<fallback, confirmed>>, ReadImei
  PROVE  ProvisioningTyped' /\ Provisioned' /\ (Reachable => Reachable')
<1>1. /\ provision = "cgsn" /\ provision' = "identity"
      /\ UNCHANGED <<running, store, spoilt>>
  BY Order DEF ReadImei
<1>2. imei' \in {{"imei"}, {"garbage"}} /\ (faults' = faults \/ Fails)
  BY DEF ReadImei
<1>3. faults' \in Nat
  BY <1>2 DEF Fails, ProvisioningTyped
<1>4. spoilt' \in BOOLEAN /\ confirmed' \in BOOLEAN
  BY <1>1, Zenon DEF ProvisioningTyped
<1>5. "identity" \in Calls /\ imei' \in Identities
  BY <1>2 DEF Calls, Identities
<1>6. ProvisioningTyped'
  BY <1>1, <1>3, <1>4, <1>5 DEF ProvisioningTyped
<1>7. "identity" \notin After
  BY DEF After
<1>8. Provisioned'
  BY <1>1, <1>2, <1>7, Order DEF Provisioned
<1>9. Reachable => Reachable'
  BY <1>1 DEF Reachable
<1> QED
  BY <1>6, <1>8, <1>9

\* The identity is what AT+CGSN has left, the IMEI or what was in the buffer.
LEMMA IdentityKeeps ==
  ASSUME ProvisioningTyped, Provisioned, UNCHANGED <<fallback, confirmed>>, WriteIdentity
  PROVE  /\ ProvisioningTyped' /\ Provisioned'
         /\ Reachable => Reachable' \/ imei = {"garbage"}
<1> USE CredentialNames
<1>0. provision = "identity" /\ UNCHANGED <<running, imei>>
  BY DEF WriteIdentity
<1>1. CASE Fails /\ provision' = "done" /\ spoilt' = TRUE /\ UNCHANGED store
  BY <1>0, <1>1, FailureKeeps
<1>2. CASE /\ store' = [store EXCEPT !["identity"] = imei]
           /\ provision' = Following["identity"]
           /\ UNCHANGED <<faults, spoilt>>
  <2>1. /\ DOMAIN store' = Credentials
        /\ \A d \in Compiled : store'[d] = store[d]
        /\ store'["identity"] = imei
    BY <1>2, Written DEF ProvisioningTyped
  <2>2. provision' = "psk" /\ "psk" \in Calls
    BY <1>2, Order DEF Calls, Compiled
  <2>3. spoilt' \in BOOLEAN /\ confirmed' \in BOOLEAN
    BY <1>2, Zenon DEF ProvisioningTyped
  <2>4. ProvisioningTyped'
    BY <1>0, <1>2, <2>1, <2>2, <2>3 DEF ProvisioningTyped
  <2>5. ASSUME ~spoilt', NEW d \in Own \cap Before[provision']
        PROVE  store'[d] = {running'}
    BY <1>0, <1>2, <2>1, <2>2, <2>5, Order DEF Provisioned
  <2>6. Provisioned'
    BY <1>0, <2>1, <2>2, <2>5 DEF Provisioned
  <2>7. Reachable => Reachable' \/ imei = {"garbage"}
    BY <1>0, <2>1 DEF Provisioned, Reachable, ProvisioningTyped, Identities
  <2> QED
    BY <2>4, <2>6, <2>7
<1> QED
  BY <1>1, <1>2 DEF WriteIdentity, Write

\* The certificate for downloads is looked for and removed before it is written.
LEMMA FotaCertKeeps ==
  ASSUME ProvisioningTyped, Provisioned, UNCHANGED <<fallback, confirmed>>,
         Exists \/ Delete
  PROVE  ProvisioningTyped' /\ Provisioned' /\ (Reachable => Reachable')
<1> USE CredentialNames
<1>0. /\ UNCHANGED <<running, imei>> /\ provision \in {"exists", "delete"}
      /\ {"exists", "delete", "fota_ca"} \subseteq Calls \cap After
      /\ Before["delete"] = Before["exists"] /\ Before["fota_ca"] = Before["exists"]
      /\ "fota_ca" \notin Before["exists"]
  BY Order DEF Exists, Delete, Calls, Compiled, After, Before
<1>1. CASE Fails /\ provision' = "done" /\ spoilt' = TRUE /\ UNCHANGED store
  BY <1>0, <1>1, FailureKeeps
<1>2. CASE /\ provision' \in {"delete", "fota_ca"}
           /\ faults' = faults \/ Fails
           /\ UNCHANGED spoilt
           /\ \/ UNCHANGED store
              \/ store' = [store EXCEPT !["fota_ca"] = {}]
  <2>1. "fota_ca" \in Credentials
    BY DEF Compiled
  <2>2. /\ DOMAIN store' = Credentials
        /\ \A d \in Credentials \ {"fota_ca"} : store'[d] = store[d]
        /\ store'["fota_ca"] \in {store["fota_ca"], {}}
    BY <1>2, <2>1, Written DEF ProvisioningTyped
  <2>3. \A d \in Compiled : store'[d] \subseteq Seq(Nat)
    <3> SUFFICES ASSUME NEW d \in Compiled PROVE store'[d] \subseteq Seq(Nat)
      OBVIOUS
    <3>1. CASE d # "fota_ca"
      BY <2>2, <3>1 DEF ProvisioningTyped
    <3>2. CASE d = "fota_ca"
      BY <2>2, <3>2 DEF ProvisioningTyped
    <3> QED
      BY <3>1, <3>2
  <2>4. store'["identity"] = store["identity"] /\ store'["psk"] = store["psk"]
    BY <2>2 DEF Compiled
  <2>5. faults' \in Nat
    BY <1>2 DEF Fails, ProvisioningTyped
  <2>6. spoilt' \in BOOLEAN /\ confirmed' \in BOOLEAN
    BY <1>2, Zenon DEF ProvisioningTyped
  <2>7. ProvisioningTyped'
    BY <1>0, <1>2, <2>2, <2>3, <2>4, <2>5, <2>6 DEF ProvisioningTyped
  <2>8. ASSUME ~spoilt', NEW d \in Own \cap Before[provision']
        PROVE  store'[d] = {running'}
    BY <1>0, <1>2, <2>2, <2>8 DEF Provisioned
  <2>9. Provisioned'
    BY <1>0, <1>2, <2>4, <2>8 DEF Provisioned
  <2>10. Reachable => Reachable'
    BY <2>4 DEF Reachable
  <2> QED
    BY <2>7, <2>9, <2>10
<1>3. Exists => \/ Fails /\ provision' = "done" /\ spoilt' = TRUE /\ UNCHANGED store
                \/ provision' \in {"delete", "fota_ca"} /\ UNCHANGED <<faults, spoilt, store>>
  BY DEF Exists
<1>4. Delete => /\ provision' = "fota_ca"
                /\ faults' = faults \/ Fails
                /\ UNCHANGED spoilt
                /\ \/ UNCHANGED store
                   \/ store' = [store EXCEPT !["fota_ca"] = {}]
  BY DEF Delete
<1> QED
  BY <1>1, <1>2, <1>3, <1>4

\* Every call of the provisioning keeps the types and what is in place.
LEMMA ProvisionKeeps ==
  ASSUME ProvisioningTyped, Provisioned, Provision, UNCHANGED <<fallback, confirmed>>
  PROVE  /\ ProvisioningTyped' /\ Provisioned'
         /\ Reachable => Reachable' \/ imei = {"garbage"}
BY OwnKeeps, ImeiKeeps, IdentityKeeps, FotaCertKeeps DEF Provision

-----------------------------------------------------------------------------
(* The specification: types, credentials and reachability *)

UpdateInv == FotaTyped /\ ProvisioningTyped /\ Provisioned

\* UpdateInv is inductive: it holds at first ...
LEMMA UpdateStart == Init => UpdateInv
<1> SUFFICES ASSUME Init PROVE UpdateInv
  OBVIOUS
<1>1. FotaTyped
  BY StartTyped DEF Init
<1>2. DOMAIN store = Credentials /\ \A c \in Credentials : store[c] = {}
  BY DEF Init
<1>3. running \in Seq(Nat) /\ fallback \in Seq(Nat)
  BY EmptySeq DEF Init
<1>4. "ca" \in Calls /\ {} \in Identities /\ "ca" \notin After /\ Before["ca"] = {}
  BY DEF Calls, Compiled, Identities, After, Before
<1>5. spoilt \in BOOLEAN /\ confirmed \in BOOLEAN
  BY Zenon DEF Init
<1>6. ProvisioningTyped
  BY <1>2, <1>3, <1>4, <1>5, CredentialNames, ProvisioningAssumption
     DEF ProvisioningTyped, Init
<1>7. Provisioned
  BY <1>4 DEF Provisioned, Init
<1> QED
  BY <1>1, <1>6, <1>7 DEF UpdateInv

\* Whatever MCUboot chooses, the next boot begins its provisioning anew.
LEMMA ResetKeeps ==
  ASSUME UpdateInv, Reset
  PROVE  UpdateInv' /\ (Reachable => Reachable')
<1>1. /\ FotaTyped /\ FotaTypeOK /\ ProvisioningTyped
      /\ FotaReset /\ slot' = {} /\ Spend("reset") /\ ProvisioningReset
  BY DEF UpdateInv, FotaTyped, Reset
<1>2. budget' \in [FotaEvents -> Nat]
  BY <1>1, SpendTyped DEF FotaTypeOK, FotaEvents
<1>3. FotaTyped'
  BY <1>1, <1>2, ResetTyped
<1>4. running' \in Seq(Nat) /\ fallback' \in Seq(Nat)
  <2>1. running \in Seq(Nat) /\ fallback \in Seq(Nat) /\ slot \subseteq Seq(Nat)
    BY <1>1 DEF ProvisioningTyped, FotaTypeOK
  <2> QED
    BY <2>1 DEF Reset
<1>5. confirmed' \in BOOLEAN
  <2>1. confirmed \in BOOLEAN
    BY <1>1 DEF ProvisioningTyped
  <2> QED
    BY <2>1, Zenon DEF Reset
<1>6. /\ provision' = "ca" /\ imei' = {} /\ spoilt' = FALSE
      /\ store' = store /\ faults' = faults
  BY <1>1 DEF ProvisioningReset
<1>7. "ca" \in Calls /\ {} \in Identities /\ "ca" \notin After /\ Before["ca"] = {}
  BY DEF Calls, Compiled, Identities, After, Before
<1>8. ProvisioningTyped'
  BY <1>1, <1>4, <1>5, <1>6, <1>7 DEF ProvisioningTyped
<1>9. Provisioned'
  BY <1>6, <1>7 DEF Provisioned
<1>10. Reachable => Reachable'
  BY <1>6 DEF Reachable
<1> QED
  BY <1>3, <1>8, <1>9, <1>10 DEF UpdateInv

\* The steps of a request do not touch the store.
LEMMA StoreKept ==
  ASSUME ProvisioningTyped, Provisioned, UNCHANGED <<provisioningVars, fallback>>,
         confirmed' \in BOOLEAN
  PROVE  ProvisioningTyped' /\ Provisioned' /\ (Reachable => Reachable')
<1>1. /\ UNCHANGED <<running, store, provision, imei, faults, spoilt, fallback>>
  BY DEF provisioningVars
<1>2. spoilt' \in BOOLEAN
  BY <1>1, Zenon DEF ProvisioningTyped
<1>3. ProvisioningTyped'
  BY <1>1, <1>2 DEF ProvisioningTyped
<1>4. Provisioned'
  BY <1>1 DEF Provisioned
<1>5. Reachable => Reachable'
  BY <1>1 DEF Reachable
<1> QED
  BY <1>3, <1>4, <1>5

\* Nor do the calls of the provisioning touch a request.
LEMMA RequestKept ==
  ASSUME FotaTyped, UNCHANGED fotaVars
  PROVE  FotaTyped'
<1>1. UNCHANGED <<sent, payload_buf, poll, filled, fota_chan, notif, task, length,
                  filename, fota_work, download, asked, slot, hurried, budget>>
  BY DEF fotaVars, pollVars, buffer, fromTask, taskVars, downloadVars, environment
<1>2. hurried' \in BOOLEAN /\ fota_work' \in BOOLEAN /\ download' \in BOOLEAN
  BY <1>1, Zenon DEF FotaTyped, FotaTypeOK
<1>3. FotaTypeOK'
  BY <1>1, <1>2 DEF FotaTyped, FotaTypeOK
<1>4. Ranges'
  BY <1>1 DEF FotaTyped, Ranges, Locked
<1> QED
  BY <1>3, <1>4 DEF FotaTyped

\* The end of fota_init is a step of the request's task as well.
LEMMA InitTyped ==
  ASSUME FotaTyped, FotaTaskInit
  PROVE  FotaTyped'
<1>1. /\ UNCHANGED <<sent, payload_buf, poll, filled, fota_chan, notif, length,
                     filename, fota_work, download, asked, slot, hurried, budget>>
      /\ task = "init" /\ task' = "wait"
  BY DEF FotaTaskInit, pollVars, buffer, downloadVars
<1>2. hurried' \in BOOLEAN /\ fota_work' \in BOOLEAN /\ download' \in BOOLEAN
  BY <1>1, Zenon DEF FotaTyped, FotaTypeOK
<1>3. FotaTypeOK'
  BY <1>1, <1>2 DEF FotaTyped, FotaTypeOK
<1>4. Ranges'
  BY <1>1 DEF FotaTyped, Ranges, Locked
<1> QED
  BY <1>3, <1>4 DEF FotaTyped

\* ... every step keeps it, and only a garbled IMEI makes the device unreachable ...
LEMMA UpdateStep ==
  ASSUME UpdateInv, [Next]_vars
  PROVE  UpdateInv' /\ (Reachable => Reachable' \/ imei = {"garbage"})
<1>1. FotaTyped /\ ProvisioningTyped /\ Provisioned /\ confirmed \in BOOLEAN
  BY DEF UpdateInv, ProvisioningTyped
<1>2. CASE Provisioning
  <2>1. FotaTyped'
    BY <1>1, <1>2, RequestKept DEF Provisioning
  <2> QED
    BY <1>1, <1>2, <2>1, ProvisionKeeps DEF Provisioning, UpdateInv
<1>3. CASE FotaTaskInit
  <2>1. FotaTyped'
    BY <1>1, <1>3, InitTyped
  <2>2. UNCHANGED <<provisioningVars, fallback>> /\ confirmed' \in BOOLEAN
    BY <1>3 DEF FotaTaskInit
  <2> QED
    BY <1>1, <2>1, <2>2, StoreKept DEF UpdateInv
<1>4. CASE Message \/ Forward \/ Request \/ Downloading
  <2>1. FotaTyped'
    BY <1>1, <1>4, PollTyped, TaskTyped, DownloadsTyped
       DEF Message, Forward, Request, Downloading
  <2>2. UNCHANGED <<provisioningVars, fallback, confirmed>>
    BY <1>4 DEF Message, Forward, Request, Downloading
  <2>3. confirmed' \in BOOLEAN
    BY <1>1, <2>2, Zenon
  <2> QED
    BY <1>1, <2>1, <2>2, <2>3, StoreKept DEF UpdateInv
<1>5. CASE Reset
  BY <1>5, ResetKeeps
<1>6. CASE UNCHANGED vars
  <2>1. FotaTyped'
    BY <1>1, <1>6, RequestKept DEF vars
  <2>2. UNCHANGED <<provisioningVars, fallback, confirmed>>
    BY <1>6 DEF vars
  <2>3. confirmed' \in BOOLEAN
    BY <1>1, <2>2, Zenon
  <2> QED
    BY <1>1, <2>1, <2>2, <2>3, StoreKept DEF UpdateInv
<1> QED
  BY <1>2, <1>3, <1>4, <1>5, <1>6 DEF Next

\* ... so that it always holds.
LEMMA UpdateInvariant == Spec => []UpdateInv
<1>1. UpdateInv /\ [Next]_vars => UpdateInv'
  BY UpdateStep
<1> QED
  BY UpdateStart, <1>1, PTL DEF Spec

\* Types, for every number of messages, resets and faults: in particular the
\* buffer, the name and the channel are never used past the length of a message.
THEOREM TypeCorrect == Spec => []TypeOK
<1>1. UpdateInv => TypeOK
  BY DEF UpdateInv, FotaTyped, ProvisioningTyped, TypeOK
<1> QED
  BY UpdateInvariant, <1>1, PTL

\* A boot whose provisioning has not failed ends with the running build's
\* credentials and this boot's identity in the modem, after any number of
\* updates, reverts, faults and resets in between.
THEOREM CredentialsSafe == Spec => []CredentialsMatch
<1>1. UpdateInv => CredentialsMatch
  <2> SUFFICES ASSUME UpdateInv, Booted, ~spoilt
               PROVE  /\ \A c \in Own : store[c] = {running}
                      /\ store["identity"] = imei
    BY DEF CredentialsMatch
  <2>1. provision = "done" /\ "done" \in After /\ Before["done"] = Compiled
    BY DEF Booted, After, Before
  <2> QED
    BY <2>1, CredentialNames DEF UpdateInv, Provisioned
<1> QED
  BY UpdateInvariant, <1>1, PTL

\* No step of a provisioning locks out a device the broker lets in, but with an
\* identity that AT+CGSN has not read.
THEOREM ReachableSafe == Spec => StaysReachable
<1>1. UpdateInv /\ [Next]_vars => [Reachable => Reachable' \/ imei = {"garbage"}]_vars
  BY UpdateStep
<1> QED
  BY UpdateInvariant, <1>1, PTL DEF Spec, StaysReachable

-----------------------------------------------------------------------------
(* The newest request: nothing overtakes it *)

Newest == Len(sent)
Wanted == sent[Newest].length
Wished == Name(Newest)

\* The newest PUBLISH is a request and is in payload_buf.
Fresh == poll # "fill" /\ Newest \in Requests /\ payload_buf[1] = Newest

\* What comes before the name is in place: a reference in the queue, or one of
\* the steps of fota_task, with what it has got from the channel so far.
Coming ==
    \/ notif > 0
    \/ task \in {"read", "ended"}
    \/ task = "sleep" /\ length = Wanted
    \/ /\ task = "copy" /\ length = Wanted
       /\ \A i \in 1..Len(filename) : filename[i] = Newest
    \/ task \in {"wait", "submit"} /\ filename = Wished

Filled == poll = "fill" => \A i \in 1..filled : payload_buf[i] = Newest
Whole == Fresh => \A i \in 1..Wanted : payload_buf[i] = Newest
Published == poll = "publish" \/ poll = "fota_app" \/ Locked => Fresh
Announced == Fresh /\ poll # "publish" => fota_chan = Wanted
Delivered == Fresh /\ poll \notin {"publish", "fota_app"} => Coming

RequestInv == FotaTyped /\ Filled /\ Whole /\ Published /\ Announced /\ Delivered

\* What has been asked for depends on the requests that were sent only.
LEMMA SameRequests ==
  ASSUME UNCHANGED sent
  PROVE  /\ Newest' = Newest /\ Wanted' = Wanted /\ Wished' = Wished
         /\ Requests' = Requests /\ Files' = Files
BY DEF Newest, Wanted, Wished, Requests, Files, Name

\* The newest request, once there is one.
LEMMA NewestSent ==
  ASSUME FotaTypeOK, sent # <<>>
  PROVE  /\ Newest \in Nat \ {0} /\ Wanted \in 1..Parts /\ Last(sent).length = Wanted
         /\ Last(sent).fota <=> Newest \in Requests
<1>1. Newest \in Nat \ {0} /\ Last(sent) = sent[Newest] /\ Wanted \in 1..Parts
  BY LastSent DEF Newest, Wanted
<1>2. Newest \in DOMAIN sent
  BY <1>1 DEF FotaTypeOK, Newest
<1> QED
  BY <1>1, <1>2 DEF Wanted, Requests

\* A name with all its parts is the one the request was for.
LEMMA NameComplete ==
  ASSUME NEW name \in Seq(Nat), Len(name) = Wanted,
         \A i \in 1..Len(name) : name[i] = Newest
  PROVE  name = Wished
<1>1. name = [i \in 1..Len(name) |-> name[i]]
  OBVIOUS
<1> QED
  BY <1>1 DEF Wished, Name, Wanted

\* The poll thread
LEMMA FillDelivers ==
  ASSUME RequestInv, Fill
  PROVE  Filled' /\ Whole' /\ Published' /\ Announced' /\ Delivered'
<1>1. /\ poll = "fill" /\ sent' = sent /\ sent # <<>> /\ FotaTypeOK
      /\ filled < Last(sent).length
  BY DEF Fill, RequestInv, FotaTyped, Ranges
<1>2. /\ Newest' = Newest /\ Wanted' = Wanted /\ Requests' = Requests
      /\ Newest \in Nat \ {0} /\ Wanted \in 1..Parts /\ Last(sent).length = Wanted
      /\ Last(sent).fota <=> Newest \in Requests
  BY <1>1, SameRequests, NewestSent
<1>3. filled + 1 \in 1..Parts /\ filled \in Nat
  BY <1>1, <1>2, FotaAssumption DEF FotaTypeOK
<1>4. \A i \in 1..filled+1 : payload_buf'[i] = Newest
  <2>1. payload_buf \in [1..Parts -> Nat] /\ \A i \in 1..filled : payload_buf[i] = Newest
    BY <1>1 DEF FotaTypeOK, RequestInv, Filled
  <2>2. payload_buf' = [payload_buf EXCEPT ![filled + 1] = Newest]
    BY DEF Fill, Newest
  <2> QED
    BY <1>3, <2>1, <2>2
<1>5. CASE /\ filled + 1 < Last(sent).length
           /\ filled' = filled + 1 /\ poll' = "fill"
  BY <1>2, <1>4, <1>5 DEF Filled, Whole, Published, Announced, Delivered, Fresh, Locked
<1>6. CASE /\ filled + 1 = Last(sent).length /\ Last(sent).fota /\ poll' = "publish"
  <2>1. Fresh' /\ Filled' /\ Published'
    BY <1>2, <1>3, <1>4, <1>6 DEF Filled, Fresh, Published
  <2>2. Whole'
    BY <1>2, <1>4, <1>6 DEF Whole
  <2> QED
    BY <1>6, <2>1, <2>2 DEF Announced, Delivered
<1>7. CASE /\ filled + 1 = Last(sent).length /\ ~Last(sent).fota /\ poll' = "poll"
  BY <1>2, <1>7 DEF Filled, Whole, Published, Announced, Delivered, Fresh, Locked
<1> QED
  BY <1>1, <1>5, <1>6, <1>7 DEF Fill

\* The poll thread receives a request and publishes it on the channel.
LEMMA PollDelivers ==
  ASSUME RequestInv, Arrive \/ Publishing
  PROVE  Filled' /\ Whole' /\ Published' /\ Announced' /\ Delivered'
<1>1. CASE Arrive
  <2>1. poll' = "fill" /\ filled' = 0
    BY <1>1 DEF Arrive, RequestInv, FotaTyped, Ranges
  <2> QED
    BY <2>1 DEF Filled, Whole, Published, Announced, Delivered, Fresh, Locked
<1>2. CASE Fill
  BY <1>2, FillDelivers
<1>3. CASE CopyMessage
  <2>1. /\ poll = "publish" /\ poll' = "fota_app" /\ UNCHANGED <<sent, payload_buf>>
        /\ fota_chan' = Last(sent).length /\ FotaTypeOK /\ sent # <<>> /\ Fresh
    BY <1>3 DEF CopyMessage, buffer, RequestInv, FotaTyped, Ranges, Published
  <2>2. /\ Newest' = Newest /\ Wanted' = Wanted /\ Requests' = Requests
        /\ fota_chan' = Wanted'
    BY <2>1, SameRequests, NewestSent
  <2>3. Fresh'
    BY <2>1, <2>2 DEF Fresh
  <2> QED
    BY <2>1, <2>2, <2>3 DEF RequestInv, Filled, Whole, Published, Announced, Delivered
<1>4. CASE NotifyFotaApp \/ NotifyTransport \/ Unjam
  <2>1. /\ UNCHANGED <<sent, payload_buf, filled, fota_chan, task, length, filename>>
        /\ poll \in {"fota_app", "transport", "jammed"}
        /\ poll' \in {"transport", "jammed", "poll"}
    BY <1>4 DEF NotifyFotaApp, NotifyTransport, Unjam, buffer, fromTask, taskVars
  <2>2. /\ Newest' = Newest /\ Wanted' = Wanted /\ Wished' = Wished
        /\ Requests' = Requests
    BY <2>1, SameRequests
  <2>3. Fresh /\ Fresh' /\ fota_chan = Wanted
    BY <2>1, <2>2 DEF RequestInv, Published, Announced, Locked, Fresh
  <2>4. Filled' /\ Whole' /\ Published' /\ Announced'
    BY <2>1, <2>2, <2>3 DEF RequestInv, Filled, Whole, Published, Announced
  <2>5. Coming'
    <3>1. CASE NotifyFotaApp
      <4>1. notif' > 0
        BY <3>1, FotaAssumption DEF NotifyFotaApp, RequestInv, FotaTyped, FotaTypeOK
      <4> QED
        BY <4>1 DEF Coming
    <3>2. CASE NotifyTransport \/ Unjam
      <4>1. notif' = notif /\ poll \notin {"publish", "fota_app"}
        BY <3>2 DEF NotifyTransport, Unjam
      <4>2. Coming
        BY <2>3, <4>1 DEF RequestInv, Delivered
      <4> QED
        BY <2>1, <2>2, <4>1, <4>2 DEF Coming
    <3> QED
      BY <1>4, <3>1, <3>2
  <2> QED
    BY <2>4, <2>5 DEF Delivered
<1> QED
  BY <1>1, <1>2, <1>3, <1>4 DEF Publishing

\* Without the poll thread only the last part can change.
LEMMA BufferKept ==
  ASSUME RequestInv, UNCHANGED pollVars
  PROVE  /\ Filled' /\ Whole' /\ Published' /\ Announced'
         /\ Newest' = Newest /\ Wanted' = Wanted /\ Wished' = Wished /\ Files' = Files
         /\ Fresh' <=> Fresh
<1>1. UNCHANGED <<sent, payload_buf, filled, poll, fota_chan>>
  BY DEF pollVars, buffer
<1>2. /\ Newest' = Newest /\ Wanted' = Wanted /\ Wished' = Wished
      /\ Requests' = Requests /\ Files' = Files
  BY <1>1, SameRequests
<1>3. Fresh' <=> Fresh
  BY <1>1, <1>2 DEF Fresh
<1> QED
  BY <1>1, <1>2, <1>3 DEF RequestInv, Filled, Whole, Published, Announced, Locked

\* The task copies what it is notified of into its buffers.
LEMMA TaskDelivers ==
  ASSUME RequestInv, FotaTask
  PROVE  Filled' /\ Whole' /\ Published' /\ Announced' /\ Delivered'
<1>1. UNCHANGED pollVars
  BY DEF FotaTask, SubWait, ReadChan, ReadTimeout, BeginName, CopyName, Submit
<1>2. /\ Filled' /\ Whole' /\ Published' /\ Announced'
      /\ Newest' = Newest /\ Wanted' = Wanted /\ Wished' = Wished
      /\ Fresh' <=> Fresh
  BY <1>1, BufferKept
<1>3. FotaTypeOK /\ Ranges /\ poll' = poll
  BY <1>1 DEF RequestInv, FotaTyped, pollVars
<1>4. SUFFICES ASSUME Fresh, poll \notin {"publish", "fota_app"} PROVE Coming'
  BY <1>2, <1>3 DEF Delivered
<1>5. Coming /\ fota_chan = Wanted
  BY <1>4 DEF RequestInv, Delivered, Announced
<1>6. CASE SubWait \/ ReadTimeout
  BY <1>6 DEF SubWait, ReadTimeout, Coming
<1>7. CASE ReadChan
  BY <1>2, <1>5, <1>7 DEF ReadChan, Coming
<1>8. CASE BeginName
  <2>1. /\ task = "sleep" /\ task' = "copy" /\ filename' = <<>>
        /\ notif' = notif /\ length' = length
    BY <1>8 DEF BeginName
  <2>2. \A i \in 1..Len(filename') : filename'[i] = Newest'
    BY <2>1
  <2> QED
    BY <1>2, <1>5, <2>1, <2>2 DEF Coming
<1>9. CASE CopyName
  <2>1. /\ task = "copy" /\ notif' = notif /\ length' = length
        /\ filename' = Append(filename, payload_buf[Len(filename) + 1])
        /\ task' = IF Len(filename') < length THEN "copy" ELSE "submit"
        /\ filename \in Seq(Nat) /\ Len(filename) < length /\ length \in 1..Parts
    BY <1>3, <1>9 DEF CopyName, FotaTypeOK, Ranges
  <2>2. CASE notif > 0
    BY <2>1, <2>2 DEF Coming
  <2>3. CASE length = Wanted /\ \A i \in 1..Len(filename) : filename[i] = Newest
    <3>1. Len(filename) \in Nat /\ Len(filename) + 1 \in 1..Wanted
      BY <2>1, <2>3
    <3>2. payload_buf[Len(filename) + 1] = Newest /\ Newest \in Nat
      BY <1>3, <1>4, <3>1 DEF RequestInv, Whole, Newest, FotaTypeOK
    <3>3. /\ filename' \in Seq(Nat) /\ Len(filename') = Len(filename) + 1
          /\ \A i \in 1..Len(filename') : filename'[i] = Newest
      BY <2>1, <2>3, <3>1, <3>2
    <3>4. CASE Len(filename') < length
      BY <1>2, <2>1, <2>3, <3>3, <3>4 DEF Coming
    <3>5. CASE ~(Len(filename') < length)
      <4>1. Len(filename') = Wanted
        BY <2>1, <2>3, <3>1, <3>3, <3>5
      <4>2. filename' = Wished
        BY <3>3, <4>1, NameComplete
      <4> QED
        BY <1>2, <2>1, <3>5, <4>2 DEF Coming
    <3> QED
      BY <3>4, <3>5
  <2> QED
    BY <1>5, <2>1, <2>2, <2>3 DEF Coming
<1>10. CASE Submit
  BY <1>2, <1>5, <1>10 DEF Submit, Coming
<1> QED
  BY <1>6, <1>7, <1>8, <1>9, <1>10 DEF FotaTask

\* A step that changes nothing of the request's way, but perhaps ends fota_init.
LEMMA OthersDeliver ==
  ASSUME RequestInv, UNCHANGED pollVars, UNCHANGED <<notif, length, filename>>,
         task' = task \/ (task = "init" /\ task' = "wait")
  PROVE  Filled' /\ Whole' /\ Published' /\ Announced' /\ Delivered'
<1>1. /\ Filled' /\ Whole' /\ Published' /\ Announced'
      /\ Fresh' <=> Fresh
      /\ Newest' = Newest /\ Wanted' = Wanted /\ Wished' = Wished
  BY BufferKept
<1>2. poll' = poll
  BY DEF pollVars
<1>3. Coming => Coming'
  BY <1>1 DEF Coming
<1> QED
  BY <1>1, <1>2, <1>3 DEF RequestInv, Delivered

\* After a reset no request is in payload_buf.
LEMMA ResetForgets ==
  ASSUME RequestInv, FotaReset
  PROVE  /\ ~Fresh' /\ Files' = Files
         /\ Filled' /\ Whole' /\ Published' /\ Announced' /\ Delivered'
<1>1. /\ sent' = sent /\ poll' = "poll" /\ payload_buf' = NoPayload
  BY DEF FotaReset
<1>2. 1 \in 1..Parts /\ payload_buf'[1] = 0
  BY <1>1, FotaAssumption DEF NoPayload
<1>3. ~Fresh' /\ Files' = Files
  <2>1. Newest' = Newest /\ Requests' = Requests /\ Files' = Files
    BY <1>1, SameRequests
  <2>2. Newest \in Requests => Newest \in 1..Len(sent)
    BY DEF Requests, RequestInv, FotaTyped, FotaTypeOK
  <2> QED
    BY <1>2, <2>1, <2>2 DEF Fresh
<1> QED
  BY <1>1, <1>3 DEF Filled, Whole, Published, Announced, Delivered, Locked

\* RequestInv is inductive: it holds at first ...
LEMMA RequestStart == Init => RequestInv
<1> SUFFICES ASSUME Init PROVE RequestInv
  OBVIOUS
<1>1. FotaTyped /\ poll = "poll" /\ sent = <<>>
  BY StartTyped DEF Init, FotaInit
<1>2. Newest \notin Requests
  BY <1>1 DEF Newest, Requests
<1> QED
  BY <1>1, <1>2 DEF RequestInv, Filled, Whole, Published, Announced, Delivered, Fresh, Locked

\* ... every step keeps it ...
LEMMA RequestStep ==
  ASSUME UpdateInv, RequestInv, [Next]_vars
  PROVE  RequestInv'
<1>1. FotaTyped'
  BY UpdateStep DEF UpdateInv
<1>2. CASE Message \/ Forward
  BY <1>1, <1>2, PollDelivers DEF Message, Forward, RequestInv
<1>3. CASE Request
  BY <1>1, <1>3, TaskDelivers DEF Request, RequestInv
<1>4. CASE Provisioning \/ FotaTaskInit \/ Downloading \/ UNCHANGED vars
  <2>1. UNCHANGED pollVars
    BY <1>4 DEF Provisioning, FotaTaskInit, Downloading, Downloads, FotaWork, ShellDownload,
       Ask, DownloadError, DownloadFinished, vars, fotaVars
  <2>2. UNCHANGED <<notif, length, filename>>
    BY <1>4 DEF Provisioning, FotaTaskInit, Downloading, Downloads, FotaWork, ShellDownload,
       Ask, DownloadError, DownloadFinished, vars, fotaVars, fromTask, taskVars
  <2>3. task' = task \/ (task = "init" /\ task' = "wait")
    <3>1. FotaTaskInit => task = "init" /\ task' = "wait"
      BY DEF FotaTaskInit
    <3>2. Downloading => task' = task
      BY DEF Downloading, Downloads, FotaWork, ShellDownload, Ask, DownloadError,
         DownloadFinished, taskVars
    <3>3. Provisioning \/ UNCHANGED vars => task' = task
      BY DEF Provisioning, vars, fotaVars, fromTask, taskVars
    <3> QED
      BY <1>4, <3>1, <3>2, <3>3
  <2> QED
    BY <1>1, <2>1, <2>2, <2>3, OthersDeliver DEF RequestInv
<1>5. CASE Reset
  BY <1>1, <1>5, ResetForgets DEF Reset, RequestInv
<1> QED
  BY <1>2, <1>3, <1>4, <1>5 DEF Next

\* ... so that it always holds.
LEMMA RequestInvariant == Spec => []RequestInv
<1>1. UpdateInv /\ RequestInv /\ [Next]_vars => RequestInv'
  BY RequestStep
<1> QED
  BY RequestStart, UpdateInvariant, <1>1, PTL DEF Spec

\* Whatever comes in whatever burst, the newest request is the one whose name is
\* left when all have been worked off.
THEOREM RequestSafe == Spec => []LastRequestWins
<1>1. RequestInv => LastRequestWins
  BY DEF RequestInv, LastRequestWins, Delivered, Fresh, Coming, Newest, Wished, FotaTyped,
     FotaTypeOK
<1> QED
  BY RequestInvariant, <1>1, PTL

-----------------------------------------------------------------------------
(* Requests one after the other: nobody is disturbed *)

Idle == ~fota_work /\ ~download
Names == Files \cup {<<>>}

\* While every PUBLISH and command has found no other under way, one of the
\* parties has the request: the poll thread, the queue, fota_task, or the
\* downloads; and the name is at no time another party's to read or write.
Unhurried ==
    /\ poll \in {"fill", "publish", "fota_app"} =>
           notif = 0 /\ task \in {"wait", "ended"} /\ Idle
    /\ poll \in {"transport", "jammed"} =>
           /\ Idle
           /\ \/ notif \in {0, 1} /\ task \in {"wait", "ended"}
              \/ notif = 0 /\ task = "read"
    /\ poll = "poll" =>
           \/ notif = 1 /\ task \in {"wait", "ended"} /\ Idle /\ Fresh
           \/ notif = 0 /\ task \in {"read", "sleep", "copy", "submit"} /\ Idle /\ Fresh
           \/ notif = 0 /\ task \in {"wait", "ended"}
           \/ notif = 0 /\ task = "init" /\ Idle
    /\ task # "copy" => filename \in Names
    /\ asked \subseteq Names

AskedInv == ~hurried => Unhurried

\* A file that has been asked for stays one.
LEMMA NamesGrow ==
  ASSUME FotaTypeOK, Arrive
  PROVE  Names \subseteq Names'
<1> SUFFICES ASSUME NEW n \in Requests PROVE n \in Requests' /\ Name(n)' = Name(n)
  <2>1. (\A n \in Requests : n \in Requests' /\ Name(n)' = Name(n)) => Files \subseteq Files'
    BY DEF Files
  <2> QED
    BY <2>1 DEF Names
<1>1. n \in 1..Len(sent) /\ sent \in Seq(PUBLISH)
  BY DEF Requests, FotaTypeOK, PUBLISH
<1>2. /\ sent' \in Seq(PUBLISH) /\ Len(sent') = Len(sent) + 1 /\ Len(sent) \in Nat
      /\ sent'[n] = sent[n]
  BY <1>1, Sending
<1>3. n \in DOMAIN sent' /\ sent[n].fota
  BY <1>1, <1>2 DEF Requests
<1> QED
  BY <1>2, <1>3 DEF Requests, Name

\* A request on its way makes no download of its own.
LEMMA PollAsks ==
  ASSUME RequestInv, AskedInv, Arrive \/ Publishing
  PROVE  AskedInv'
<1>1. SUFFICES ASSUME ~hurried' PROVE Unhurried'
  BY DEF AskedInv
<1>2. UNCHANGED <<task, length, filename, fota_work, download, asked>>
  BY DEF Arrive, Publishing, Fill, CopyMessage, NotifyFotaApp, NotifyTransport, Unjam,
     fromTask, taskVars, downloadVars
<1>3. FotaTypeOK
  BY DEF RequestInv, FotaTyped
<1>4. CASE Arrive
  <2>1. ~hurried /\ Quiet /\ poll' = "fill" /\ notif' = notif
    BY <1>1, <1>4 DEF Arrive
  <2>2. Unhurried /\ notif = 0 /\ task \in {"wait", "ended"} /\ Idle
    BY <2>1 DEF AskedInv, Quiet, Idle
  <2>3. Names \subseteq Names'
    BY <1>3, <1>4, NamesGrow
  <2>4. filename' \in Names' /\ asked' \subseteq Names'
    BY <1>2, <2>2, <2>3 DEF Unhurried
  <2> QED
    BY <1>2, <2>1, <2>2, <2>4 DEF Unhurried, Idle
<1>5. CASE Publishing
  <2>1. ~hurried /\ sent' = sent
    BY <1>1, <1>5 DEF Publishing, Fill, CopyMessage, NotifyFotaApp, NotifyTransport, Unjam,
       environment, buffer
  <2>2. Names' = Names
    BY <2>1, SameRequests DEF Names
  <2>3. Unhurried
    BY <2>1 DEF AskedInv
  <2>4. (task' # "copy" => filename' \in Names') /\ asked' \subseteq Names'
    BY <1>2, <2>2, <2>3 DEF Unhurried
  <2>5. CASE Fill
    BY <1>2, <2>3, <2>4, <2>5 DEF Fill, Unhurried, Idle
  <2>6. CASE CopyMessage
    BY <1>2, <2>3, <2>4, <2>6 DEF CopyMessage, Unhurried, Idle
  <2>7. CASE NotifyFotaApp
    <3>1. notif = 0 /\ task \in {"wait", "ended"} /\ Idle
      BY <2>3, <2>7 DEF NotifyFotaApp, Unhurried
    <3>2. notif' \in {0, 1} /\ poll' = "transport"
      BY <2>7, <3>1 DEF NotifyFotaApp
    <3> QED
      BY <1>2, <2>4, <3>1, <3>2 DEF Unhurried, Idle
  <2>8. CASE NotifyTransport \/ Unjam
    <3>1. /\ poll \in {"transport", "jammed"} /\ poll' \in {"poll", "jammed"}
          /\ UNCHANGED <<sent, payload_buf, notif>>
      BY <2>8 DEF NotifyTransport, Unjam, buffer
    <3>2. Fresh
      BY <3>1 DEF RequestInv, Published, Locked
    <3>3. Fresh'
      BY <3>1, <3>2, SameRequests DEF Fresh
    <3>4. /\ Idle'
          /\ \/ notif' \in {0, 1} /\ task' \in {"wait", "ended"}
             \/ notif' = 0 /\ task' = "read"
      BY <1>2, <2>3, <3>1 DEF Unhurried, Idle
    <3> QED
      BY <2>4, <3>1, <3>3, <3>4 DEF Unhurried
  <2> QED
    BY <1>5, <2>5, <2>6, <2>7, <2>8 DEF Publishing
<1> QED
  BY <1>4, <1>5

\* The task starts a download only of what it has been asked for.
LEMMA TaskAsks ==
  ASSUME RequestInv, RequestInv', AskedInv, FotaTask
  PROVE  AskedInv'
<1>1. SUFFICES ASSUME ~hurried' PROVE Unhurried'
  BY DEF AskedInv
<1>2. /\ UNCHANGED pollVars /\ UNCHANGED <<hurried, asked, download>>
      /\ Submit \/ fota_work' = fota_work
  BY DEF FotaTask, SubWait, ReadChan, ReadTimeout, BeginName, CopyName, Submit, fromWork,
     downloadVars, environment
<1>3. /\ Unhurried /\ poll' = poll /\ FotaTypeOK
  BY <1>1, <1>2 DEF AskedInv, pollVars, RequestInv, FotaTyped
<1>4. /\ Newest' = Newest /\ Wished' = Wished /\ Names' = Names
      /\ Fresh' <=> Fresh
  BY <1>2, BufferKept DEF Names
<1>5. asked' \subseteq Names'
  BY <1>2, <1>3, <1>4 DEF Unhurried
<1>6. CASE SubWait
  <2>1. /\ task = "wait" /\ task' = "read" /\ notif > 0 /\ notif' = notif - 1
        /\ filename' = filename
    BY <1>6 DEF SubWait
  <2>2. notif = 1 /\ poll \in {"transport", "jammed", "poll"} /\ Idle
        /\ (poll = "poll" => Fresh)
    BY <1>3, <2>1 DEF Unhurried, FotaTypeOK
  <2>3. Idle'
    BY <1>2, <1>6, <2>2 DEF Idle, SubWait, fromWork
  <2> QED
    BY <1>3, <1>4, <1>5, <2>1, <2>2, <2>3 DEF Unhurried
<1>7. CASE ReadChan
  <2>1. /\ task = "read" /\ task' = "sleep" /\ ~Locked
        /\ UNCHANGED <<notif, filename, fota_work>>
    BY <1>7 DEF ReadChan, fromWork
  <2>2. poll = "poll" /\ notif = 0 /\ Idle /\ Fresh
    BY <1>3, <2>1 DEF Unhurried, FotaTypeOK, Locked
  <2> QED
    BY <1>2, <1>3, <1>4, <1>5, <2>1, <2>2 DEF Unhurried, Idle
<1>8. CASE ReadTimeout
  <2>1. /\ task = "read" /\ task' = "ended" /\ poll = "jammed"
        /\ UNCHANGED <<notif, filename, fota_work>>
    BY <1>8 DEF ReadTimeout, fromWork
  <2> QED
    BY <1>2, <1>3, <1>4, <1>5, <2>1 DEF Unhurried, Idle
<1>9. CASE BeginName
  <2>1. task = "sleep" /\ task' = "copy" /\ UNCHANGED <<notif, fota_work>>
    BY <1>9 DEF BeginName, fromWork
  <2>2. poll = "poll" /\ notif = 0 /\ Idle /\ Fresh
    BY <1>3, <2>1 DEF Unhurried, FotaTypeOK
  <2> QED
    BY <1>2, <1>3, <1>4, <1>5, <2>1, <2>2 DEF Unhurried, Idle
<1>10. CASE CopyName
  <2>1. task = "copy" /\ task' \in {"copy", "submit"} /\ UNCHANGED <<notif, fota_work>>
    BY <1>10 DEF CopyName, fromWork
  <2>2. poll = "poll" /\ notif = 0 /\ Idle /\ Fresh
    BY <1>3, <2>1 DEF Unhurried, FotaTypeOK
  <2>3. Coming'
    BY <1>3, <1>4, <2>2 DEF RequestInv, Delivered
  <2>4. task' = "submit" => filename' = Wished
    BY <1>4, <2>1, <2>2, <2>3 DEF Coming
  <2>5. Wished \in Names'
    BY <1>4, <2>2 DEF Fresh, Wished, Names, Files
  <2> QED
    BY <1>2, <1>3, <1>4, <1>5, <2>1, <2>2, <2>4, <2>5 DEF Unhurried, Idle
<1>11. CASE Submit
  <2>1. task = "submit" /\ task' = "wait" /\ UNCHANGED <<notif, filename>>
    BY <1>11 DEF Submit
  <2>2. poll = "poll" /\ notif = 0
    BY <1>3, <2>1 DEF Unhurried, FotaTypeOK
  <2> QED
    BY <1>3, <1>4, <1>5, <2>1, <2>2 DEF Unhurried
<1> QED
  BY <1>6, <1>7, <1>8, <1>9, <1>10, <1>11 DEF FotaTask

\* A download ends, fails or is retried, and fetches the same file throughout.
LEMMA DownloadsAsk ==
  ASSUME RequestInv, AskedInv, Downloads
  PROVE  AskedInv'
<1>1. SUFFICES ASSUME ~hurried' PROVE Unhurried'
  BY DEF AskedInv
<1>2. UNCHANGED pollVars /\ UNCHANGED <<notif, task, filename>>
  BY DEF Downloads, FotaWork, ShellDownload, Ask, DownloadError, DownloadFinished, taskVars
<1>3. ~hurried
  BY <1>1 DEF Downloads, FotaWork, ShellDownload, Ask, DownloadError, DownloadFinished,
     environment
<1>4. Unhurried /\ poll' = poll /\ FotaTypeOK
  BY <1>2, <1>3 DEF AskedInv, pollVars, RequestInv, FotaTyped
<1>5. Names' = Names
  BY <1>2, BufferKept DEF Names
<1>6. fota_work \/ download \/ Quiet
  BY <1>1 DEF Downloads, FotaWork, ShellDownload, Ask, DownloadError, DownloadFinished
<1>7. poll = "poll" /\ notif = 0 /\ task \in {"wait", "ended"}
  BY <1>4, <1>6 DEF Unhurried, Idle, FotaTypeOK, Quiet
<1>8. filename \in Names
  BY <1>4, <1>7 DEF Unhurried
<1>9. asked' \subseteq Names
  <2>1. asked' \subseteq asked \cup {filename}
    BY DEF Downloads, FotaWork, ShellDownload, Ask, DownloadError, DownloadFinished,
       FotaStart, downloadVars
  <2> QED
    BY <1>4, <1>8, <2>1 DEF Unhurried
<1> QED
  BY <1>2, <1>4, <1>5, <1>7, <1>8, <1>9 DEF Unhurried

\* After a reset nothing has been asked for.
LEMMA ResetAsks ==
  ASSUME RequestInv, FotaReset
  PROVE  AskedInv'
<1>1. /\ poll' = "poll" /\ notif' = 0 /\ task' = "init" /\ filename' = <<>>
      /\ ~fota_work' /\ ~download' /\ asked' = {}
  BY DEF FotaReset
<1> QED
  BY <1>1 DEF AskedInv, Unhurried, Idle, Names

\* No other step touches the requests or the download.
LEMMA OthersAsk ==
  ASSUME RequestInv, AskedInv, UNCHANGED pollVars,
         UNCHANGED <<notif, filename, fota_work, download, asked, hurried>>,
         task' = task \/ (task = "init" /\ task' = "wait")
  PROVE  AskedInv'
<1>1. SUFFICES ASSUME ~hurried' PROVE Unhurried'
  BY DEF AskedInv
<1>2. Unhurried /\ poll' = poll
  BY <1>1 DEF AskedInv, pollVars
<1>3. /\ Names' = Names
      /\ Fresh' <=> Fresh
  BY BufferKept DEF Names
<1>4. Idle' <=> Idle
  BY DEF Idle
<1>5. CASE task' = task
  BY <1>2, <1>3, <1>4, <1>5 DEF Unhurried
<1>6. CASE task = "init" /\ task' = "wait"
  <2>1. poll = "poll" /\ notif = 0
    BY <1>2, <1>6 DEF Unhurried, RequestInv, FotaTyped, FotaTypeOK
  <2> QED
    BY <1>2, <1>3, <1>6, <2>1 DEF Unhurried
<1> QED
  BY <1>5, <1>6

\* AskedInv is inductive: it holds at first ...
LEMMA AskedStart == Init => AskedInv
BY DEF Init, FotaInit, AskedInv, Unhurried, Idle, Names

\* ... and every step keeps it.
LEMMA AskedStep ==
  ASSUME UpdateInv, RequestInv, AskedInv, [Next]_vars
  PROVE  AskedInv'
<1>1. RequestInv'
  BY RequestStep
<1>2. CASE Message \/ Forward
  BY <1>2, PollAsks DEF Message, Forward
<1>3. CASE Request
  BY <1>1, <1>3, TaskAsks DEF Request
<1>4. CASE Downloading
  BY <1>4, DownloadsAsk DEF Downloading
<1>5. CASE Reset
  BY <1>5, ResetAsks DEF Reset
<1>6. CASE FotaTaskInit
  BY <1>6, OthersAsk DEF FotaTaskInit, downloadVars
<1>7. CASE Provisioning \/ UNCHANGED vars
  <2>1. UNCHANGED fotaVars
    BY <1>7 DEF Provisioning, vars
  <2> QED
    BY <2>1, OthersAsk DEF fotaVars, fromTask, taskVars, downloadVars, environment
<1> QED
  BY <1>2, <1>3, <1>4, <1>5, <1>6, <1>7 DEF Next

\* As long as each request is through before the next message or command, the
\* server is asked for what a request was for, or, on a command before any
\* request, for the directory.
THEOREM AskedSafe == Spec => []DownloadsAsAsked
<1>1. UpdateInv /\ RequestInv /\ AskedInv /\ [Next]_vars => AskedInv'
  BY AskedStep
<1>2. AskedInv => DownloadsAsAsked
  BY DEF AskedInv, Unhurried, Names, DownloadsAsAsked
<1> QED
  BY AskedStart, UpdateInvariant, RequestInvariant, <1>1, <1>2, PTL DEF Spec
=============================================================================
