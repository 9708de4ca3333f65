-------------------------------- MODULE Fota --------------------------------
(***************************************************************************)
(* A firmware request on its way from a PUBLISH to a download: the poll     *)
(* thread fills payload_buf and publishes its address and the length on     *)
(* FOTA_CHAN (on_mqtt_publish), fota_task copies the name from there some   *)
(* time later (fota_app.c, fota_request), a work of the system work queue   *)
(* starts the download (fota.c), and the download library uses the name     *)
(* where it is.                                                             *)
(***************************************************************************)
EXTENDS Integers, Sequences, SequencesExt

CONSTANTS Parts,      \* longest name, in parts of payload_buf
          FotaLen,    \* length of the subscriber fota_app's queue
          Budget      \* how often each event of the environment may happen

FotaEvents == {"publish", "startfail", "reset"}

ASSUME FotaAssumption == /\ Parts \in Nat \ {0} /\ FotaLen \in Nat \ {0}
                         /\ Budget \in [FotaEvents -> Nat]

VARIABLES sent,       \* the PUBLISHes so far: for firmware or not, their length
          payload_buf,  \* the PUBLISH each part was written by, 0 for none
          poll, filled,   \* where the poll thread is in on_publish
          fota_chan,  \* the length in FOTA_CHAN; the address is always the same
          notif,      \* fota_app's queue: how many references to FOTA_CHAN
          task, length,   \* where fota_task is, the length it has read
          filename,   \* behind the host and the directory
          fota_work,  \* the work is queued
          download,   \* a download is under way
          asked,      \* the names it has asked the server for
          slot,       \* those of the last one finished, which MCUboot is to boot
          hurried,    \* something came before a request was through
          budget

buffer == <<sent, payload_buf, filled>>
pollVars == <<buffer, poll, fota_chan>>
taskVars == <<task, length, filename>>
downloadVars == <<download, asked, slot>>
environment == <<hurried, budget>>
fromTask == <<taskVars, fota_work, downloadVars>>
fromWork == <<fota_work, downloadVars, environment>>
fotaVars == <<pollVars, notif, fromTask, environment>>

Name(n) == [i \in 1..sent[n].length |-> n]
Requests == {n \in DOMAIN sent : sent[n].fota}
Files == {Name(n) : n \in Requests}

Spend(e) == budget[e] > 0 /\ budget' = [budget EXCEPT ![e] = @ - 1]

\* The poll thread is in zbus_chan_pub, which holds the channel's lock.
Locked == poll \in {"fota_app", "transport", "jammed"}

\* fota_task has something to do; the poll thread and the shell have to wait.
TaskReady == \/ task \in {"init", "copy", "submit"}
             \/ task = "wait" /\ notif > 0
             \/ task = "read" /\ ~Locked

\* No request is on its way.
Quiet == /\ poll = "poll" /\ notif = 0 /\ task \in {"wait", "ended"}
         /\ ~fota_work /\ ~download

-----------------------------------------------------------------------------
(* The poll thread: on_publish of the helper, on_mqtt_publish of transport.c *)

\* A PUBLISH for the firmware topic, or for another one.
Arrive == /\ poll = "poll" /\ ~TaskReady
          /\ Spend("publish")
          /\ \E fota \in BOOLEAN, n \in 1..Parts :
                 sent' = Append(sent, [fota |-> fota, length |-> n])
          /\ poll' = "fill"
          /\ hurried' = (hurried \/ ~Quiet)
          /\ UNCHANGED <<payload_buf, filled, fota_chan, notif, fromTask>>

\* mqtt_readall_publish_payload; the payload may take several reads.
Fill == /\ poll = "fill" /\ ~TaskReady
        /\ payload_buf' = [payload_buf EXCEPT ![filled + 1] = Len(sent)]
        /\ \/ /\ filled + 1 < Last(sent).length
              /\ filled' = filled + 1
              /\ UNCHANGED poll
           \/ /\ filled + 1 = Last(sent).length
              /\ filled' = 0
              /\ poll' = IF Last(sent).fota THEN "publish" ELSE "poll"
        /\ UNCHANGED <<sent, fota_chan, notif, fromTask, environment>>

\* zbus_chan_pub
CopyMessage == /\ poll = "publish" /\ ~TaskReady
               /\ fota_chan' = Last(sent).length
               /\ poll' = "fota_app"
               /\ UNCHANGED <<buffer, notif, fromTask, environment>>

\* Mutant: there is always room.
NotifyUnbounded == /\ poll = "fota_app" /\ ~TaskReady
                   /\ notif' = notif + 1
                   /\ poll' = "transport"
                   /\ UNCHANGED <<buffer, fota_chan, fromTask, environment>>

\* The first observer.  The thread waits while its queue is full, but for more
\* than a second only if fota_task has ended.
NotifyFotaApp == /\ poll = "fota_app" /\ ~TaskReady
                 /\ \/ notif < FotaLen /\ notif' = notif + 1
                    \/ notif = FotaLen /\ task = "ended" /\ UNCHANGED notif
                 /\ poll' = "transport"
                 /\ UNCHANGED <<buffer, fota_chan, fromTask, environment>>

\* The second observer, whose queue may be full.
NotifyTransport == /\ poll = "transport" /\ ~TaskReady
                   /\ poll' \in {"poll", "jammed"}
                   /\ UNCHANGED <<buffer, fota_chan, notif, fromTask, environment>>

\* There is room in the end, or the second is over.
Unjam == /\ poll = "jammed" /\ ~TaskReady
         /\ poll' = "poll"
         /\ UNCHANGED <<buffer, fota_chan, notif, fromTask, environment>>

Publishing == Fill \/ CopyMessage \/ NotifyFotaApp \/ NotifyTransport \/ Unjam
PollThread == Arrive \/ Publishing

-----------------------------------------------------------------------------
(* fota_task *)

SubWait == /\ task = "wait" /\ notif > 0
           /\ notif' = notif - 1
           /\ task' = "read"
           /\ UNCHANGED <<pollVars, length, filename, fromWork>>

\* zbus_chan_read, and the sleep of 10 ms begins
ReadChan == /\ task = "read" /\ ~Locked
            /\ length' = fota_chan
            /\ task' = "sleep"
            /\ UNCHANGED <<pollVars, notif, filename, fromWork>>

\* The publisher has been waiting for the transport module for a second, and so
\* has fota_task for the lock.  Its read fails; the error ends the task.
ReadTimeout == /\ task = "read" /\ poll = "jammed"
               /\ task' = "ended"
               /\ UNCHANGED <<pollVars, notif, length, filename, fromWork>>

\* Mutant: a request is left aside while a download is under way.
BeginNameIdle == /\ task = "sleep"
                 /\ \/ ~download /\ filename' = <<>> /\ task' = "copy"
                    \/ download /\ task' = "wait" /\ UNCHANGED filename
                 /\ UNCHANGED <<pollVars, notif, length, fromWork>>

\* Mutant: the work is submitted first.
BeginNameSubmitted == /\ task = "sleep"
                      /\ filename' = <<>>
                      /\ task' = "copy"
                      /\ fota_work' = TRUE
                      /\ UNCHANGED <<pollVars, notif, length, downloadVars, environment>>

\* fota_request: the host and the directory replace the name
BeginName == /\ task = "sleep"
             /\ filename' = <<>>
             /\ task' = "copy"
             /\ UNCHANGED <<pollVars, notif, length, fromWork>>

\* and strncat appends it, as long as it is by now.
CopyName == /\ task = "copy"
            /\ filename' = Append(filename, payload_buf[Len(filename) + 1])
            /\ task' = IF Len(filename') < length THEN "copy" ELSE "submit"
            /\ UNCHANGED <<pollVars, notif, length, fromWork>>

\* Mutant: nothing is submitted.
SubmitForgotten == /\ task = "submit"
                   /\ task' = "wait"
                   /\ UNCHANGED <<pollVars, notif, length, filename, fromWork>>

\* k_work_submit, to which a queued work makes no difference
Submit == /\ task = "submit"
          /\ fota_work' = TRUE
          /\ task' = "wait"
          /\ UNCHANGED <<pollVars, notif, length, filename, downloadVars, environment>>

FotaTask == SubWait \/ ReadChan \/ ReadTimeout \/ BeginName \/ CopyName \/ Submit

-----------------------------------------------------------------------------
(* Downloads *)

\* fota_start: the library refuses a second download, or fails to start the
\* first; either is only logged.
FotaStart == \/ download /\ UNCHANGED downloadVars /\ UNCHANGED budget
             \/ ~download /\ Spend("startfail") /\ UNCHANGED downloadVars
             \/ /\ ~download
                /\ download' = TRUE
                /\ slot' = {}
                /\ UNCHANGED <<asked, budget>>

\* fota_work_cb, on the system work queue, which outranks fota_task
FotaWork == /\ fota_work
            /\ fota_work' = FALSE
            /\ FotaStart
            /\ UNCHANGED <<pollVars, notif, taskVars, hurried>>

\* The command "download" of the shell
ShellDownload == /\ ~TaskReady
                 /\ FotaStart
                 /\ hurried' = (hurried \/ ~Quiet)
                 /\ UNCHANGED <<pollVars, notif, taskVars, fota_work>>

\* The library asks for the file, again after each loss of the connection.
Ask == /\ download
       /\ asked' = asked \cup {filename}
       /\ UNCHANGED <<pollVars, notif, taskVars, fota_work, download, slot, environment>>

\* FOTA_DOWNLOAD_EVT_ERROR
DownloadError == /\ download
                 /\ download' = FALSE
                 /\ asked' = {}
                 /\ UNCHANGED <<pollVars, notif, taskVars, fota_work, slot, environment>>

\* FOTA_DOWNLOAD_EVT_FINISHED, which no name the server does not know leads to
DownloadFinished == /\ download
                    /\ asked # {} /\ asked \subseteq Files
                    /\ download' = FALSE
                    /\ slot' = asked
                    /\ asked' = {}
                    /\ UNCHANGED <<pollVars, notif, taskVars, fota_work, environment>>

Downloads == FotaWork \/ ShellDownload \/ Ask \/ DownloadError \/ DownloadFinished

-----------------------------------------------------------------------------

NoPayload == [i \in 1..Parts |-> 0]

\* The state of the RAM when the threads are created
FotaReset == /\ payload_buf' = NoPayload
             /\ poll' = "poll" /\ filled' = 0
             /\ fota_chan' = 0 /\ notif' = 0
             /\ task' = "init" /\ length' = 0
             /\ filename' = <<>>
             /\ fota_work' = FALSE
             /\ download' = FALSE /\ asked' = {}
             /\ hurried' = FALSE
             /\ UNCHANGED sent

FotaInit == /\ sent = <<>>
            /\ payload_buf = NoPayload
            /\ poll = "poll" /\ filled = 0
            /\ fota_chan = 0 /\ notif = 0
            /\ task = "init" /\ length = 0
            /\ filename = <<>>
            /\ fota_work = FALSE
            /\ download = FALSE /\ asked = {} /\ slot = {}
            /\ hurried = FALSE
            /\ budget = Budget

FotaTypeOK ==
    /\ sent \in Seq([fota : BOOLEAN, length : 1..Parts])
    /\ payload_buf \in [1..Parts -> Nat]
    /\ poll \in {"poll", "fill", "publish", "fota_app", "transport", "jammed"}
    /\ filled \in 0..Parts
    /\ fota_chan \in 0..Parts /\ notif \in 0..FotaLen
    /\ task \in {"init", "wait", "read", "sleep", "copy", "submit", "ended"}
    /\ length \in 0..Parts
    /\ filename \in Seq(Nat) /\ Len(filename) <= Parts
    /\ fota_work \in BOOLEAN /\ download \in BOOLEAN /\ hurried \in BOOLEAN
    /\ asked \subseteq Seq(Nat) /\ slot \subseteq Seq(Nat)
    /\ budget \in [FotaEvents -> Nat]
=============================================================================
