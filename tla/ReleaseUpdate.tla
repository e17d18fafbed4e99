--------------------------- MODULE ReleaseUpdate ---------------------------
(***************************************************************************)
(* The over-the-air update (release_update.cpp, Daemon::check_for_update,  *)
(* update.sh): the daemon replaces its own binary and the version file,    *)
(* then has itself restarted; update.sh, run from the wallet, does the     *)
(* same with the service stopped.  A release is its number; the release    *)
(* page, curl, tar and systemd are external and may fail.                  *)
(***************************************************************************)
EXTENDS Naturals

CONSTANTS
    MaxTag,      \* bound: releases
    MaxFailures  \* bound: downloads, writes and scripts that fail, and crashes

ASSUME ReleaseAssumption == MaxTag \in Nat \ {0} /\ MaxFailures \in Nat

VARIABLES
    published,    \* the latest release
    unit,         \* runs as the service, INVOCATION_ID set; else by hand
    image,        \* /opt/pisecure/pisecured
    staged,       \* pisecured.new
    record,       \* /etc/pisecure/pisecured.version
    servedImage,  \* the release the running daemon was built from, 0 when none runs
    apply,        \* the daemon's update: step and tag of the report
    script,       \* update.sh: step and the release it brings
    spent,        \* failures so far
    halfDone      \* history: a write of the version file or update.sh failed

releaseVars == <<published, unit, image, staged, record, servedImage, apply, script,
                 spent, halfDone>>

Tags == 1..MaxTag
Torn == MaxTag + 1   \* a file that is not a whole binary of a release
Nothing == 0         \* no file, or an empty one

NoApply == [step |-> "none", tag |-> 0]

ReleaseTypeOK ==
    /\ published \in Tags /\ unit \in BOOLEAN
    /\ image \in Tags \cup {Torn} /\ staged \in Tags \cup {Torn, Nothing}
    /\ record \in Tags \cup {Nothing} /\ servedImage \in Tags \cup {Nothing}
    /\ apply.step \in {"none", "download", "stage", "copy", "rename", "record", "write",
                       "restore", "restoring", "restart"}
    /\ apply.tag \in 0..MaxTag
    /\ script.step \in {"none", "stop", "install", "installing", "record", "start"}
    /\ script.tag \in 0..MaxTag
    /\ spent \in 0..MaxFailures /\ halfDone \in BOOLEAN

ReleaseInit ==
    /\ published = 1 /\ unit \in BOOLEAN
    /\ image = 1 /\ staged = Nothing
    /\ record \in {1, Nothing}
    /\ servedImage = 1
    /\ apply = NoApply /\ script = NoApply
    /\ spent = 0 /\ halfDone = FALSE
-----------------------------------------------------------------------------
\* local_version: an empty version file leaves the tag the program was built with.
Local == IF record = Nothing THEN servedImage ELSE record

Fails == spent < MaxFailures /\ spent' = spent + 1

At(from) == servedImage # 0 /\ apply.step = from
To(step) == apply' = [apply EXCEPT !.step = step]
GiveUp == apply' = NoApply

\* check_release at a start and every six hours; a tag that is not newer, or a
\* check that fails, changes nothing.  The main thread does one at a time.
CheckForUpdate ==
    /\ At("none")
    /\ published > Local
    /\ apply' = [step |-> "download", tag |-> published]
    /\ UNCHANGED <<published, unit, image, staged, record, servedImage, script, spent, halfDone>>

FaultyVerified(archive) == TRUE

\* download_member: the listed hash when there is one, and always SHA256SUMS
\* of the archive, must fit what was downloaded.
Verified(archive) == archive \in Tags

\* The archive comes whole, damaged, or not at all.
DownloadMember ==
    /\ At("download")
    /\ \E archive \in {apply.tag, Torn} :
         /\ IF archive = Torn THEN Fails ELSE UNCHANGED spent
         /\ apply' = IF Verified(archive) THEN [step |-> "stage", tag |-> archive] ELSE NoApply
    /\ UNCHANGED <<published, unit, image, staged, record, servedImage, script, halfDone>>

FaultyRecordWaits == record' = apply.tag

\* The version file is written after the binary is in place.
RecordWaits == UNCHANGED record

\* install_member: copied to pisecured.new, whose stream is looked at.
StageOpens ==
    /\ At("stage") /\ To("copy") /\ staged' = Torn
    /\ RecordWaits
    /\ UNCHANGED <<published, unit, image, servedImage, script, spent, halfDone>>

StageCopies ==
    /\ At("copy")
    /\ \/ To("rename") /\ staged' = apply.tag /\ UNCHANGED spent
       \/ Fails /\ GiveUp /\ staged' = Nothing
    /\ UNCHANGED <<published, unit, image, record, servedImage, script, halfDone>>

StageRenames ==
    /\ At("rename") /\ To("record")
    /\ image' = staged /\ staged' = Nothing
    /\ UNCHANGED <<published, unit, record, servedImage, script, spent, halfDone>>

\* apply_daemon: the version file is truncated, then written.
RecordOpens ==
    /\ At("record")
    /\ \/ To("write") /\ record' = Nothing /\ UNCHANGED <<spent, halfDone>>
       \/ Fails /\ To("restore") /\ halfDone' = TRUE /\ UNCHANGED record
    /\ UNCHANGED <<published, unit, image, staged, servedImage, script>>

RecordWrites ==
    /\ At("write")
    /\ \/ To("restart") /\ record' = apply.tag /\ UNCHANGED <<spent, halfDone>>
       \/ Fails /\ To("restore") /\ halfDone' = TRUE /\ UNCHANGED record
    /\ UNCHANGED <<published, unit, image, staged, servedImage, script>>

\* restore_running_image writes the image in place, and it is the image that
\* runs, not the one that was replaced.
RestoreOpens ==
    /\ At("restore") /\ To("restoring") /\ image' = Torn
    /\ UNCHANGED <<published, unit, staged, record, servedImage, script, spent, halfDone>>

RestoreCopies ==
    /\ At("restoring") /\ GiveUp
    /\ \/ image' = servedImage /\ UNCHANGED spent
       \/ Fails /\ UNCHANGED image
    /\ UNCHANGED <<published, unit, staged, record, servedImage, script, halfDone>>

\* restart_after_apply.  The service may not gain privileges
\* (pisecured.service:19), so sudo refuses and the old image goes on serving;
\* otherwise execv keeps the listening socket open, the new image cannot bind
\* its port and ends.
RestartAfterApply ==
    /\ At("restart") /\ GiveUp
    /\ servedImage' = IF unit THEN servedImage ELSE Nothing
    /\ UNCHANGED <<published, unit, image, staged, record, script, spent, halfDone>>
-----------------------------------------------------------------------------
(* update.sh, from apply_user_update *)

ScriptAt(from, to) ==
    script.step = from /\ script' = [script EXCEPT !.step = to]

\* The user says yes; the archive is downloaded and its hash compared.
ScriptRuns ==
    /\ script.step = "none"
    /\ published > Local
    /\ script' = [step |-> "stop", tag |-> published]
    /\ UNCHANGED <<published, unit, image, staged, record, servedImage, apply, spent, halfDone>>

\* systemctl stop waits for the daemon, which ends its update first.
ScriptStops ==
    /\ ScriptAt("stop", "install")
    /\ unit => apply = NoApply
    /\ servedImage' = IF unit THEN Nothing ELSE servedImage
    /\ UNCHANGED <<published, unit, image, staged, record, apply, spent, halfDone>>

ScriptInstalls ==
    /\ ScriptAt("install", "installing")
    /\ image' = Torn
    /\ UNCHANGED <<published, unit, staged, record, servedImage, apply, spent, halfDone>>

ScriptInstalled ==
    /\ ScriptAt("installing", "record")
    /\ image' = script.tag
    /\ UNCHANGED <<published, unit, staged, record, servedImage, apply, spent, halfDone>>

ScriptRecords ==
    /\ ScriptAt("record", "start")
    /\ record' = script.tag
    /\ UNCHANGED <<published, unit, image, staged, servedImage, apply, spent, halfDone>>

\* systemctl start; without the unit the port is taken while a daemon runs.
ScriptStarts ==
    /\ script.step = "start" /\ script' = NoApply
    /\ servedImage' = IF servedImage = Nothing /\ image # Torn THEN image ELSE servedImage
    /\ UNCHANGED <<published, unit, image, staged, record, apply, spent, halfDone>>

\* set -e: a command fails, or VERSION is missing after the binaries are in.
ScriptFails ==
    /\ script.step \in {"stop", "install", "installing", "record"}
    /\ Fails
    /\ script' = NoApply /\ halfDone' = TRUE
    /\ UNCHANGED <<published, unit, image, staged, record, servedImage, apply>>
-----------------------------------------------------------------------------
Crash ==
    /\ servedImage # 0
    /\ Fails
    /\ servedImage' = Nothing /\ GiveUp
    /\ UNCHANGED <<published, unit, image, staged, record, script, halfDone>>

\* systemd starts a daemon that failed, someone starts one run by hand.
ServiceStart ==
    /\ servedImage = 0 /\ script.step = "none"
    /\ image # Torn
    /\ servedImage' = image
    /\ UNCHANGED <<published, unit, image, staged, record, apply, script, spent, halfDone>>

Publish ==
    /\ published < MaxTag
    /\ published' = published + 1
    /\ UNCHANGED <<unit, image, staged, record, servedImage, apply, script, spent, halfDone>>
-----------------------------------------------------------------------------
Update ==
    \/ CheckForUpdate \/ DownloadMember
    \/ StageOpens \/ StageCopies \/ StageRenames
    \/ RecordOpens \/ RecordWrites \/ RestoreOpens \/ RestoreCopies
    \/ RestartAfterApply

Script ==
    \/ ScriptRuns \/ ScriptStops \/ ScriptInstalls \/ ScriptInstalled
    \/ ScriptRecords \/ ScriptStarts \/ ScriptFails

ReleaseNext == Update \/ Script \/ Crash \/ ServiceStart \/ Publish

ReleaseSpec == ReleaseInit /\ [][ReleaseNext]_releaseVars

\* The main thread looks again every six hours, a script that runs goes on, and
\* a daemon that ended is started again.
ReleaseFairness ==
    /\ WF_releaseVars(Update)
    /\ WF_releaseVars(Script /\ script.step # "none")
    /\ WF_releaseVars(ServiceStart)

ReleaseFairSpec == ReleaseSpec /\ ReleaseFairness
-----------------------------------------------------------------------------
(* Properties *)

\* At every moment a start would find the whole binary of a release
\* (download_member, install_member), unless update.sh is writing it or the
\* running image is being put back.
ImageWhole == unit /\ script = NoApply /\ ~halfDone => image \in Tags

\* Once releases stop, a service that is kept running gets the latest one onto
\* its disk in spite of failed downloads and crashes (check_for_update).
LatestInstalled ==
    unit => (<>[](servedImage # 0 /\ script = NoApply) =>
                <>[](image = published \/ halfDone))

\* README.md:59, of the systemd unit: a newer tag is extracted, renamed over
\* pisecured, recorded, and the service restarts.
AppliedIsServed ==
    \A tag \in Tags :
        unit /\ apply = [step |-> "restart", tag |-> tag] ~> servedImage >= tag
=============================================================================
