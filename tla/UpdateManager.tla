----------------------------- MODULE UpdateManager -----------------------------
(***************************************************************************)
(* The updater of the desktop client, class UpdateManager, on the GUI      *)
(* thread: a check fetches a manifest and its signature, a download writes *)
(* the archive chunk by chunk, an external process unpacks it, and the     *)
(* payload is moved into place (module InstallSwap).  Replies, timers, the *)
(* process and the user come in any order.                                 *)
(*                                                                         *)
(* The update server is external: it may answer, fail, serve a manifest    *)
(* without a valid signature, another archive than the one announced, too  *)
(* little or too much of it, stop sending, or send on and on.              *)
(***************************************************************************)
EXTENDS InstallSwap

CONSTANTS
    Current,     \* m_currentVersion
    MaxVersion,  \* bound on the versions that the server offers
    Size,        \* chunks of the archive by the manifest
    MaxChecks    \* bound on the checks

ASSUME UpdateManagerConstants ==
    {Current, MaxVersion, MaxChecks} \subseteq Nat /\ Size \in Nat \ {0}

VARIABLES
    state,
    generation,
    replies,        \* the replies under way, with the generation they remember and
                    \* whether the server sends them on and on
    fetched,        \* the manifest that waits for its signature
    manifest,       \* m_manifest
    bytes, file,    \* chunks written to the .part file, and what they are
    watchdog,       \* m_downloadWatchdog runs
    process,        \* the unpacking process runs
    payload,        \* what lies under m_payloadPath
    noticeVisible, dismissed,
    cleanupDue,     \* the delayed cleanup of the start has still to come
    swept,          \* it came when the updater had files in .update
    backupSwept,    \* it deleted files of the old version
    checks

cleanup == <<cleanupDue, swept, backupSwept>>
managerVars == <<state, generation, replies, fetched, manifest, bytes, file, watchdog,
                 process, payload, noticeVisible, dismissed, cleanup, checks>>
updaterVars == <<managerVars, swapVars>>

NoManifest == [version |-> 0, signed |-> FALSE]

Manifests == [version : 1..MaxVersion, signed : BOOLEAN]

Busy == {"checking", "downloading", "verifying", "extracting", "applying"}

Request(kind, gen) == [kind |-> kind, gen |-> gen, endless |-> FALSE]

-----------------------------------------------------------------------------
\* fail.
Fail == state' = "error"

\* checkForUpdates returns early in these states.
BusyNow == state \in Busy

\* By the user, 15 s after the start, or by the periodic timer, which leaves more
\* states alone.
CheckForUpdates ==
    /\ ~BusyNow /\ state # "quit" /\ checks < MaxChecks
    /\ checks' = checks + 1
    /\ generation' = generation + 1
    /\ manifest' = NoManifest /\ payload' = "none" /\ swept' = FALSE
    /\ state' = "checking"
    /\ replies' = replies \cup {Request("manifest", generation + 1)}
    /\ UNCHANGED <<fetched, bytes, file, watchdog, process, noticeVisible, dismissed,
                   cleanupDue, backupSwept>>

\* A reply ends and is of the current generation; OneRequest shows that there are no
\* others to drop.
Ends(r) == r \in replies /\ r.gen = generation

Small(r) == r.kind \in {"manifest", "signature"}

\* fetchSmall looks at the size only when the reply has finished, and its transfer
\* timeout is one of inactivity: a body without end keeps the reply under way.
SendsOn(r) ==
    /\ Ends(r) /\ Small(r) /\ ~r.endless
    /\ replies' = (replies \ {r}) \cup {[r EXCEPT !.endless = TRUE]}
    /\ UNCHANGED <<state, generation, fetched, manifest, bytes, file, watchdog, process,
                   payload, noticeVisible, dismissed, cleanup, checks>>

\* fetchSmall: the manifest arrives, or an error, a redirect or too much.
ManifestReply(r) ==
    /\ Ends(r) /\ r.kind = "manifest"
    /\ \/ /\ \E m \in Manifests : fetched' = m
          /\ replies' = (replies \ {r}) \cup {Request("signature", generation)}
          /\ UNCHANGED state
       \/ Fail /\ replies' = replies \ {r} /\ UNCHANGED fetched
    /\ UNCHANGED <<generation, manifest, bytes, file, watchdog, process, payload,
                   noticeVisible, dismissed, cleanup, checks>>

\* minisign::verifyDetached.
SignatureValid(m) == m.signed

Newer(m) == m.version > Current

\* onManifestVerified; parseUpdateManifest may reject what is signed.
SignatureReply(r) ==
    /\ Ends(r) /\ r.kind = "signature"
    /\ replies' = replies \ {r}
    /\ \/ Fail /\ UNCHANGED <<manifest, noticeVisible>>
       \/ /\ SignatureValid(fetched)
          /\ manifest' = fetched
          /\ IF Newer(fetched)
             THEN /\ state' = "updateAvailable"
                  /\ noticeVisible' = (fetched.version # dismissed)
             ELSE state' = "upToDate" /\ UNCHANGED noticeVisible
    /\ fetched' = NoManifest
    /\ UNCHANGED <<generation, bytes, file, watchdog, process, payload, dismissed,
                   cleanup, checks>>

\* Mutant: the watchdog is not started.
WatchdogLater == FALSE

WatchdogStarted == TRUE

\* downloadUpdate and beginDownload; the directory, the space or the file may fail.
DownloadUpdate ==
    /\ state = "updateAvailable" /\ manifest # NoManifest
    /\ \/ /\ Fail
          /\ UNCHANGED <<generation, replies, bytes, file, watchdog>>
       \/ /\ state' = "downloading"
          /\ generation' = generation + 1
          /\ replies' = replies \cup {Request("archive", generation + 1)}
          /\ bytes' = 0 /\ watchdog' = WatchdogStarted
          /\ file' \in {"announced", "other"}
    /\ UNCHANGED <<fetched, manifest, process, payload, noticeVisible, dismissed,
                   cleanup, checks>>

\* onDownloadFinished with an error: the connection broke, the watchdog or readyRead
\* aborted the reply, the .part file could not be written.
DownloadFails(r) ==
    /\ replies' = replies \ {r} /\ watchdog' = FALSE
    /\ bytes' = 0 /\ file' = "none"
    /\ Fail
    /\ UNCHANGED <<generation, fetched, manifest, process, payload, noticeVisible,
                   dismissed, cleanup, checks>>

\* The next chunk is more than was announced.
TooMuch == bytes = Size

\* readyRead: another chunk; one too many aborts.
ReadyRead(r) ==
    /\ Ends(r) /\ r.kind = "archive"
    /\ IF TooMuch THEN DownloadFails(r)
       ELSE /\ bytes' = bytes + 1 /\ watchdog' = TRUE
            /\ UNCHANGED <<state, generation, replies, fetched, manifest, file, process,
                           payload, noticeVisible, dismissed, cleanup, checks>>

\* Nothing came for 60 s.
WatchdogFires(r) ==
    /\ watchdog /\ state = "downloading"
    /\ Ends(r) /\ r.kind = "archive"
    /\ DownloadFails(r)

ConnectionBreaks(r) == Ends(r) /\ r.kind = "archive" /\ DownloadFails(r)

\* Mutant: the digest is not compared.
SizeMatches == bytes = Size

\* The size and the sha256 of the manifest.
ArchiveMatches == bytes = Size /\ file = "announced"

\* What lies in the payload directory now; no swap goes on.
Unpacked(ps) == tree' = [tree EXCEPT !["payload"] = Holding(ps, "new")]

SwapIdle == UNCHANGED <<phase, entry, backedUp, installed, attempt, failures, before,
                        torn, undoFailed>>

\* onDownloadFinished without an error, up to onImageDownloaded or, with the
\* payload directory emptied, to the start of the unpacking process.
DownloadFinishes(r) ==
    /\ Ends(r) /\ r.kind = "archive"
    /\ replies' = replies \ {r} /\ watchdog' = FALSE
    /\ \/ /\ Fail
          /\ bytes' = 0 /\ file' = "none" /\ UNCHANGED <<process, payload, tree>>
       \/ /\ ArchiveMatches /\ ~image
          /\ state' = "extracting" /\ process' = TRUE
          /\ Unpacked({})
          /\ UNCHANGED <<bytes, file, payload>>
       \/ /\ ArchiveMatches /\ image
          /\ state' = "readyToApply" /\ payload' = file
          /\ Unpacked(NewFiles)
          /\ UNCHANGED <<bytes, file, process>>
    /\ SwapIdle
    /\ UNCHANGED <<generation, fetched, manifest, noticeVisible, dismissed, cleanup, checks>>

\* The files of the archive, less those that the cleanup has deleted meanwhile.
Written == IF file = "swept" THEN SUBSET NewFiles ELSE {NewFiles}

\* The process ends; onExtractionFinished looks for the client in what it wrote.
ExtractionFinishes ==
    /\ process /\ process' = FALSE
    /\ \/ Fail /\ UNCHANGED <<payload, tree>>
       \/ /\ state' = "readyToApply" /\ payload' = file
          /\ \E ps \in Written : ImagePaths \subseteq ps /\ Unpacked(ps)
    /\ SwapIdle
    /\ UNCHANGED <<generation, replies, fetched, manifest, bytes, file, watchdog,
                   noticeVisible, dismissed, cleanup, checks>>

\* applyAndRestart with m_canApply.  The thread is blocked until the swap ends.
ApplyAndRestart ==
    /\ state = "readyToApply" /\ payload # "none"
    /\ state' = "applying"
    /\ SwapBegins
    /\ UNCHANGED <<generation, replies, fetched, manifest, bytes, file, watchdog, process,
                   payload, noticeVisible, dismissed, cleanup, checks>>

\* The swap failed, the new version does not start, or the program quits.
SwapEnds ==
    /\ state = "applying" /\ phase \in {"ok", "failed"}
    /\ state' = "error" \/ (phase = "ok" /\ state' = "quit")
    /\ SwapReturns
    /\ UNCHANGED <<generation, replies, fetched, manifest, bytes, file, watchdog, process,
                   payload, noticeVisible, dismissed, cleanup, checks>>

\* The version that dismissNotice writes to the settings.
DismissedVersion == IF manifest = NoManifest THEN dismissed ELSE manifest.version

DismissNotice ==
    /\ noticeVisible
    /\ noticeVisible' = FALSE
    /\ dismissed' = DismissedVersion
    /\ UNCHANGED <<state, generation, replies, fetched, manifest, bytes, file, watchdog,
                   process, payload, cleanup, checks>>

\* startBackgroundTasks: 3 s after the start .update is deleted, and with it what the
\* user may already have downloaded and the files of the old version; a .part file
\* that is open is lost when renamed.
CleanupUpdateDir ==
    /\ cleanupDue /\ cleanupDue' = FALSE
    /\ swept' = (state \in {"downloading", "extracting"} \/ payload # "none")
    /\ payload' = IF payload = "none" THEN "none" ELSE "swept"
    /\ file' = IF state \in {"downloading", "extracting"} THEN "swept" ELSE file
    /\ tree' = [tree EXCEPT !["old"] = Empty, !["payload"] = Empty]
    /\ backupSwept' = (backupSwept \/ tree["old"] # Empty)
    /\ SwapIdle
    /\ UNCHANGED <<state, generation, replies, fetched, manifest, bytes, watchdog, process,
                   noticeVisible, dismissed, checks>>

-----------------------------------------------------------------------------
ManagerInit ==
    /\ state = "idle" /\ generation = 0 /\ replies = {}
    /\ fetched = NoManifest /\ manifest = NoManifest
    /\ bytes = 0 /\ file = "none" /\ watchdog = FALSE /\ process = FALSE
    /\ payload = "none" /\ noticeVisible = FALSE /\ dismissed = 0
    /\ cleanupDue = TRUE /\ swept = FALSE /\ backupSwept = FALSE /\ checks = 0
    /\ image \in BOOLEAN /\ SwapInit

\* What leaves the files of the installation alone.
Network ==
    \/ CheckForUpdates \/ DownloadUpdate \/ DismissNotice
    \/ \E r \in replies :
        \/ SendsOn(r) \/ ManifestReply(r) \/ SignatureReply(r) \/ ReadyRead(r)
        \/ WatchdogFires(r) \/ ConnectionBreaks(r)

Files ==
    \/ ExtractionFinishes \/ ApplyAndRestart \/ CleanupUpdateDir
    \/ \E r \in replies : DownloadFinishes(r)

ManagerNext ==
    /\ UNCHANGED image
    /\ \/ state # "applying" /\ Network /\ UNCHANGED swapVars
       \/ state # "applying" /\ Files
       \/ SwapStep /\ UNCHANGED managerVars
       \/ SwapEnds

ManagerSpec == ManagerInit /\ [][ManagerNext]_<<image, updaterVars>>

\* A small request whose body does not go on ends, at the latest by its inactivity
\* timeout, the watchdog's timer runs out, the unpacking process ends and the swap, on
\* the thread it blocks, goes on.  The server need not send or close anything.
ManagerFairness ==
    /\ WF_managerVars(\E r \in replies :
                        ~r.endless /\ (ManifestReply(r) \/ SignatureReply(r)))
    /\ WF_managerVars(\E r \in replies : WatchdogFires(r))
    /\ WF_managerVars(ExtractionFinishes)
    /\ WF_swapVars(SwapStep) /\ WF_managerVars(SwapEnds)

ManagerFairSpec == ManagerSpec /\ ManagerFairness

-----------------------------------------------------------------------------
ManagerTypeOK ==
    /\ SwapTypeOK /\ image \in BOOLEAN
    /\ state \in Busy \cup {"idle", "updateAvailable", "upToDate", "readyToApply",
                            "error", "quit"}
    /\ fetched \in Manifests \cup {NoManifest} /\ manifest \in Manifests \cup {NoManifest}
    /\ bytes \in 0..Size
    /\ file \in {"none", "announced", "other", "swept"}
    /\ payload \in {"none", "announced", "other", "swept"}
    /\ \A r \in replies : r.gen \in 1..generation

\* What may be applied was announced by a manifest with a valid signature, is newer
\* than the running version and has the announced digest; through repeated checks,
\* failures and offers that change between them.
PayloadVerified ==
    payload # "none" /\ ~swept =>
        payload = "announced" /\ manifest.signed /\ manifest.version > Current

\* At most one reply is under way and it is of the current generation: a check or a
\* download is never begun before the earlier one has ended, so that the generation
\* kept with each reply never has to drop one.
OneRequest ==
    /\ Cardinality(replies) <= 1
    /\ \A r \in replies : r.gen = generation
    /\ replies # {} => state \in {"checking", "downloading"}
    /\ process => state = "extracting"

\* The notice of an update is shown exactly when this version was not dismissed,
\* also in later checks.
NoticeAsDismissed ==
    state = "updateAvailable" => noticeVisible = (manifest.version # dismissed)

\* What the updater offers, fetches and keeps ready is right, in whatever order the
\* replies, the timers and the user come.
OfferSound == ManagerTypeOK /\ PayloadVerified /\ OneRequest /\ NoticeAsDismissed

\* No file of the old version is lost, whatever failed and however often the update
\* was applied: it lies under the root or in .update/old, until the delayed cleanup
\* has deleted that.  (Of an AppImage one backup is kept.)
NoFileLost ==
    image \/ backupSwept \/
        \A p \in OldPaths : \E d \in {"root", "old"} : tree[d][p] = "old"

\* An update that fails, however often it is tried, leaves an installation: nothing
\* is lost, nothing is half new, and an AppImage is in its place.
InstallationKept == NoFileLost /\ AllOrNothing /\ ImagePresent

\* The updater does not stay busy: not when the server stops sending, nor when it
\* sends the archive on and on, nor when renames fail.  Only a manifest or a signature
\* that is sent for ever keeps it busy, since fetchSmall waits for its end.
BusyEnds ==
    \/ state \in Busy ~> state \notin Busy
    \/ <>[](\E r \in replies : Small(r) /\ r.endless)
=============================================================================
