------------------------------ MODULE InstallSwap ------------------------------
(***************************************************************************)
(* install_swap::applyPayload: an unpacked update is moved into the        *)
(* install directory, entry by entry, after the old entry was moved into   *)
(* .update/old; a failed move starts a rollback.  A directory is moved     *)
(* file by file, and every file is tried three times.                      *)
(*                                                                         *)
(* applyImageFile, for an AppImage, is the same with one entry of one      *)
(* file, except that it deletes an older backup first.                     *)
(*                                                                         *)
(* A path is an entry of the top directory and a file in it; <<1, 1>> is   *)
(* the program.  Module UpdateManager begins a swap and goes on after it.  *)
(***************************************************************************)
EXTENDS Naturals, FiniteSets, FiniteSetsExt

CONSTANTS
    NumEntries,    \* entries of the payload, moved in this order
    OldPaths,      \* the files of the installed version
    NewPaths,      \* the files of the payload
    MaxFailures    \* bound on the attempts to rename a file that fail

Entries == 1..NumEntries
ImagePaths == {<<1, 1>>}

ASSUME InstallSwapConstants ==
    /\ NumEntries \in Nat \ {0} /\ MaxFailures \in Nat
    /\ IsFiniteSet(OldPaths) /\ IsFiniteSet(NewPaths)
    /\ ImagePaths \subseteq OldPaths \cap NewPaths
    /\ \A p \in OldPaths \cup NewPaths : p[1] \in Entries /\ p[2] \in Nat

Paths == OldPaths \cup NewPaths
Holding(ps, what) == [p \in Paths |-> IF p \in ps THEN what ELSE "none"]
Empty == Holding({}, "none")
FilesOf(e) == {p \in Paths : p[1] = e}

VARIABLES
    image,      \* the installation is an AppImage; it never changes
    tree,       \* what lies under the root, in .update/old and in the payload
    phase, entry,
    backedUp, installed,
    attempt,    \* renameWithRetry
    failures,
    rootBefore, payloadBefore,  \* what lay there when the swap began
    torn,       \* an entry was left half moved
    undoFailed  \* a move of the rollback failed

swapVars == <<tree, phase, entry, backedUp, installed, attempt, failures, rootBefore,
              payloadBefore, torn, undoFailed>>
before == <<rootBefore, payloadBefore>>

OldFiles == IF image THEN ImagePaths ELSE OldPaths
NewFiles == IF image THEN ImagePaths ELSE NewPaths

Dirs == {"root", "old", "payload"}
Undoing == {"undo_install", "undo_backup"}
Moving == {"backup", "install"} \cup Undoing

From == CASE phase = "backup" -> "root"          [] phase = "install" -> "payload"
          [] phase = "undo_install" -> "root"    [] phase = "undo_backup" -> "old"
To   == CASE phase = "backup" -> "old"           [] phase = "install" -> "root"
          [] phase = "undo_install" -> "payload" [] phase = "undo_backup" -> "root"

Held(dir, e) == {p \in FilesOf(e) : tree[dir][p] # "none"}

\* The file of the entry that is moved next.
First(ps) == CHOOSE p \in ps : \A q \in ps : p[2] <= q[2]

-----------------------------------------------------------------------------
\* The next entry of the rollback, in the order opposite to the moves'.
UndoFrom(inst, back) ==
    IF inst # {} THEN [phase |-> "undo_install", entry |-> Max(inst)]
    ELSE IF back # {} THEN [phase |-> "undo_backup", entry |-> Max(back)]
    ELSE [phase |-> "failed", entry |-> 0]

Go(next) == phase' = next.phase /\ entry' = next.entry

\* The move of an entry has ended, well or not, in a rollback.
AfterUndo ==
    IF phase = "undo_install" THEN UndoFrom({e \in installed : e < entry}, backedUp)
    ELSE UndoFrom({}, {e \in backedUp : e < entry})

\* moveEntry fails: a rollback begins, or goes on with the next entry.
MoveFails(moved) ==
    /\ attempt' = 0
    /\ IF phase \in Undoing
       THEN undoFailed' = TRUE /\ Go(AfterUndo) /\ UNCHANGED torn
       ELSE torn' = moved /\ Go(UndoFrom(installed, backedUp)) /\ UNCHANGED undoFailed
    /\ UNCHANGED <<backedUp, installed, before>>

\* Some files of the entry have been moved already.
HalfMoved ==
    \E p \in FilesOf(entry) :
        \/ phase = "backup" /\ tree["root"][p] # rootBefore[p]
        \/ phase = "install" /\ tree["payload"][p] # payloadBefore[p]

AlreadyThere(p) == tree[To][p] # "none"

\* QFile::rename succeeds.
MoveFile ==
    /\ phase \in Moving /\ Held(From, entry) # {}
    /\ LET p == First(Held(From, entry))
       IN  /\ ~AlreadyThere(p)
           /\ tree' = [tree EXCEPT ![To][p] = tree[From][p], ![From][p] = "none"]
    /\ attempt' = 0
    /\ UNCHANGED <<phase, entry, backedUp, installed, failures, before, torn,
                   undoFailed>>

\* renameWithRetry makes three attempts.
TriesAgain == attempt < 2

\* QFile::rename fails, the third time for good.
RenameFails ==
    /\ phase \in Moving /\ Held(From, entry) # {} /\ failures < MaxFailures
    /\ ~AlreadyThere(First(Held(From, entry)))
    /\ failures' = failures + 1
    /\ IF TriesAgain
       THEN attempt' = attempt + 1
            /\ UNCHANGED <<phase, entry, backedUp, installed, before, torn,
                           undoFailed>>
       ELSE MoveFails(HalfMoved)
    /\ UNCHANGED tree

DestinationExists ==
    /\ phase \in Moving /\ Held(From, entry) # {}
    /\ AlreadyThere(First(Held(From, entry)))
    /\ MoveFails(HalfMoved)
    /\ UNCHANGED <<tree, failures>>

\* Mutant: the old entry is not remembered.
RememberNothing == backedUp

RememberBackup == backedUp \cup {entry}

\* The old entry is out of the way.
BackedUp ==
    /\ phase = "backup" /\ Held("root", entry) = {}
    /\ phase' = "install"
    /\ backedUp' = IF \E p \in FilesOf(entry) : rootBefore[p] # "none"
                   THEN RememberBackup ELSE backedUp
    /\ UNCHANGED <<tree, entry, installed, attempt, failures, before, torn,
                   undoFailed>>

\* The loop over the entries of the payload.
NextEntry(es) ==
    LET names == {e \in es : Held("payload", e) # {}}
    IN  IF names = {} THEN [phase |-> "ok", entry |-> 0]
        ELSE [phase |-> "backup", entry |-> Min(names)]

\* The new entry is in place.
Installed ==
    /\ phase = "install" /\ Held("payload", entry) = {}
    /\ installed' = installed \cup {entry}
    /\ Go(NextEntry({e \in Entries : e > entry}))
    /\ UNCHANGED <<tree, backedUp, attempt, failures, before, torn, undoFailed>>

Undone ==
    /\ phase \in Undoing /\ Held(From, entry) = {}
    /\ Go(AfterUndo)
    /\ UNCHANGED <<tree, backedUp, installed, attempt, failures, before, torn,
                   undoFailed>>

\* One step of a swap.
SwapStep ==
    MoveFile \/ RenameFails \/ DestinationExists \/ BackedUp \/ Installed \/ Undone

\* There is nothing to install, or no image to replace.
Missing ==
    \/ \A e \in Entries : Held("payload", e) = {}
    \/ image /\ Held("root", 1) = {}

\* applyPayload and applyImageFile up to the first move.
SwapBegins ==
    /\ Go(IF Missing THEN [phase |-> "failed", entry |-> 0] ELSE NextEntry(Entries))
    /\ tree' = IF image /\ ~Missing THEN [tree EXCEPT !["old"] = Empty] ELSE tree
    /\ rootBefore' = tree["root"] /\ payloadBefore' = tree["payload"]
    /\ backedUp' = {} /\ installed' = {} /\ torn' = FALSE /\ undoFailed' = FALSE
    /\ UNCHANGED <<attempt, failures>>

\* What applyPayload keeps in local variables ends with it.
SwapReturns ==
    /\ phase' = "idle" /\ entry' = 0 /\ backedUp' = {} /\ installed' = {}
    /\ rootBefore' = Empty /\ payloadBefore' = Empty /\ torn' = FALSE /\ undoFailed' = FALSE
    /\ UNCHANGED <<tree, attempt, failures>>

SwapInit ==
    /\ tree = [d \in Dirs |-> IF d = "root" THEN Holding(OldFiles, "old") ELSE Empty]
    /\ phase = "idle" /\ entry = 0 /\ backedUp = {} /\ installed = {}
    /\ attempt = 0 /\ failures = 0
    /\ rootBefore = Empty /\ payloadBefore = Empty /\ torn = FALSE /\ undoFailed = FALSE

-----------------------------------------------------------------------------
SwapTypeOK ==
    /\ tree \in [Dirs -> [Paths -> {"none", "old", "new"}]]
    /\ phase \in Moving \cup {"idle", "ok", "failed"}
    /\ phase \in Moving => entry \in Entries
    /\ backedUp \subseteq Entries /\ installed \subseteq Entries
    /\ attempt \in 0..2

\* applyPayload installs all entries of the payload or nothing, when a move fails
\* between two entries or at the first file of one and every move back succeeds.  The
\* rollback of a second swap may also bring back what the first left in the backup.
AllOrNothing ==
    /\ phase = "ok" =>
        \A p \in Paths : tree["root"][p] =
            IF \E q \in FilesOf(p[1]) : payloadBefore[q] # "none" THEN payloadBefore[p]
            ELSE rootBefore[p]
    /\ phase = "failed" /\ ~torn /\ ~undoFailed =>
        /\ tree["payload"] = payloadBefore
        /\ \A p \in Paths : rootBefore[p] # "none" => tree["root"][p] = rootBefore[p]

\* An AppImage is never without its file, unless renaming failed six times: three
\* times to put the new one in place and three times to put the old one back.
ImagePresent ==
    image /\ phase \in {"ok", "failed"} /\ failures < 6 => Held("root", 1) # {}
=============================================================================
