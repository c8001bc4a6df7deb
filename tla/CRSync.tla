------------------------------- MODULE CRSync -------------------------------
(***************************************************************************)
(* Ability packages on disk, the copies of their CR files under              *)
(* crs/_packages, and the rows of AbilityCRBasic that                        *)
(* ResourceManager::update makes of them. update runs on the loop every ten  *)
(* seconds, on an HTTP thread after an upload or a removal, and on a pool    *)
(* thread at the end of a download. It holds m for a whole round and reads   *)
(* the disk piece by piece, while StoreManager's methods change the disk     *)
(* under m_dirs, and package tasks under no lock at all. A piece of disk     *)
(* that disappears under an iterator ends the round by an exception. A CR     *)
(* whose position is another framework's is checked by that framework too.    *)
(***************************************************************************)
EXTENDS Naturals, FiniteSets

CONSTANTS
    Packages,      \* a name with a version
    CRs,           \* the key of a CR: ability name, version and instance name
    PackageOf,     \* the package a CR's spec names
    UserCRs,       \* CRs whose file a user keeps directly under crs/
    Remote,        \* CRs whose spec.position is not of this host
    Http, Pool,    \* threads that serve requests, and that run package tasks
    Loop,          \* the loop's thread
    Free,          \* nobody, as the holder of a lock
    MaxRequests,   \* bound: requests and tasks in all
    MaxCrashes     \* bound: restarts of the framework

Threads == Http \cup Pool \cup {Loop}

ASSUME CRSyncAssumption ==
    /\ PackageOf \in [CRs -> Packages]
    /\ UserCRs \subseteq CRs /\ Remote \subseteq CRs
    /\ Loop \notin Http \cup Pool /\ Http \cap Pool = {}
    /\ Free \notin Threads /\ Packages # {}
    /\ "no" \notin Http \cup {Free}
    /\ MaxRequests \in Nat /\ MaxCrashes \in Nat

VARIABLES
    installed,   \* packages with a directory under packages/
    content,     \* the CR files in a package's own crs directory
    mirror,      \* the CR files under crs/_packages
    torn,        \* files of mirror that are being overwritten
    rows,        \* AbilityCRBasic
    packages,    \* the list ResourceManager keeps of what it has read
    m, m_dirs,   \* who holds the lock
    round,       \* the locals of the update that holds m
    th,          \* what each thread is doing
    requests, crashes

disk == <<installed, content, mirror, torn>>
vars == <<disk, rows, packages, m, m_dirs, round, th, requests, crashes>>

Of(p) == {c \in CRs \ UserCRs : PackageOf[c] = p}
Files == mirror \cup UserCRs
Ops == {"upload", "force", "delete", "download", "uninstall", "timer"}
Steps == {"idle", "dirs", "remove", "rename", "mirror", "copied", "unmirror",
          "extract", "update", "round"}
Idle == [at |-> "idle", op |-> "timer", pkg |-> CHOOSE p \in Packages : TRUE, new |-> {}]

TypeOK ==
    /\ installed \subseteq Packages
    /\ content \in [Packages -> SUBSET CRs]
    /\ mirror \subseteq CRs \ UserCRs /\ torn \subseteq CRs
    /\ rows \subseteq CRs
    /\ packages \subseteq Packages
    /\ m \in Threads \cup {Free} /\ m_dirs \in Threads \cup {Free}
    /\ round \in [at : {"packages", "copy", "crs", "done", "aborted"},
                  todo : SUBSET Packages, listed : SUBSET Packages, pkg : Packages,
                  left : SUBSET CRs, seen : SUBSET CRs, keys : SUBSET CRs]
    /\ th \in [Threads -> [at : Steps, op : Ops, pkg : Packages, new : SUBSET CRs]]
    /\ requests \in 0..MaxRequests /\ crashes \in 0..MaxCrashes
    /\ \A t \in Threads : th[t].at = "round" <=> m = t

NewRound == [at |-> "packages", todo |-> Packages, listed |-> {}, pkg |-> Idle.pkg,
             left |-> CRs, seen |-> {}, keys |-> {}]

Init ==
    /\ installed = {} /\ content = [p \in Packages |-> {}]
    /\ mirror = {} /\ torn = {} /\ rows = {} /\ packages = {}
    /\ m = Free /\ m_dirs = Free
    /\ round = [NewRound EXCEPT !.at = "done"]
    /\ th = [t \in Threads |-> Idle]
    /\ requests = 0 /\ crashes = 0

-----------------------------------------------------------------------------
(* Requests, and the package methods of StoreManager *)

GoTo(t, at) == th' = [th EXCEPT ![t].at = at]
Release(t) == m_dirs' = IF m_dirs = t THEN Free ELSE m_dirs
\* The pool's tasks know of no m_dirs
First(op) == CASE op \in {"upload", "force", "delete"} -> "dirs"
               [] op = "download" -> "extract"
               [] op = "uninstall" -> "remove"
               [] op = "timer" -> "update"

Start(t, op, p, C) ==
    /\ th[t].at = "idle"
    /\ th' = [th EXCEPT ![t] = [at |-> First(op), op |-> op, pkg |-> p, new |-> C]]
    /\ UNCHANGED <<disk, rows, packages, m, m_dirs, round, crashes>>

\* POST and DELETE /api/package, make_task_download_pkg_and_start_ability, and the
\* task package.install_package, whose factory is the one that removes
Request(t, op, p, C) ==
    /\ requests < MaxRequests
    /\ IF t \in Http THEN op \in {"upload", "force", "delete"}
       ELSE t \in Pool /\ op \in {"download", "uninstall"}
    /\ Start(t, op, p, C)
    /\ requests' = requests + 1

Timer == Start(Loop, "timer", Idle.pkg, {}) /\ UNCHANGED requests

\* A package that is there is left alone unless forced, one that is not there
\* cannot be removed; update runs all the same
TakeDirs(t) ==
    /\ th[t].at = "dirs" /\ m_dirs = Free
    /\ IF \/ th[t].op = "upload" /\ th[t].pkg \in installed
          \/ th[t].op = "delete" /\ th[t].pkg \notin installed
       THEN GoTo(t, "update") /\ UNCHANGED m_dirs
       ELSE GoTo(t, "remove") /\ m_dirs' = t
    /\ UNCHANGED <<disk, rows, packages, m, round, requests, crashes>>

RemoveAll(t) ==
    LET p == th[t].pkg
    IN  /\ th[t].at = "remove"
        /\ installed' = installed \ {p} /\ content' = [content EXCEPT ![p] = {}]
        /\ GoTo(t, CASE th[t].op = "delete" -> "unmirror"
                     [] th[t].op = "uninstall" -> "idle"
                     [] OTHER -> "rename")
        /\ UNCHANGED <<mirror, torn, rows, packages, m, m_dirs, round, requests, crashes>>

\* extract_package refuses a package that is there
Extract(t) ==
    /\ th[t].at = "extract"
    /\ GoTo(t, IF th[t].pkg \in installed THEN "idle" ELSE "rename")
    /\ UNCHANGED <<disk, rows, packages, m, m_dirs, round, requests, crashes>>

\* rename fails on a directory that is not empty: an exception, no update
Rename(t) ==
    LET p == th[t].pkg
    IN  /\ th[t].at = "rename"
        /\ IF p \in installed
           THEN GoTo(t, "idle") /\ Release(t) /\ UNCHANGED <<installed, content>>
           ELSE /\ installed' = installed \cup {p}
                /\ content' = [content EXCEPT ![p] = th[t].new]
                /\ GoTo(t, "mirror") /\ UNCHANGED m_dirs
        /\ UNCHANGED <<mirror, torn, rows, packages, m, round, requests, crashes>>

\* mirror_package_crs: the copies that are there are overwritten, the ones the
\* package no longer has stay
MirrorCRs(t) ==
    LET C == content[th[t].pkg]
    IN  /\ th[t].at = "mirror"
        /\ IF C = {} THEN GoTo(t, "update") /\ Release(t) /\ UNCHANGED <<mirror, torn>>
           ELSE /\ mirror' = mirror \cup C /\ torn' = torn \cup C
                /\ th' = [th EXCEPT ![t].at = "copied", ![t].new = C]
                /\ UNCHANGED m_dirs
        /\ UNCHANGED <<installed, content, rows, packages, m, round, requests, crashes>>

\* The last file is closed. The iterator throws if its directory has gone
CopyEnds(t) ==
    /\ th[t].at = "copied"
    /\ torn' = torn \ th[t].new
    /\ \/ GoTo(t, "update")
       \/ th[t].pkg \notin installed /\ GoTo(t, "idle")
    /\ Release(t)
    /\ UNCHANGED <<installed, content, mirror, rows, packages, m, round, requests, crashes>>

\* Fault: the removal is answered without an update
Unmirror_NoUpdate(t) ==
    /\ th[t].at = "unmirror"
    /\ mirror' = mirror \ Of(th[t].pkg) /\ torn' = torn \ Of(th[t].pkg)
    /\ GoTo(t, "idle") /\ Release(t)
    /\ UNCHANGED <<installed, content, rows, packages, m, round, requests, crashes>>
Unmirror(t) ==
    /\ th[t].at = "unmirror"
    /\ mirror' = mirror \ Of(th[t].pkg) /\ torn' = torn \ Of(th[t].pkg)
    /\ GoTo(t, "update") /\ Release(t)
    /\ UNCHANGED <<installed, content, rows, packages, m, round, requests, crashes>>

-----------------------------------------------------------------------------
(* ResourceManager::update. Its steps read what the disk holds at the time *)

Others == <<installed, content, m_dirs, requests, crashes>>

\* Fault: packages keeps what earlier rounds have read
BeginRound_Keeps(t) ==
    /\ th[t].at = "update" /\ m = Free
    /\ m' = t /\ GoTo(t, "round")
    /\ round' = [NewRound EXCEPT !.listed = installed]
    /\ UNCHANGED <<Others, mirror, torn, rows, packages>>
BeginRound(t) ==
    /\ th[t].at = "update" /\ m = Free
    /\ m' = t /\ GoTo(t, "round")
    /\ packages' = {} /\ round' = [NewRound EXCEPT !.listed = installed]
    /\ UNCHANGED <<Others, mirror, torn, rows>>

\* recursively_search_packages hands out one package at a time
ReadPackage(p) ==
    /\ m # Free /\ round.at = "packages" /\ p \in round.todo
    /\ IF p \in installed
       THEN /\ packages' = packages \cup {p}
            /\ round' = [round EXCEPT !.todo = @ \ {p}, !.pkg = p,
                             !.at = IF content[p] = {} THEN @ ELSE "copy"]
       ELSE round' = [round EXCEPT !.todo = @ \ {p}] /\ UNCHANGED packages
    /\ UNCHANGED <<Others, mirror, torn, rows, m, th>>

\* mirror_package_crs returns if there is no crs directory any more. Another thread's
\* copy of the same file goes on
Writing == UNION {th[t].new : t \in {t \in Threads : th[t].at = "copied"}}
MirrorPackage ==
    LET C == content[round.pkg]
    IN  /\ m # Free /\ round.at = "copy"
        /\ mirror' = mirror \cup C /\ torn' = torn \ (C \ Writing)
        /\ round' = [round EXCEPT !.at = "packages"]
        /\ UNCHANGED <<Others, rows, packages, m, th>>

PackagesRead ==
    /\ m # Free /\ round.at = "packages" /\ round.todo = {}
    /\ round' = [round EXCEPT !.at = "crs", !.seen = mirror, !.listed = {}]
    /\ UNCHANGED <<Others, mirror, torn, rows, packages, m, th>>

\* The lock_guard lets m go; an HTTP thread answers, a task ends
Leave(at) ==
    /\ m' = Free
    /\ th' = [th EXCEPT ![m] = Idle]
    /\ round' = [round EXCEPT !.at = at]

\* A directory that was listed is gone when the iterator opens it
Vanished ==
    \/ round.at = "packages" /\ round.todo \cap (round.listed \ installed) # {}
    \/ round.at = "copy" /\ content[round.pkg] = {}
    \/ round.at = "crs" /\ \E c \in round.left \cap round.seen : c \notin mirror

\* The iterator throws. Fault: m is not let go
Abort_HoldsLock ==
    /\ m # Free /\ Vanished
    /\ th' = [th EXCEPT ![m] = Idle]
    /\ round' = [round EXCEPT !.at = "aborted"]
    /\ UNCHANGED <<Others, mirror, torn, rows, packages, m>>
Abort ==
    /\ m # Free /\ Vanished
    /\ Leave("aborted")
    /\ UNCHANGED <<Others, mirror, torn, rows, packages>>

\* A CR is valid with the manifest of its package; the framework of a remote one may
\* refuse it or not answer. The text of a torn file may parse all the same.
\* Fault: only a CR that is new counts as seen
Loadable(c) == c \in Files /\ PackageOf[c] \in packages
ReadCR_OnlyNew(c) ==
    /\ m # Free /\ round.at = "crs" /\ c \in round.left
    /\ \/ /\ Loadable(c)
          /\ rows' = rows \cup {c}
          /\ round' = [round EXCEPT !.left = @ \ {c},
                           !.keys = IF c \in rows THEN @ ELSE @ \cup {c}]
       \/ /\ ~Loadable(c) \/ c \in torn \/ c \in Remote
          /\ round' = [round EXCEPT !.left = @ \ {c}]
          /\ UNCHANGED rows
    /\ UNCHANGED <<Others, mirror, torn, packages, m, th>>
ReadCR(c) ==
    /\ m # Free /\ round.at = "crs" /\ c \in round.left
    /\ \/ /\ Loadable(c)
          /\ rows' = rows \cup {c}
          /\ round' = [round EXCEPT !.left = @ \ {c}, !.keys = @ \cup {c}]
       \/ /\ ~Loadable(c) \/ c \in torn \/ c \in Remote
          /\ round' = [round EXCEPT !.left = @ \ {c}]
          /\ UNCHANGED rows
    /\ UNCHANGED <<Others, mirror, torn, packages, m, th>>

\* The rows of CRs this round has not seen go. Fault: they stay
Reconcile_Keeps ==
    /\ m # Free /\ round.at = "crs" /\ round.left = {}
    /\ Leave("done")
    /\ UNCHANGED <<Others, mirror, torn, rows, packages>>
Reconcile ==
    /\ m # Free /\ round.at = "crs" /\ round.left = {}
    /\ rows' = rows \cap round.keys
    /\ Leave("done")
    /\ UNCHANGED <<Others, mirror, torn, packages>>

\* The framework dies and is started again: disk and tables stay
Crash ==
    /\ crashes < MaxCrashes
    /\ crashes' = crashes + 1
    /\ packages' = {} /\ m' = Free /\ m_dirs' = Free
    /\ round' = [NewRound EXCEPT !.at = "aborted"]
    /\ th' = [t \in Threads |-> Idle]
    /\ UNCHANGED <<disk, rows, requests>>

-----------------------------------------------------------------------------

ThreadStep(t) ==
    \/ TakeDirs(t) \/ RemoveAll(t) \/ Extract(t) \/ Rename(t) \/ MirrorCRs(t)
    \/ CopyEnds(t) \/ Unmirror(t) \/ BeginRound(t)
RoundStep ==
    \/ \E p \in Packages : ReadPackage(p)
    \/ MirrorPackage \/ PackagesRead \/ Abort \/ Reconcile
    \/ \E c \in CRs : ReadCR(c)
Next ==
    \/ \E t \in Threads, op \in Ops, p \in Packages, C \in SUBSET CRs :
          /\ C \subseteq Of(p) /\ (op \in {"delete", "uninstall"} => C = {})
          /\ Request(t, op, p, C)
    \/ Timer
    \/ \E t \in Threads : ThreadStep(t)
    \/ RoundStep
    \/ Crash

-----------------------------------------------------------------------------
(* What an observer notes beside the program *)

VARIABLES
    fresh,    \* the last round saw the disk as it is now
    gone,     \* the thread whose DELETE has removed the package, Free once that is
              \* answered after a whole round; "no" when somebody has installed it since
    missed    \* CRs that were not readable at some moment since the last round began, or
              \* were refused by their framework in that round

hvars == <<fresh, gone, missed>>

Unreadable == {c \in CRs : c \notin Files \/ c \in torn \/ PackageOf[c] \notin installed}

HInit == Init /\ fresh = "no" /\ gone = [p \in Packages |-> "no"] /\ missed = CRs

Observe ==
    LET began == m = Free /\ m' # Free
        ended == m # Free /\ m' = Free
        \* The threads whose DELETE of p reaches a step
        Deletes(p, at) == {t \in Http : /\ th[t].op = "delete" /\ th[t].pkg = p
                                        /\ th[t].at # at /\ th'[t].at = at}
        refused == Remote \cap ((round.left \ round'.left) \ round'.keys)
    IN  /\ fresh' = IF began THEN "reading"
                    ELSE IF disk' # disk \/ (ended /\ round'.at = "aborted") THEN "no"
                    ELSE IF ended /\ fresh = "reading" THEN "yes"
                    ELSE fresh
        /\ gone' = [p \in Packages |->
               IF p \in installed' THEN "no"
               ELSE IF Deletes(p, "unmirror") # {}
                    THEN CHOOSE t \in Deletes(p, "unmirror") : TRUE
               ELSE IF gone[p] \in Deletes(p, "idle")
                    THEN IF round'.at = "aborted" THEN "no" ELSE Free
               ELSE gone[p]]
        /\ missed' = (IF began THEN {} ELSE missed \cup refused) \cup Unreadable'

Spec == HInit /\ [][Next /\ Observe]_<<vars, hvars>>

\* The loop's timer goes on, and no thread stops for ever
Fairness ==
    /\ WF_<<vars, hvars>>(Timer /\ Observe)
    /\ \A t \in Threads : WF_<<vars, hvars>>(ThreadStep(t) /\ Observe)
    /\ WF_<<vars, hvars>>(RoundStep /\ Observe)
FairSpec == Spec /\ Fairness

-----------------------------------------------------------------------------
(* Properties *)

\* A remote CR has its row only while its framework confirms it
InStep ==
    \A c \in CRs \ torn :
        LET readable == c \in Files /\ PackageOf[c] \in installed
        IN  /\ c \in rows => readable
            /\ c \notin Remote /\ readable => c \in rows

\* A round that nobody disturbed leaves the table in step with the files
\* (read_crs_into_db's reconcile), whatever rounds were cut short before it
RowsFollowFiles == fresh = "yes" => InStep

\* "the mirrored CRs are already gone, clean up the rows now" (DELETE
\* /api/package): once it is answered the package has no row, though a round that
\* had begun before the removal may have ended after it
DeletedStaysGone == \A c \in rows : gone[PackageOf[c]] # Free

\* A template keeps its row, and with it its id, its retries and its autostart
\* flag, over every round in which its file could be read all along and its framework,
\* if it is of another, confirmed it
DropHasCause == [][\A c \in rows \ rows' : c \in missed']_<<vars, hvars>>

\* When the requests end the table comes in step with the files, whatever rounds
\* were cut short and wherever the framework died
Converges == <>[]InStep
=============================================================================
