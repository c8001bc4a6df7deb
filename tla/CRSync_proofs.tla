---------------------------- MODULE CRSync_proofs ----------------------------
(***************************************************************************)
(* The safety properties of CRSync, proved for every set of packages, CRs    *)
(* and threads and every bound.                                             *)
(***************************************************************************)
EXTENDS CRSync, TLAPS

allvars == <<vars, hvars>>

\* A package brings files of its own CRs only
FilesInv ==
    /\ \A p \in Packages : content[p] \subseteq Of(p)
    /\ \A t \in Threads : th[t].new \subseteq Of(th[t].pkg)

\* A CR counts as seen only if its manifest was there, and then it has a row
KeysInv ==
    m # Free => /\ round.keys \subseteq rows
                /\ \A c \in round.keys : PackageOf[c] \in packages
                /\ round.at \in {"packages", "copy"} => round.left = CRs
                /\ round.keys \cap round.left = {}
                /\ round.at = "crs" => round.todo = {}

\* A round that saw the disk as it is agrees with it as far as it has come
FreshInv ==
    /\ fresh = "yes" => m = Free
    /\ fresh = "reading" =>
          /\ m # Free
          /\ \A p \in Packages : p \in packages <=> p \in installed /\ p \notin round.todo
          /\ \A c \in CRs \ torn : c \notin round.left =>
                /\ c \in round.keys => Loadable(c)
                /\ Loadable(c) /\ c \notin Remote => c \in round.keys

\* A removed package stays out of the rounds that begin after its removal
GoneInv ==
    /\ \A p \in Packages : gone[p] # "no" => p \notin installed
    /\ \A t \in Http, p \in Packages :
          gone[p] = t => /\ th[t].op = "delete" /\ th[t].pkg = p
                         /\ th[t].at \in {"unmirror", "update", "round"}
                         /\ th[t].at = "round" => p \notin packages
    /\ \A p \in Packages : gone[p] = Free => p \notin packages
    /\ \A t \in Threads : th[t].op = "delete" =>
          th[t].at \in {"dirs", "remove", "unmirror", "update", "round"}

\* What a round has passed over could not be read at some moment
MissedInv ==
    m # Free => /\ \A p \in Packages : p \notin round.todo /\ p \notin packages =>
                        \A c \in CRs : PackageOf[c] = p => c \in missed
                /\ \A c \in CRs : c \notin round.left /\ c \notin round.keys => c \in missed

HTypeOK ==
    /\ fresh \in {"no", "reading", "yes"}
    /\ gone \in [Packages -> Http \cup {Free, "no"}]
    /\ missed \subseteq CRs

IInv ==
    /\ TypeOK /\ HTypeOK /\ FilesInv /\ KeysInv /\ FreshInv /\ GoneInv /\ MissedInv
    /\ RowsFollowFiles /\ DeletedStaysGone
-----------------------------------------------------------------------------
USE DEF Threads, Steps, Ops, disk, Others

LEMMA IdleIs == /\ Idle.pkg \in Packages
                /\ Idle = [at |-> "idle", op |-> "timer", pkg |-> Idle.pkg, new |-> {}]
BY CRSyncAssumption DEF Idle

\* What a thread is doing, as the provers need it: a function of records
LEMMA ThreadIs ==
    ASSUME TypeOK, NEW t \in Threads
    PROVE  /\ th[t] = [at |-> th[t].at, op |-> th[t].op, pkg |-> th[t].pkg, new |-> th[t].new]
           /\ th[t].at \in Steps /\ th[t].op \in Ops
           /\ th[t].pkg \in Packages /\ th[t].new \subseteq CRs
BY DEF TypeOK

\* Reading a package leaves the CRs of the round alone
LEMMA ReadPackageIs ==
    ASSUME TypeOK, NEW p \in Packages, ReadPackage(p)
    PROVE  round' = [at |-> IF p \in installed /\ content[p] # {} THEN "copy" ELSE "packages",
                     todo |-> round.todo \ {p}, listed |-> round.listed,
                     pkg |-> IF p \in installed THEN p ELSE round.pkg,
                     left |-> round.left, seen |-> round.seen, keys |-> round.keys]
<1> DEFINE at == IF content[p] = {} THEN round.at ELSE "copy"
<1>1. CASE p \in installed
  <2>1. round' = [round EXCEPT !.todo = round.todo \ {p}, !.pkg = p, !.at = at]
    BY <1>1 DEF ReadPackage
  <2>2. at = IF content[p] # {} THEN "copy" ELSE "packages"
    BY DEF ReadPackage
  <2> HIDE DEF at
  <2> QED
    BY <1>1, <2>1, <2>2 DEF TypeOK
<1>2. CASE p \notin installed
  <2>1. round' = [round EXCEPT !.todo = round.todo \ {p}] /\ round.at = "packages"
    BY <1>2 DEF ReadPackage
  <2> QED
    BY <1>2, <2>1 DEF TypeOK
<1> QED
  BY <1>1, <1>2

\* Type correctness: an exception in a round lets m go, and no step of the
\* package methods writes anything but CRs of the package it is about
LEMMA TypeStep == TypeOK /\ FilesInv /\ [Next]_vars => TypeOK' /\ FilesInv'
<1> SUFFICES ASSUME TypeOK, FilesInv, [Next]_vars PROVE TypeOK' /\ FilesInv'
  OBVIOUS
<1> USE CRSyncAssumption, IdleIs
<1>1. ASSUME NEW t \in Threads, NEW op \in Ops, NEW p \in Packages, NEW C \in SUBSET CRs,
             C \subseteq Of(p), Request(t, op, p, C)
      PROVE  TypeOK' /\ FilesInv'
  BY <1>1 DEF Request, Start, First, TypeOK, FilesInv, Of
<1>2. CASE Timer
  BY <1>2 DEF Timer, Start, First, TypeOK, FilesInv, Of
<1>3. ASSUME NEW t \in Threads, TakeDirs(t) PROVE TypeOK' /\ FilesInv'
  BY <1>3 DEF TakeDirs, GoTo, TypeOK, FilesInv, Of
<1>4. ASSUME NEW t \in Threads, RemoveAll(t) PROVE TypeOK' /\ FilesInv'
  BY <1>4 DEF RemoveAll, GoTo, TypeOK, FilesInv, Of
<1>5. ASSUME NEW t \in Threads, Extract(t) PROVE TypeOK' /\ FilesInv'
  BY <1>5 DEF Extract, GoTo, TypeOK, FilesInv, Of
<1>6. ASSUME NEW t \in Threads, Rename(t) PROVE TypeOK' /\ FilesInv'
  BY <1>6 DEF Rename, GoTo, Release, TypeOK, FilesInv, Of
<1>7. ASSUME NEW t \in Threads, MirrorCRs(t) PROVE TypeOK' /\ FilesInv'
  BY <1>7 DEF MirrorCRs, GoTo, Release, TypeOK, FilesInv, Of
<1>8. ASSUME NEW t \in Threads, CopyEnds(t) PROVE TypeOK' /\ FilesInv'
  BY <1>8 DEF CopyEnds, GoTo, Release, TypeOK, FilesInv, Of
<1>9. ASSUME NEW t \in Threads, Unmirror(t) PROVE TypeOK' /\ FilesInv'
  BY <1>9 DEF Unmirror, GoTo, Release, TypeOK, FilesInv, Of
<1>10. ASSUME NEW t \in Threads, BeginRound(t) PROVE TypeOK' /\ FilesInv'
  BY <1>10 DEF BeginRound, GoTo, NewRound, TypeOK, FilesInv, Of
<1>11. ASSUME NEW p \in Packages, ReadPackage(p) PROVE TypeOK' /\ FilesInv'
  <2>1. round' \in [at : {"packages", "copy", "crs", "done", "aborted"},
                    todo : SUBSET Packages, listed : SUBSET Packages, pkg : Packages,
                    left : SUBSET CRs, seen : SUBSET CRs, keys : SUBSET CRs]
    BY <1>11, ReadPackageIs DEF TypeOK
  <2>2. packages' \subseteq Packages
    BY <1>11 DEF ReadPackage, TypeOK
  <2> QED
    BY <1>11, <2>1, <2>2 DEF ReadPackage, TypeOK, FilesInv, Of
<1>12. CASE MirrorPackage
  BY <1>12 DEF MirrorPackage, TypeOK, FilesInv, Of
<1>13. CASE PackagesRead
  BY <1>13 DEF PackagesRead, TypeOK, FilesInv, Of
<1>14. CASE Abort
  BY <1>14 DEF Abort, Leave, TypeOK, FilesInv, Of
<1>15. ASSUME NEW c \in CRs, ReadCR(c) PROVE TypeOK' /\ FilesInv'
  <2>1. round' \in [at : {"packages", "copy", "crs", "done", "aborted"},
                    todo : SUBSET Packages, listed : SUBSET Packages, pkg : Packages,
                    left : SUBSET CRs, seen : SUBSET CRs, keys : SUBSET CRs]
    <3>1. CASE round' = [round EXCEPT !.left = @ \ {c}, !.keys = @ \cup {c}]
      BY <3>1 DEF TypeOK
    <3>2. CASE round' = [round EXCEPT !.left = @ \ {c}]
      BY <3>2 DEF TypeOK
    <3> QED
      BY <1>15, <3>1, <3>2 DEF ReadCR
  <2> QED
    BY <1>15, <2>1 DEF ReadCR, TypeOK, FilesInv, Of
<1>16. CASE Reconcile
  BY <1>16 DEF Reconcile, Leave, TypeOK, FilesInv, Of
<1>17. CASE Crash
  BY <1>17 DEF Crash, NewRound, TypeOK, FilesInv, Of
<1>18. CASE UNCHANGED vars
  BY <1>18 DEF vars, TypeOK, FilesInv, Of
<1> QED
  BY <1>1, <1>2, <1>3, <1>4, <1>5, <1>6, <1>7, <1>8, <1>9, <1>10, <1>11, <1>12,
     <1>13, <1>14, <1>15, <1>16, <1>17, <1>18 DEF Next, ThreadStep, RoundStep
\* Requests and package methods leave the round, the table and the lock alone
LEMMA StepKinds ==
    ASSUME [Next]_vars
    PROVE  \/ UNCHANGED <<rows, packages, m, round>>
           \/ \E t \in Threads : BeginRound(t)
           \/ RoundStep
           \/ Crash
BY DEF Next, ThreadStep, vars, Request, Timer, Start, TakeDirs, RemoveAll, Extract,
       Rename, MirrorCRs, CopyEnds, Unmirror

\* A round's steps
LEMMA RoundKinds ==
    ASSUME RoundStep
    PROVE  \/ \E p \in Packages : ReadPackage(p)
           \/ MirrorPackage \/ PackagesRead \/ Abort \/ Reconcile
           \/ \E c \in CRs : ReadCR(c)
BY DEF RoundStep

\* A CR that is read is seen and gets its row, or it is passed over
LEMMA ReadCRIs ==
    ASSUME TypeOK, NEW c \in CRs, ReadCR(c)
    PROVE  /\ round'.at = round.at /\ round'.todo = round.todo
           /\ c \in round.left /\ round'.left = round.left \ {c}
           /\ \/ Loadable(c) /\ rows' = rows \cup {c} /\ round'.keys = round.keys \cup {c}
              \/ /\ ~Loadable(c) \/ c \in torn \/ c \in Remote
                 /\ UNCHANGED rows /\ round'.keys = round.keys
<1>1. CASE /\ Loadable(c) /\ rows' = rows \cup {c}
           /\ round' = [round EXCEPT !.left = @ \ {c}, !.keys = @ \cup {c}]
  BY <1>1 DEF TypeOK, ReadCR
<1>2. CASE /\ ~Loadable(c) \/ c \in torn \/ c \in Remote
           /\ round' = [round EXCEPT !.left = @ \ {c}] /\ UNCHANGED rows
  BY <1>2 DEF TypeOK, ReadCR
<1> QED
  BY <1>1, <1>2 DEF ReadCR

\* What a round has seen keeps its row and its manifest until the round ends
LEMMA KeysStep == TypeOK /\ KeysInv /\ [Next]_vars => KeysInv'
<1> SUFFICES ASSUME TypeOK, KeysInv, [Next]_vars PROVE KeysInv'
  OBVIOUS
<1> USE CRSyncAssumption
<1>1. CASE UNCHANGED <<rows, packages, m, round>>
  BY <1>1 DEF KeysInv
<1>2. ASSUME NEW t \in Threads, BeginRound(t) PROVE KeysInv'
  BY <1>2 DEF BeginRound, NewRound, KeysInv
<1>3. ASSUME NEW p \in Packages, ReadPackage(p) PROVE KeysInv'
  <2>1. /\ round'.keys = round.keys /\ round'.left = round.left
        /\ round'.at \in {"packages", "copy"} /\ packages \subseteq packages'
    BY <1>3, ReadPackageIs DEF ReadPackage
  <2> QED
    BY <1>3, <2>1 DEF ReadPackage, KeysInv
<1>4. CASE MirrorPackage
  BY <1>4 DEF MirrorPackage, KeysInv, TypeOK
<1>5. CASE PackagesRead
  BY <1>5 DEF PackagesRead, KeysInv, TypeOK
<1>6. CASE Abort
  BY <1>6 DEF Abort, Leave, KeysInv
<1>7. ASSUME NEW c \in CRs, ReadCR(c) PROVE KeysInv'
  BY <1>7, ReadCRIs DEF ReadCR, Loadable, KeysInv
<1>8. CASE Reconcile
  BY <1>8 DEF Reconcile, Leave, KeysInv
<1>9. CASE Crash
  BY <1>9 DEF Crash, KeysInv
<1> QED
  BY <1>1, <1>2, <1>3, <1>4, <1>5, <1>6, <1>7, <1>8, <1>9, StepKinds, RoundKinds

\* The observer's notes have their types
LEMMA HTypeStep == HTypeOK /\ Observe => HTypeOK'
<1> SUFFICES ASSUME HTypeOK, Observe PROVE HTypeOK'
  OBVIOUS
<1>1. fresh' \in {"no", "reading", "yes"}
  BY DEF HTypeOK, Observe
<1>2. missed' \subseteq CRs
  BY CRSyncAssumption DEF HTypeOK, Observe, Unreadable
<1>3. gone' \in [Packages -> Http \cup {Free, "no"}]
  BY DEF HTypeOK, Observe
<1> QED
  BY <1>1, <1>2, <1>3 DEF HTypeOK
\* Who lets m go says how the round ended
LEMMA RoundEnds ==
    ASSUME TypeOK, [Next]_vars, m # Free, m' = Free
    PROVE  round'.at \in {"done", "aborted"} /\ (round'.at = "done" => Reconcile)
<1> USE CRSyncAssumption
<1>1. CASE UNCHANGED <<rows, packages, m, round>>
  BY <1>1
<1>2. CASE \E t \in Threads : BeginRound(t)
  BY <1>2 DEF BeginRound
<1>3. CASE RoundStep
  <2>1. CASE Abort
    BY <2>1 DEF Abort, Leave, TypeOK
  <2>2. CASE Reconcile
    BY <2>2 DEF Reconcile, Leave, TypeOK
  <2> QED
    BY <1>3, <2>1, <2>2, RoundKinds
       DEF ReadPackage, MirrorPackage, PackagesRead, ReadCR
<1>4. CASE Crash
  BY <1>4 DEF Crash, NewRound
<1> QED
  BY <1>1, <1>2, <1>3, <1>4, StepKinds

\* A step of a round that leaves the disk as it was keeps the round in agreement
LEMMA ReadingStep ==
    ASSUME TypeOK, KeysInv, FreshInv, [Next]_vars, fresh = "reading",
           m' # Free, UNCHANGED disk
    PROVE  /\ \A p \in Packages : p \in packages' <=> p \in installed' /\ p \notin round'.todo
           /\ \A c \in CRs \ torn' : c \notin round'.left =>
                 /\ c \in round'.keys => Loadable(c)'
                 /\ Loadable(c)' /\ c \notin Remote => c \in round'.keys
<1> USE CRSyncAssumption DEF FreshInv
<1> DEFINE Goal == /\ \A p \in Packages :
                           p \in packages' <=> p \in installed' /\ p \notin round'.todo
                   /\ \A c \in CRs \ torn' : c \notin round'.left =>
                         /\ c \in round'.keys => Loadable(c)'
                         /\ Loadable(c)' /\ c \notin Remote => c \in round'.keys
<1>1. CASE UNCHANGED <<rows, packages, m, round>>
  BY <1>1 DEF Loadable, Files
<1>2. ASSUME NEW p \in Packages, ReadPackage(p) PROVE Goal
  <2>1. /\ round'.keys = round.keys /\ round'.left = CRs
        /\ round'.todo = round.todo \ {p} /\ p \in round.todo
    <3>1. /\ round'.keys = round.keys /\ round'.left = round.left
          /\ round'.todo = round.todo \ {p}
      BY <1>2, ReadPackageIs
    <3>2. p \in round.todo /\ m # Free /\ round.at = "packages"
      BY <1>2 DEF ReadPackage
    <3> QED
      BY <3>1, <3>2 DEF KeysInv
  <2>2. packages' = IF p \in installed THEN packages \cup {p} ELSE packages
    BY <1>2 DEF ReadPackage
  <2> QED
    BY <2>1, <2>2
<1>3. CASE MirrorPackage
  <2>1. /\ round'.keys = round.keys /\ round'.left = round.left
        /\ round'.todo = round.todo /\ UNCHANGED packages
    BY <1>3 DEF MirrorPackage, TypeOK
  <2> QED
    BY <2>1 DEF Loadable, Files
<1>4. CASE PackagesRead
  <2>1. /\ round'.keys = round.keys /\ round'.left = round.left
        /\ round'.todo = round.todo /\ UNCHANGED packages
    BY <1>4 DEF PackagesRead, TypeOK
  <2> QED
    BY <2>1 DEF Loadable, Files
<1>5. ASSUME NEW c \in CRs, ReadCR(c) PROVE Goal
  <2>1. round'.todo = round.todo /\ UNCHANGED packages /\ round'.left = round.left \ {c}
    BY <1>5, ReadCRIs DEF ReadCR
  <2>2. c \notin torn => /\ c \in round'.keys => Loadable(c)
                         /\ Loadable(c) /\ c \notin Remote => c \in round'.keys
    <3>1. c \notin round.keys
      BY <1>5, ReadCRIs DEF ReadCR, KeysInv
    <3> QED
      BY <1>5, <3>1, ReadCRIs
  <2>3. \A d \in CRs \ {c} : d \in round'.keys <=> d \in round.keys
    BY <1>5, ReadCRIs
  <2>4. \A d \in CRs : Loadable(d)' <=> Loadable(d)
    BY <2>1 DEF Loadable, Files
  <2> QED
    BY <2>1, <2>2, <2>3, <2>4
<1>6. CASE Abort \/ Reconcile \/ Crash
  BY <1>6 DEF Abort, Reconcile, Crash, Leave
<1>7. CASE \E t \in Threads : BeginRound(t)
  BY <1>7 DEF BeginRound
<1> QED
  BY <1>1, <1>2, <1>3, <1>4, <1>5, <1>6, <1>7, StepKinds, RoundKinds

\* RowsFollowFiles is inductive with the agreement of the round that is reading
LEMMA FreshStep ==
    ASSUME TypeOK, HTypeOK, KeysInv, FreshInv, RowsFollowFiles, [Next]_vars, Observe
    PROVE  FreshInv' /\ RowsFollowFiles'
<1> USE CRSyncAssumption
<1>1. CASE fresh' = "no"
  BY <1>1 DEF FreshInv, RowsFollowFiles
<1>2. CASE fresh' = "reading"
  <2>1. CASE m = Free /\ m' # Free
    <3>1. PICK t \in Threads : BeginRound(t)
      BY <2>1, StepKinds, RoundKinds
         DEF ReadPackage, MirrorPackage, PackagesRead, Abort, ReadCR, Reconcile, Crash
    <3> QED
      BY <1>2, <2>1, <3>1 DEF BeginRound, NewRound, FreshInv, RowsFollowFiles
  <2>2. CASE ~(m = Free /\ m' # Free)
    <3>1. fresh = "reading" /\ disk' = disk /\ m # Free
      <4> HIDE DEF disk
      <4>1. fresh = "reading" /\ disk' = disk
        BY <1>2, <2>2 DEF Observe
      <4> QED
        BY <4>1 DEF FreshInv
    <3>2. m' # Free
      BY <1>2, <2>2, <3>1, RoundEnds DEF Observe
    <3> QED
      BY <1>2, <3>1, <3>2, ReadingStep DEF FreshInv, RowsFollowFiles
  <2> QED
    BY <2>1, <2>2
<1>3. CASE fresh' = "yes"
  <2>1. disk' = disk /\ m' = Free
    <3> HIDE DEF disk
    <3>1. disk' = disk /\ ~(m = Free /\ m' # Free)
      BY <1>3 DEF Observe
    <3>2. CASE m # Free /\ m' = Free
      BY <3>1, <3>2
    <3>3. CASE ~(m # Free /\ m' = Free)
      <4>1. fresh = "yes"
        BY <1>3, <3>1, <3>3 DEF Observe
      <4> QED
        BY <3>1, <4>1 DEF FreshInv
    <3> QED
      BY <3>1, <3>2, <3>3
  <2>2. CASE fresh = "reading"
    <3>1. m # Free /\ Reconcile
      BY <1>3, <2>1, <2>2, RoundEnds DEF Observe, FreshInv
    <3>2. rows' = rows \cap round.keys /\ round.left = {} /\ round.todo = {}
      BY <3>1 DEF Reconcile, KeysInv
    <3>3. InStep'
      BY <2>1, <2>2, <3>1, <3>2 DEF InStep, FreshInv, KeysInv, Loadable, Files
    <3> QED
      BY <1>3, <2>1, <3>3 DEF FreshInv, RowsFollowFiles
  <2>3. CASE fresh # "reading"
    <3>1. fresh = "yes" /\ m = Free
      BY <1>3, <2>3 DEF Observe, FreshInv
    <3>2. UNCHANGED rows
      BY <2>1, <3>1, StepKinds, RoundKinds
         DEF BeginRound, Crash, ReadPackage, MirrorPackage, PackagesRead, Abort, ReadCR, Reconcile
    <3> QED
      BY <1>3, <2>1, <3>1, <3>2 DEF FreshInv, RowsFollowFiles, InStep, Files
  <2> QED
    BY <2>2, <2>3
<1> QED
  BY <1>1, <1>2, <1>3 DEF HTypeOK, Observe
\* A DELETE goes through its steps and is answered at the end of its round
DeleteMoves == {<<"dirs", "remove">>, <<"dirs", "update">>, <<"remove", "unmirror">>,
                <<"unmirror", "update">>, <<"update", "round">>}
DeleteSteps == {"dirs", "remove", "unmirror", "update", "round"}

LEMMA Moves ==
    ASSUME TypeOK, [Next]_vars, NEW t \in Threads
    PROVE  \/ th'[t] = th[t]
           \/ th[t].at = "idle" /\ th'[t].at = First(th'[t].op)
           \/ Crash /\ th'[t] = Idle
           \/ (Abort \/ Reconcile) /\ m = t /\ th'[t] = Idle
           \/ /\ th'[t].op = th[t].op /\ th'[t].pkg = th[t].pkg
              /\ th[t].op = "delete" /\ th[t].at \in DeleteSteps =>
                    <<th[t].at, th'[t].at>> \in DeleteMoves
              /\ th'[t].at = "round" => BeginRound(t)
<1> DEFINE Goal ==
           \/ th'[t] = th[t]
           \/ th[t].at = "idle" /\ th'[t].at = First(th'[t].op)
           \/ Crash /\ th'[t] = Idle
           \/ (Abort \/ Reconcile) /\ m = t /\ th'[t] = Idle
           \/ /\ th'[t].op = th[t].op /\ th'[t].pkg = th[t].pkg
              /\ th[t].op = "delete" /\ th[t].at \in DeleteSteps =>
                    <<th[t].at, th'[t].at>> \in DeleteMoves
              /\ th'[t].at = "round" => BeginRound(t)
<1> USE DEF DeleteSteps, DeleteMoves
<1>1. ASSUME NEW s \in Threads, NEW op, NEW p, NEW C, Start(s, op, p, C) PROVE Goal
  BY <1>1 DEF Start, TypeOK
<1>2. ASSUME NEW s \in Threads, ThreadStep(s), ~BeginRound(s) PROVE Goal
  <2>1. CASE s # t
    BY <1>2, <2>1 DEF ThreadStep, TakeDirs, RemoveAll, Extract, Rename, MirrorCRs,
                      CopyEnds, Unmirror, GoTo, TypeOK
  <2>2. CASE s = t
    <3>1. TakeDirs(t) => Goal
      BY DEF TakeDirs, GoTo, TypeOK
    <3>2. RemoveAll(t) => Goal
      BY DEF RemoveAll, GoTo, TypeOK
    <3>3. Extract(t) => Goal
      BY DEF Extract, GoTo, TypeOK
    <3>4. Rename(t) => Goal
      BY DEF Rename, GoTo, TypeOK
    <3>5. MirrorCRs(t) => Goal
      BY DEF MirrorCRs, GoTo, TypeOK
    <3>6. CopyEnds(t) => Goal
      BY DEF CopyEnds, GoTo, TypeOK
    <3>7. Unmirror(t) => Goal
      BY DEF Unmirror, GoTo, TypeOK
    <3> QED
      BY <1>2, <2>2, <3>1, <3>2, <3>3, <3>4, <3>5, <3>6, <3>7 DEF ThreadStep
  <2> QED
    BY <2>1, <2>2
<1>3. ASSUME NEW s \in Threads, BeginRound(s) PROVE Goal
  BY <1>3 DEF BeginRound, GoTo, TypeOK
<1>4. CASE RoundStep
  <2>1. CASE Abort \/ Reconcile
    BY <2>1 DEF Abort, Reconcile, Leave, TypeOK
  <2> QED
    BY <1>4, <2>1, RoundKinds DEF ReadPackage, MirrorPackage, PackagesRead, ReadCR
<1>5. CASE Crash
  BY <1>5 DEF Crash
<1>6. CASE UNCHANGED vars
  BY <1>6 DEF vars
<1> QED
  BY <1>1, <1>2, <1>3, <1>4, <1>5, <1>6, CRSyncAssumption, IdleIs DEF Next, Request, Timer
\* Only what is installed comes into the list
LEMMA PackagesMove ==
    ASSUME TypeOK, [Next]_vars
    PROVE  packages' = packages \/ packages' = {} \/
           \E q \in installed : installed' = installed /\ packages' = packages \cup {q}
BY StepKinds, RoundKinds
   DEF BeginRound, ReadPackage, MirrorPackage, PackagesRead, Abort, Reconcile, ReadCR, Crash, Leave

\* A row comes only with the manifest of its package
LEMMA RowsMove ==
    ASSUME TypeOK, [Next]_vars
    PROVE  \A c \in rows' : c \in rows \/ (PackageOf[c] \in packages /\ packages' = packages)
BY StepKinds, RoundKinds
   DEF BeginRound, ReadPackage, MirrorPackage, PackagesRead, Abort, Reconcile, ReadCR, Crash,
       Leave, Loadable

\* DeletedStaysGone is inductive with what a DELETE's own round cannot have read
LEMMA GoneStep ==
    ASSUME TypeOK, HTypeOK, KeysInv, GoneInv, DeletedStaysGone, [Next]_vars, Observe, TypeOK'
    PROVE  GoneInv' /\ DeletedStaysGone'
<1> USE CRSyncAssumption
<1> DEFINE Deletes(p, at) == {t \in Http : /\ th[t].op = "delete" /\ th[t].pkg = p
                                           /\ th[t].at # at /\ th'[t].at = at}
<1>0. \A p \in Packages :
         gone'[p] = IF p \in installed' THEN "no"
               ELSE IF Deletes(p, "unmirror") # {}
                    THEN CHOOSE t \in Deletes(p, "unmirror") : TRUE
               ELSE IF gone[p] \in Deletes(p, "idle")
                    THEN IF round'.at = "aborted" THEN "no" ELSE Free
               ELSE gone[p]
  BY DEF Observe
<1>1. \A p \in Packages : gone'[p] # "no" => p \notin installed'
  BY <1>0
<1>2. \A t \in Threads : th'[t].op = "delete" => th'[t].at \in DeleteSteps
  BY Moves, IdleIs DEF GoneInv, DeleteSteps, DeleteMoves, First, TypeOK
<1>3. ASSUME NEW t \in Http, NEW p \in Packages, gone'[p] = t
      PROVE  /\ th'[t].op = "delete" /\ th'[t].pkg = p
             /\ th'[t].at \in {"unmirror", "update", "round"}
             /\ th'[t].at = "round" => p \notin packages'
  <2>1. CASE t \in Deletes(p, "unmirror")
    <3>1. /\ th[t].op = "delete" /\ th[t].pkg = p /\ th[t].at \in DeleteSteps
          /\ th[t].at # "unmirror" /\ th'[t].at = "unmirror"
      BY <2>1 DEF GoneInv, DeleteSteps
    <3>2. th'[t].op = "delete" /\ th'[t].pkg = p
      <4>1. th'[t] # th[t] /\ th'[t] # Idle /\ th[t].at # "idle"
        BY <3>1, IdleIs DEF DeleteSteps
      <4> QED
        BY <3>1, <4>1, Moves
    <3> QED
      BY <3>1, <3>2
  <2>2. CASE t \notin Deletes(p, "unmirror")
    <3>1. gone[p] = t /\ t \notin Deletes(p, "idle") /\ p \notin installed'
      BY <1>0, <1>3, <2>2
    <3>2. /\ th[t].op = "delete" /\ th[t].pkg = p /\ p \notin installed
          /\ th[t].at \in {"unmirror", "update", "round"}
          /\ th[t].at = "round" => p \notin packages
      BY <3>1 DEF GoneInv
    <3>3. th'[t].at # "idle"
      BY <3>1, <3>2
    <3>4. CASE th'[t] = th[t]
      BY <3>2, <3>4, PackagesMove
    <3>5. CASE th'[t] # th[t]
      <4>1. /\ th'[t].op = "delete" /\ th'[t].pkg = p
            /\ <<th[t].at, th'[t].at>> \in DeleteMoves
            /\ th'[t].at = "round" => BeginRound(t)
        BY <3>2, <3>3, <3>5, Moves, IdleIs DEF DeleteSteps
      <4> QED
        BY <3>2, <4>1 DEF DeleteMoves, BeginRound
    <3> QED
      BY <3>4, <3>5
  <2> QED
    BY <2>1, <2>2
<1>4. ASSUME NEW p \in Packages, gone'[p] = Free
      PROVE  p \notin packages' /\ \A c \in rows' : PackageOf[c] # p
  <2>1. p \notin installed' /\ p \notin installed
    BY <1>0, <1>4 DEF GoneInv, HTypeOK
  <2>2. CASE gone[p] = Free
    BY <2>1, <2>2, PackagesMove, RowsMove DEF GoneInv, DeletedStaysGone
  <2>3. CASE gone[p] # Free
    <3>1. PICK t \in Http : gone[p] = t /\ th'[t].at = "idle" /\ round'.at # "aborted"
      BY <1>0, <1>4, <2>3
    <3>2. /\ th[t].op = "delete" /\ th[t].at \in {"unmirror", "update", "round"}
          /\ th[t].at = "round" => p \notin packages
      BY <3>1 DEF GoneInv
    <3>3. (Abort \/ Reconcile \/ Crash) /\ (m = t \/ Crash)
      BY <3>1, <3>2, Moves DEF DeleteSteps, DeleteMoves
    <3>4. Reconcile /\ m = t
      BY <3>1, <3>3 DEF Abort, Crash, Leave, TypeOK, NewRound
    <3>5. p \notin packages
      BY <3>2, <3>4 DEF TypeOK
    <3> QED
      BY <3>4, <3>5 DEF Reconcile, KeysInv
  <2> QED
    BY <2>2, <2>3
<1> QED
  BY <1>1, <1>2, <1>3, <1>4 DEF GoneInv, DeletedStaysGone, DeleteSteps, TypeOK

\* What a round passes over was not readable at the moment it was passed over
LEMMA MissedStep ==
    ASSUME TypeOK, KeysInv, MissedInv, [Next]_vars, Observe
    PROVE  MissedInv'
<1> USE CRSyncAssumption
<1>1. missed' = (IF m = Free /\ m' # Free THEN {}
                 ELSE missed \cup (Remote \cap ((round.left \ round'.left) \ round'.keys)))
                \cup Unreadable'
  BY DEF Observe
<1>2. CASE UNCHANGED <<rows, packages, m, round>>
  BY <1>1, <1>2 DEF MissedInv
<1>3. ASSUME NEW t \in Threads, BeginRound(t) PROVE MissedInv'
  BY <1>3 DEF BeginRound, NewRound, MissedInv
<1>4. ASSUME NEW p \in Packages, ReadPackage(p) PROVE MissedInv'
  <2>1. /\ round'.keys = round.keys /\ round'.left = round.left
        /\ round'.todo = round.todo \ {p}
    BY <1>4, ReadPackageIs
  <2>2. /\ packages' = IF p \in installed THEN packages \cup {p} ELSE packages
        /\ m # Free /\ m' = m /\ installed' = installed
    BY <1>4 DEF ReadPackage
  <2>3. p \notin installed => \A c \in CRs : PackageOf[c] = p => c \in missed'
    BY <1>1, <2>2 DEF Unreadable
  <2> QED
    BY <1>1, <2>1, <2>2, <2>3 DEF MissedInv
<1>5. CASE MirrorPackage
  BY <1>1, <1>5 DEF MirrorPackage, MissedInv, TypeOK
<1>6. CASE PackagesRead
  BY <1>1, <1>6 DEF PackagesRead, MissedInv, TypeOK
<1>7. ASSUME NEW c \in CRs, ReadCR(c) PROVE MissedInv'
  <2>1. /\ m # Free /\ m' = m /\ round.at = "crs" /\ round.todo = {}
        /\ UNCHANGED <<mirror, torn, packages>>
    BY <1>7 DEF ReadCR, KeysInv
  <2>2. ~Loadable(c) \/ c \in torn => c \in missed'
    BY <1>1, <2>1 DEF Loadable, Unreadable, Files, MissedInv, TypeOK
  <2>3. c \in Remote /\ c \notin round'.keys => c \in missed'
    BY <1>1, <1>7, <2>1, ReadCRIs
  <2> QED
    BY <1>1, <1>7, <2>1, <2>2, <2>3, ReadCRIs DEF KeysInv, MissedInv
<1>8. CASE Abort \/ Reconcile \/ Crash
  BY <1>8 DEF Abort, Reconcile, Crash, Leave, MissedInv
<1> QED
  BY <1>2, <1>3, <1>4, <1>5, <1>6, <1>7, <1>8, StepKinds, RoundKinds

\* A row is dropped only by the end of a round that has passed over its CR
LEMMA DropStep ==
    ASSUME TypeOK, KeysInv, MissedInv, [Next]_vars, Observe
    PROVE  \A c \in rows \ rows' : c \in missed'
<1>1. \A c \in rows \ rows' : Reconcile /\ c \notin round.keys
  BY StepKinds, RoundKinds
     DEF BeginRound, ReadPackage, MirrorPackage, PackagesRead, Abort, Reconcile, ReadCR, Crash,
         Leave
<1> QED
  BY <1>1, CRSyncAssumption DEF Reconcile, MissedInv, Observe, TypeOK, Leave
-----------------------------------------------------------------------------

LEMMA InitInv == HInit => IInv
BY CRSyncAssumption, IdleIs
   DEF Init, HInit, IInv, TypeOK, HTypeOK, FilesInv, KeysInv, FreshInv, GoneInv, MissedInv,
       RowsFollowFiles, DeletedStaysGone, NewRound

LEMMA StepInv == IInv /\ [Next /\ Observe]_allvars => IInv'
<1> SUFFICES ASSUME IInv, [Next /\ Observe]_allvars PROVE IInv'
  OBVIOUS
<1>1. CASE Next /\ Observe
  BY <1>1, TypeStep, HTypeStep, KeysStep, FreshStep, GoneStep, MissedStep DEF IInv
<1>2. CASE UNCHANGED allvars
  BY <1>2 DEF allvars, vars, hvars, IInv, TypeOK, HTypeOK, FilesInv, KeysInv, FreshInv,
              GoneInv, MissedInv, RowsFollowFiles, DeletedStaysGone, InStep, Files, Loadable
<1> QED
  BY <1>1, <1>2

\* Nothing reachable leaves the inductive invariant
THEOREM Invariant == Spec => []IInv
BY InitInv, StepInv, PTL DEF Spec, allvars

\* Type correctness of the disk, the table, the locks and every thread
THEOREM TypeCorrect == Spec => []TypeOK
BY Invariant, PTL DEF IInv

\* After a round of update that nobody disturbed the table agrees with the files
THEOREM TableFollowsFiles == Spec => []RowsFollowFiles
BY Invariant, PTL DEF IInv

\* The table has no row of a package whose DELETE was answered after a whole round
THEOREM DeletedGone == Spec => []DeletedStaysGone
BY Invariant, PTL DEF IInv

\* No round drops the row of a CR that it could have read all along
THEOREM DropsHaveCause == Spec => DropHasCause
<1>1. IInv /\ [Next /\ Observe]_allvars => [\A c \in rows \ rows' : c \in missed']_allvars
  BY DropStep DEF IInv
<1> QED
  BY <1>1, Invariant, PTL DEF Spec, DropHasCause, allvars
=============================================================================
