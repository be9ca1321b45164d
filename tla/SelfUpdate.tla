----------------------------- MODULE SelfUpdate ------------------------------
(***************************************************************************)
(* The hub updates its own code (ech/core/self_update.py): it downloads    *)
(* the branch's tip, copies the files over the installed ones in place,    *)
(* removes those that are no longer shipped, replaces VERSION and asks     *)
(* systemd to restart it.  The copy runs in a thread, files fail one by    *)
(* one, and the process can end between any two steps.                     *)
(*                                                                         *)
(* Releases are numbered in order; every file differs in every release.    *)
(* The branch is always the same.                                          *)
(***************************************************************************)
EXTENDS Integers

CONSTANTS
    CodeFiles,
    Releases,       \* bound: the last release
    Ships,          \* release -> the files it has
    Updates         \* runs of _run_update

ASSUME ReleasesAssumption ==
    /\ Releases \in Nat \ {0}
    /\ Ships \in [1 .. Releases -> SUBSET CodeFiles]

Torn == -1          \* half written

VARIABLES
    tip,            \* the release at the tip of the branch
    tree,           \* file -> its release, 0 where there is no file, or Torn
    label,          \* the VERSION file
    tarball,        \* DEPLOY_TARBALL: the release in it, 0 without one
    updating,       \* _state["running"]
    update          \* run -> [pc, release, todo, open, failed]

updateVars == <<tip, tree, label, tarball, updating, update>>

NoUpdate == [pc |-> "none", release |-> 0, todo |-> {}, open |-> {}, failed |-> FALSE]

Whole(files, v) == \A f \in CodeFiles : files[f] = (IF f \in Ships[v] THEN v ELSE 0)

NewRelease ==
    /\ tip < Releases
    /\ tip' = tip + 1
    /\ UNCHANGED <<tree, label, tarball, updating, update>>

\* Seeded fault: an update does not wait for the one that runs.
AdmitsAll == TRUE

Admits == ~updating

\* start_update
StartUpdate(u) ==
    /\ Admits /\ update[u].pc = "none"
    /\ updating' = TRUE
    /\ update' = [update EXCEPT ![u].pc = "download"]
    /\ UNCHANGED <<tip, tree, label, tarball>>

\* _run_update's handler of exceptions; the files stay as they are.
Fails(u) ==
    /\ updating' = FALSE
    /\ update' = [update EXCEPT ![u] = NoUpdate]

DownloadFails(u) ==
    /\ update[u].pc = "download"
    /\ Fails(u)
    /\ UNCHANGED <<tip, tree, label, tarball>>

\* download_and_repackage: one path for every update.
Downloaded(u) ==
    /\ update[u].pc = "download"
    /\ tarball' = tip
    /\ update' = [update EXCEPT ![u].pc = "unpack"]
    /\ UNCHANGED <<tip, tree, label, updating>>

\* _apply_update, in a thread: the tarball goes to a directory of its own.
Unpacks(u) ==
    /\ update[u].pc = "unpack"
    /\ update' = [update EXCEPT ![u] =
                    [pc |-> "copy", release |-> tarball, todo |-> Ships[tarball], open |-> {}, failed |-> FALSE]]
    /\ UNCHANGED <<tip, tree, label, tarball, updating>>

\* shutil.copytree opens a file, which empties it, and fills it.
CopyOpens(u, f) ==
    /\ update[u].pc = "copy" /\ update[u].open = {} /\ f \in update[u].todo
    /\ tree' = [tree EXCEPT ![f] = Torn]
    /\ update' = [update EXCEPT ![u].open = {f}]
    /\ UNCHANGED <<tip, label, tarball, updating>>

CopyCloses(u, f) ==
    /\ update[u].pc = "copy" /\ f \in update[u].open
    /\ tree' = [tree EXCEPT ![f] = update[u].release]
    /\ update' = [update EXCEPT ![u].open = {}, ![u].todo = @ \ {f}]
    /\ UNCHANGED <<tip, label, tarball, updating>>

\* An OSError, before or after the file was opened: it goes on with the others.
CopyMisses(u, f) ==
    /\ update[u].pc = "copy" /\ f \in update[u].todo
    /\ update[u].open \in {{}, {f}}
    /\ update' = [update EXCEPT ![u].open = {}, ![u].todo = @ \ {f}, ![u].failed = TRUE]
    /\ UNCHANGED <<tip, tree, label, tarball, updating>>

\* ... and raises at the end.
CopyEnds(u) ==
    /\ update[u].pc = "copy" /\ update[u].todo = {}
    /\ IF update[u].failed THEN Fails(u)
       ELSE update' = [update EXCEPT ![u].pc = "remove"] /\ UNCHANGED updating
    /\ UNCHANGED <<tip, tree, label, tarball>>

Leftover(u) == {f \in CodeFiles : tree[f] # 0 /\ f \notin Ships[update[u].release]}

Removes(u, f) ==
    /\ update[u].pc = "remove" /\ f \in Leftover(u)
    /\ tree' = [tree EXCEPT ![f] = 0]
    /\ UNCHANGED <<tip, label, tarball, updating, update>>

\* The extraction, unlink, a replacement of VERSION or pyproject.toml, or pip raises.
ApplyFails(u) ==
    /\ update[u].pc \in {"unpack", "remove", "sync"}
    /\ Fails(u)
    /\ UNCHANGED <<tip, tree, label, tarball>>

\* _replace_file(VERSION), atomic.
Relabels(u) ==
    /\ update[u].pc = "remove" /\ Leftover(u) = {}
    /\ label' = update[u].release
    /\ update' = [update EXCEPT ![u].pc = "sync"]
    /\ UNCHANGED <<tip, tree, tarball, updating>>

\* pip, whatever its outcome; the flag is cleared before systemctl is called.
SyncEnds(u) ==
    /\ update[u].pc = "sync"
    /\ updating' = FALSE
    /\ update' = [update EXCEPT ![u].pc = "restart"]
    /\ UNCHANGED <<tip, tree, label, tarball>>

\* sudo refuses: the old code runs on.
RestartFails(u) ==
    /\ update[u].pc = "restart"
    /\ update' = [update EXCEPT ![u] = NoUpdate]
    /\ UNCHANGED <<tip, tree, label, tarball, updating>>

\* The restart asked for, a crash or a power cut, and a new process.
ProcessEnds ==
    /\ \E u \in Updates : update[u].pc # "none"
    /\ updating' = FALSE
    /\ update' = [u \in Updates |-> NoUpdate]
    /\ UNCHANGED <<tip, tree, label, tarball>>

UpdateInit ==
    /\ tip = 1 /\ label = 1 /\ tarball = 0
    /\ tree = [f \in CodeFiles |-> IF f \in Ships[1] THEN 1 ELSE 0]
    /\ updating = FALSE /\ update = [u \in Updates |-> NoUpdate]

UpdateNext ==
    \/ \E u \in Updates :
         \/ StartUpdate(u) \/ DownloadFails(u) \/ Downloaded(u) \/ Unpacks(u)
         \/ \E f \in CodeFiles : CopyOpens(u, f) \/ CopyCloses(u, f) \/ CopyMisses(u, f) \/ Removes(u, f)
         \/ CopyEnds(u) \/ ApplyFails(u) \/ Relabels(u) \/ SyncEnds(u) \/ RestartFails(u)
    \/ NewRelease \/ ProcessEnds

UpdateSpec == UpdateInit /\ [][UpdateNext]_updateVars

-----------------------------------------------------------------------------
(* Properties.                                                              *)

UpdateTypeOK ==
    /\ tip \in 1 .. Releases /\ label \in 1 .. Releases /\ tarball \in 0 .. Releases
    /\ tree \in [CodeFiles -> -1 .. Releases]
    /\ updating \in BOOLEAN
    /\ update \in [Updates -> [pc : {"none", "download", "unpack", "copy", "remove", "sync", "restart"},
                               release : 0 .. Releases, todo : SUBSET CodeFiles, open : SUBSET CodeFiles,
                               failed : BOOLEAN]]

\* VERSION changes only when the tree is exactly the release it names, each of
\* its files written to the end and every other one gone: so an update that was
\* interrupted, failed or overtaken still shows the old version, and the newer
\* one is offered again.
VersionIsEarned == [][label' # label => Whole(tree', label')]_updateVars
=============================================================================
