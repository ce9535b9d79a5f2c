------------------------------ MODULE Upgrade ------------------------------
(***************************************************************************)
(* `dit upgrade`: a release is downloaded, held against its checksum,      *)
(* written beside the executable and renamed over it.                      *)
(*                                                                         *)
(* A name leads to a file and a process that has opened a file goes on     *)
(* writing to it whatever its name has become, so files are numbered and   *)
(* `exe' and `staged' are the files behind the two names.  A file is       *)
(* written in halves, for a write can stop in between.  The bits of a mode *)
(* and what a version looks like are left out.                             *)
(*                                                                         *)
(* Code: dit-cli/src/upgrade.rs.                                           *)
(***************************************************************************)
EXTENDS Naturals, Sequences

CONSTANTS
    Upgrader,     \* calls of `dit upgrade`, of any terminals
    Version,      \* the released versions
    Signed,       \* those whose release has a checksum
    Installed,        \* the version that was installed first
    Latest,       \* asked for when no version is named
    MaxUpgrades   \* bound: upgrades begun

ASSUME UpgradeAssumption ==
    /\ Signed \subseteq Version
    /\ Installed \in Version
    /\ Latest \notin Version
    /\ MaxUpgrades \in Nat

VARIABLES
    file,         \* the files there have been, by number
    exe,          \* the file the executable's name leads to
    staged,       \* the file .dit-upgrade.tmp leads to; 0: there is none
    up,           \* what each call is at
    upgrades,     \* how many have begun
    crossed       \* two calls have been writing at once

upgradeVars == <<file, exe, staged, up, upgrades, crossed>>

Nothing  == "nothing"                     \* not written yet
Half     == Version \union {Nothing}
Whole(v) == [head |-> v, tail |-> v]
Empty    == Whole(Nothing)
NotUpgrading     == [at |-> "idle", wanted |-> Latest, runs |-> Installed, tag |-> Installed, fd |-> 0]
Writing  == {"head", "tail", "rename"}

EndsUpgrade(u)     == up' = [up EXCEPT ![u] = NotUpgrading]
GoesOn(u, to) == up' = [up EXCEPT ![u].at = to]

UpgradeInit ==
    /\ file = <<Whole(Installed)>> /\ exe = 1 /\ staged = 0
    /\ up = [u \in Upgrader |-> NotUpgrading]
    /\ upgrades = 0 /\ crossed = FALSE

-----------------------------------------------------------------------------
(* A binary that is not whole does not start.                              *)
Upgrade_(u, wanted) ==
    /\ up[u].at = "idle" /\ upgrades < MaxUpgrades
    /\ \E v \in Version :
          /\ file[exe] = Whole(v)
          /\ up' = [up EXCEPT ![u] = [at |-> "fetch", wanted |-> wanted, runs |-> v,
                                      tag |-> v, fd |-> 0]]
    /\ upgrades' = upgrades + 1
    /\ UNCHANGED <<file, exe, staged, crossed>>

(* The latest release is whichever is the latest when GitHub is asked; one *)
(* that runs already ends the call, one without a checksum is refused.     *)
FetchRelease(u, tag) ==
    /\ up[u].at = "fetch"
    /\ up[u].wanted \in {Latest, tag}
    /\ IF tag = up[u].runs \/ tag \notin Signed THEN EndsUpgrade(u)
       ELSE up' = [up EXCEPT ![u].at = "download", ![u].tag = tag]
    /\ UNCHANGED <<file, exe, staged, upgrades, crossed>>

(* The archive and its checksum; bytes that differ are not used, and a     *)
(* build under target/ is not replaced.                                    *)
Download(u, intact, built) ==
    /\ up[u].at = "download"
    /\ IF intact /\ ~built THEN GoesOn(u, "stage") ELSE EndsUpgrade(u)
    /\ UNCHANGED <<file, exe, staged, upgrades, crossed>>

(* Opening truncates the file the name leads to, whoever is writing it.    *)
OpensStaged(u) == [up EXCEPT ![u].at = "head", ![u].fd = staged']
Stage_InPlace(u) ==
    /\ up[u].at = "stage"
    /\ staged' = exe /\ file' = [file EXCEPT ![exe] = Empty]
    /\ up' = OpensStaged(u)
    /\ crossed' = (crossed \/ \E o \in Upgrader \ {u} : up[o].at \in Writing)
    /\ UNCHANGED <<exe, upgrades>>
Stage(u) ==
    /\ up[u].at = "stage"
    /\ \/ /\ staged = 0
          /\ staged' = Len(file) + 1 /\ file' = Append(file, Empty)
       \/ /\ staged # 0
          /\ staged' = staged /\ file' = [file EXCEPT ![staged] = Empty]
    /\ up' = OpensStaged(u)
    /\ crossed' = (crossed \/ \E o \in Upgrader \ {u} : up[o].at \in Writing)
    /\ UNCHANGED <<exe, upgrades>>

WriteHead(u) ==
    /\ up[u].at = "head"
    /\ file' = [file EXCEPT ![up[u].fd].head = up[u].tag]
    /\ GoesOn(u, "tail")
    /\ UNCHANGED <<exe, staged, upgrades, crossed>>
WriteTail(u) ==
    /\ up[u].at = "tail"
    /\ file' = [file EXCEPT ![up[u].fd].tail = up[u].tag]
    /\ GoesOn(u, "rename")
    /\ UNCHANGED <<exe, staged, upgrades, crossed>>

(* The name is renamed, not the file that was written; a rename that fails *)
(* removes the name.  Where the system tells a process whose executable    *)
(* was replaced of another path (`... (deleted)'), the rename lands there: *)
(* for the executable, it fails.                                           *)
RenameOver(u, works) ==
    /\ up[u].at = "rename"
    /\ exe' = IF works /\ staged # 0 THEN staged ELSE exe
    /\ staged' = 0
    /\ EndsUpgrade(u)
    /\ UNCHANGED <<file, upgrades, crossed>>

(* Any step fails, or the process dies: what is written stays.             *)
StopUpgrade(u) ==
    /\ up[u].at # "idle"
    /\ EndsUpgrade(u)
    /\ UNCHANGED <<file, exe, staged, upgrades, crossed>>

UpgradeNext ==
    \E u \in Upgrader :
       \/ \E v \in Version \union {Latest} : Upgrade_(u, v)
       \/ \E v \in Version : FetchRelease(u, v)
       \/ \E intact, built \in BOOLEAN : Download(u, intact, built)
       \/ Stage(u) \/ WriteHead(u) \/ WriteTail(u)
       \/ \E works \in BOOLEAN : RenameOver(u, works)
       \/ StopUpgrade(u)

UpgradeSpec == UpgradeInit /\ [][UpgradeNext]_upgradeVars

-----------------------------------------------------------------------------
UpgradeTypeOK ==
    /\ file \in Seq([head : Half, tail : Half])
    /\ exe \in DOMAIN file
    /\ staged \in {0} \union DOMAIN file
    /\ up \in [Upgrader -> [at : {"idle", "fetch", "download", "stage"} \union Writing,
                            wanted : Version \union {Latest}, runs : Version, tag : Version,
                            fd : {0} \union DOMAIN file]]
    /\ upgrades \in 0..MaxUpgrades
    /\ crossed \in BOOLEAN

(* Whatever failed and whoever died, the executable is a whole binary that *)
(* was held against its checksum, or the first; and what is about to take  *)
(* its place is the whole binary that was asked for.  Two upgrades that    *)
(* write to the one name at once are not kept apart: nothing is promised   *)
(* after that.                                                             *)
BinaryIsWhole ==
    ~crossed =>
        /\ \E v \in Signed \union {Installed} : file[exe] = Whole(v)
        /\ \A u \in Upgrader : up[u].at = "rename" =>
              staged # 0 /\ file[staged] = Whole(up[u].tag) /\ up[u].wanted \in {Latest, up[u].tag}
=============================================================================
