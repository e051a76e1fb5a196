----------------------------- MODULE SelfUpdate -----------------------------
(***************************************************************************)
(* `cloudy update` and /update (internal/selfupdate/selfupdate.go): fetch  *)
(* the latest release, check it, and rename it over the running binary.    *)
(* Several may run at once, from a shell and from the terminal UI.         *)
(*                                                                         *)
(* The release workflow (external) publishes release after release; the    *)
(* binary and its .sha256 are two uploads, and a release may be built      *)
(* again.  A file is what its bytes say: a build of a release, or          *)
(* something else - a body that came short or altered, or an error page.   *)
(***************************************************************************)
EXTENDS Naturals

CONSTANTS
  Updaters,     \* calls of Run
  LastRelease,  \* bound: releases
  LastBuild,    \* bound: builds of a release
  MaxKills      \* bound: processes that die in Run

ASSUME SelfUpdateAssumption ==
  LastRelease \in Nat \ {0} /\ LastBuild \in Nat \ {0} /\ MaxKills \in Nat

Releases == 1..LastRelease
Builds == [release : Releases, build : 1..LastBuild]
\* Bytes that are no build: with or without the first four of an executable
Broken == [release |-> 0, build |-> 1]
Page == [release |-> 0, build |-> 0]
Contents == Builds \cup {Broken, Page}

VARIABLES
  latest,    \* the tag of the latest release
  asset,     \* release -> the build that can be downloaded
  digest,    \* release -> the build whose hash is in its .sha256
  binary,    \* the executable on disk
  stage,      \* updater -> where Run is
  running,   \* updater -> buildinfo.Version of its process
  tag,       \* updater -> the release it installs
  temp,      \* updater -> its temporary file, while there is one
  expected,  \* updater -> what fetchSHA256 returned
  others,    \* updater -> another call replaced the binary since this one began
  kills

updateVars == <<latest, asset, digest, binary, stage, running, tag, temp, expected,
                others, kills>>
publicVars == <<latest, asset, digest>>

NoFile == [release |-> 0, build |-> 2]
Steps == {"off", "tag", "download", "sha", "verify", "validate", "install",
          "replaced", "failed", "dead"}

UpdateTypeOK ==
  /\ latest \in Releases
  /\ asset \in [Releases -> 1..LastBuild]
  /\ digest \in [Releases -> 1..LastBuild]
  /\ binary \in Contents
  /\ stage \in [Updaters -> Steps]
  /\ running \in [Updaters -> Releases]
  /\ tag \in [Updaters -> Releases]
  /\ temp \in [Updaters -> Contents \cup {NoFile}]
  /\ expected \in [Updaters -> Contents \cup {NoFile}]
  /\ others \in [Updaters -> BOOLEAN]
  /\ kills \in 0..MaxKills

UpdateInit ==
  /\ latest = 1
  /\ asset = [r \in Releases |-> 1]
  /\ digest = [r \in Releases |-> 1]
  /\ binary = [release |-> 1, build |-> 1]
  /\ stage = [u \in Updaters |-> "off"]
  /\ running = [u \in Updaters |-> 1]
  /\ tag = [u \in Updaters |-> 1]
  /\ temp = [u \in Updaters |-> NoFile]
  /\ expected = [u \in Updaters |-> NoFile]
  /\ others = [u \in Updaters |-> FALSE]
  /\ kills = 0

Go(u, s) == stage' = [stage EXCEPT ![u] = s]

---------------------------------------------------------------------------
(* The release workflow (external).                                        *)

PublishRelease ==
  /\ latest < LastRelease
  /\ latest' = latest + 1
  /\ UNCHANGED <<asset, digest, binary, stage, running, tag, temp, expected, others, kills>>

UploadAsset(r) ==
  /\ asset[r] < LastBuild /\ asset[r] = digest[r]
  /\ asset' = [asset EXCEPT ![r] = @ + 1]
  /\ UNCHANGED <<latest, digest, binary, stage, running, tag, temp, expected, others, kills>>

UploadDigest(r) ==
  /\ digest[r] < asset[r]
  /\ digest' = [digest EXCEPT ![r] = @ + 1]
  /\ UNCHANGED <<latest, asset, binary, stage, running, tag, temp, expected, others, kills>>

---------------------------------------------------------------------------
(* Run                                                                     *)

\* The process was started from the binary on disk, or from an older one.
Start(u) ==
  /\ stage[u] = "off"
  /\ \E r \in 1..binary.release : running' = [running EXCEPT ![u] = r]
  /\ others' = [others EXCEPT ![u] = FALSE]
  /\ Go(u, "tag")
  /\ UNCHANGED <<publicVars, binary, tag, temp, expected, kills>>

\* Variant: no cleanup.
FailKeeping(u) ==
  /\ Go(u, "failed")
  /\ UNCHANGED <<publicVars, binary, running, tag, temp, expected, others, kills>>

\* An error, and what cleanup removes.
Fail(u) ==
  /\ Go(u, "failed")
  /\ temp' = [temp EXCEPT ![u] = NoFile]
  /\ UNCHANGED <<publicVars, binary, running, tag, expected, others, kills>>

\* Variant: a release that is not the latest.
FetchSomeTag(u) ==
  /\ stage[u] = "tag"
  /\ \E r \in 1..latest : tag' = [tag EXCEPT ![u] = r]
  /\ Go(u, "download")
  /\ UNCHANGED <<publicVars, binary, running, temp, expected, others, kills>>

\* fetchLatestTag, and matches: nothing to do if the latest release runs.
FetchLatestTag(u) ==
  /\ stage[u] = "tag"
  /\ \/ Fail(u)
     \/ /\ tag' = [tag EXCEPT ![u] = latest]
        /\ Go(u, IF running[u] = latest THEN "failed" ELSE "download")
        /\ UNCHANGED <<publicVars, binary, running, temp, expected, others, kills>>

\* downloadAsset: a body that ends early is an error; one that is altered, or
\* is not the asset, is not seen here.
DownloadAsset(u) ==
  /\ stage[u] = "download"
  /\ \/ Fail(u)
     \/ /\ \E body \in {[release |-> tag[u], build |-> asset[tag[u]]], Broken, Page} :
             temp' = [temp EXCEPT ![u] = body]
        /\ Go(u, "sha")
        /\ UNCHANGED <<publicVars, binary, running, tag, expected, others, kills>>

\* fetchSHA256; an empty .sha256 file is an index out of range.
FetchSHA256(u) ==
  /\ stage[u] = "sha"
  /\ \/ Fail(u)
     \/ /\ expected' = [expected EXCEPT ![u] =
                          [release |-> tag[u], build |-> digest[tag[u]]]]
        /\ Go(u, "verify")
        /\ UNCHANGED <<publicVars, binary, running, tag, temp, others, kills>>
     \/ /\ kills < MaxKills /\ kills' = kills + 1
        /\ Go(u, "dead")
        /\ UNCHANGED <<publicVars, binary, running, tag, temp, expected, others>>

SameDigest(u) == temp[u] = expected[u]

VerifySHA256(u) ==
  /\ stage[u] = "verify"
  /\ \/ Fail(u)
     \/ /\ SameDigest(u)
        /\ Go(u, "validate")
        /\ UNCHANGED <<publicVars, binary, running, tag, temp, expected, others, kills>>

\* validateBinary: the first four bytes
ValidateBinary(u) ==
  /\ stage[u] = "validate"
  /\ \/ Fail(u)
     \/ /\ temp[u] # Page
        /\ Go(u, "install")
        /\ UNCHANGED <<publicVars, binary, running, tag, temp, expected, others, kills>>

\* Chmod and Rename
Install(u) ==
  /\ stage[u] = "install"
  /\ \/ Fail(u)
     \/ /\ binary' = temp[u]
        /\ temp' = [temp EXCEPT ![u] = NoFile]
        /\ others' = [w \in Updaters |-> others[w] \/ w # u]
        /\ Go(u, "replaced")
        /\ UNCHANGED <<publicVars, running, tag, expected, kills>>

\* The caller is told, and may run an update again.
Return(u) ==
  /\ stage[u] \in {"replaced", "failed"}
  /\ Go(u, "off")
  /\ expected' = [expected EXCEPT ![u] = NoFile]
  /\ tag' = [tag EXCEPT ![u] = 1]
  /\ running' = [running EXCEPT ![u] = 1]
  /\ others' = [others EXCEPT ![u] = FALSE]
  /\ UNCHANGED <<publicVars, binary, temp, kills>>

\* The process is killed; its temporary file stays.
Killed(u) ==
  /\ stage[u] \notin {"off", "replaced", "failed", "dead"}
  /\ kills < MaxKills
  /\ kills' = kills + 1
  /\ Go(u, "dead")
  /\ UNCHANGED <<publicVars, binary, running, tag, temp, expected, others>>

UpdateNext ==
  \/ PublishRelease \/ \E r \in Releases : UploadAsset(r) \/ UploadDigest(r)
  \/ \E u \in Updaters :
       \/ Start(u) \/ FetchLatestTag(u) \/ DownloadAsset(u) \/ FetchSHA256(u)
       \/ VerifySHA256(u) \/ ValidateBinary(u) \/ Install(u) \/ Return(u) \/ Killed(u)

UpdateSpec == UpdateInit /\ [][UpdateNext]_updateVars

---------------------------------------------------------------------------
\* Whatever fails, is killed, or is published while an update runs, there is
\* a whole build of a release to start: the binary is never absent, cut short
\* or an error page.
BinaryStarts == binary \in Builds

\* An error leaves the binary alone and takes the temporary file away; only a
\* process that dies leaves one.
FailureCleans ==
  \A u \in Updaters : temp[u] # NoFile => stage[u] \notin {"off", "replaced", "failed"}

\* An update never goes back to an older release than the one that was there
\* when it began, unless another one finished meanwhile.
NoDowngrade ==
  [][binary'.release < binary.release
     => \E u \in Updaters : stage'[u] = "replaced" /\ stage[u] = "install" /\ others[u]]_updateVars

\* What is installed passed the check against the digest that was published
\* for that release, so that no mix of an old build and a new digest gets in.
InstalledIsChecked ==
  [][binary' # binary
     => \E u \in Updaters : stage[u] = "install" /\ binary' = expected[u]
                            /\ binary'.release = tag[u]]_updateVars

\* There is a binary that starts, and no litter.
BinarySafe == UpdateTypeOK /\ BinaryStarts /\ FailureCleans

\* What is installed is checked, and newer.
InstallsAreRight == NoDowngrade /\ InstalledIsChecked
=============================================================================
