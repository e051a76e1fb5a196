------------------------- MODULE LocalFiles_proofs -------------------------
(***************************************************************************)
(* Theorems about SelfUpdate, for any number of concurrent updates, of     *)
(* releases, of builds of a release, and of processes killed in between,   *)
(* and about two other files with several writers: Secrets, for any number *)
(* of processes, keys, calls and restarts, and TuiFlows, for any number of *)
(* commands, chats, answers and saves.  Then IncidentMemory, for any       *)
(* number of processes, threads and cards, with crashes, and with a file   *)
(* system whose clock may stand still between two writes.  Last,           *)
(* SetupWizard, which writes config.yaml and the secrets for the first     *)
(* time: for any number of services, contexts, hints and keys of the user. *)
(***************************************************************************)
EXTENDS SelfUpdate, Secrets, TuiFlows, IncidentMemory, SetupWizard, Ordering_proofs,
        SequenceTheorems, FiniteSetTheorems, TLAPS

-----------------------------------------------------------------------------
(***************************************************************************)
(* The inductive invariant: what each place of Run knows already.          *)
(***************************************************************************)

Checking == {"verify", "validate", "install"}
Fetched == {"download", "sha", "verify", "validate", "install"}

\* The digest that was fetched is one of the release that is being installed.
DigestOfTag ==
  \A u \in Updaters : stage[u] \in Checking
                      => expected[u] \in Builds /\ expected[u].release = tag[u]

\* The temporary file is the build that the digest belongs to.
TempIsChecked ==
  \A u \in Updaters : stage[u] \in {"validate", "install"} => temp[u] = expected[u]

\* The tag that was fetched is one of a release, and no older than the binary
\* as long as no other call replaces it.
TagIsNewer ==
  \A u \in Updaters :
    stage[u] \in Fetched => tag[u] <= latest /\ (others[u] \/ binary.release <= tag[u])

\* Only these places of Run have a temporary file.
FileInHand ==
  \A u \in Updaters : temp[u] # NoFile
                      => stage[u] \in {"sha", "verify", "validate", "install", "dead"}

UpdateInv ==
  /\ UpdateTypeOK
  /\ BinaryStarts /\ FileInHand
  /\ DigestOfTag /\ TempIsChecked /\ TagIsNewer
  /\ binary.release <= latest

LEMMA BuildFields ==
  ASSUME NEW b \in Builds
  PROVE  b.release \in Releases /\ b.build \in 1..LastBuild
  BY DEF Builds

LEMMA BuildMade ==
  ASSUME NEW r \in Releases, NEW n \in 1..LastBuild
  PROVE  /\ [release |-> r, build |-> n] \in Builds
         /\ [release |-> r, build |-> n].release = r
  BY DEF Builds

LEMMA Numbers ==
  /\ 1 \in Releases /\ 1 \in 1..LastBuild
  /\ \A r \in Releases : r \in Nat
  BY SelfUpdateAssumption DEF Releases

LEMMA UpdateInitially == UpdateInit => UpdateInv
  <1> SUFFICES ASSUME UpdateInit PROVE UpdateInv
    OBVIOUS
  <1>1. [release |-> 1, build |-> 1] \in Builds
    BY Numbers, BuildMade
  <1>2. binary \in Builds /\ binary.release = 1
    BY <1>1 DEF UpdateInit
  <1>3. UpdateTypeOK
    BY <1>1, Numbers, SelfUpdateAssumption DEF UpdateInit, UpdateTypeOK, Contents, Steps
  <1>4. FileInHand /\ DigestOfTag /\ TempIsChecked /\ TagIsNewer
    BY DEF UpdateInit, FileInHand, DigestOfTag, TempIsChecked, TagIsNewer, Checking, Fetched
  <1>5. binary.release <= latest
    BY <1>2 DEF UpdateInit
  <1> QED
    BY <1>2, <1>3, <1>4, <1>5 DEF UpdateInv, BinaryStarts

-----------------------------------------------------------------------------
(***************************************************************************)
(* The workflow of releases and the ends of a call.                        *)
(***************************************************************************)

LEMMA PublicSteps ==
  ASSUME UpdateInv,
         PublishRelease \/ \E r \in Releases : UploadAsset(r) \/ UploadDigest(r)
  PROVE  UpdateInv'
  <1> USE DEF UpdateInv
  <1>1. CASE PublishRelease
    <2>1. latest' \in Releases /\ binary.release <= latest'
      <3>1. latest \in Releases /\ binary.release \in Releases
        BY BuildFields DEF UpdateTypeOK, BinaryStarts
      <3> QED
        BY <1>1, <3>1, SelfUpdateAssumption DEF PublishRelease, Releases
    <2>2. UNCHANGED <<asset, digest, binary, stage, running, tag, temp, expected, others, kills>>
      BY <1>1 DEF PublishRelease
    <2>3. UpdateTypeOK'
      BY <2>1, <2>2 DEF UpdateTypeOK
    <2>4. TagIsNewer'
      BY <1>1, <2>2, SelfUpdateAssumption DEF PublishRelease, TagIsNewer, UpdateTypeOK, Releases
    <2> QED
      BY <2>1, <2>2, <2>3, <2>4 DEF BinaryStarts, FileInHand, DigestOfTag, TempIsChecked
  <1>2. ASSUME NEW r \in Releases, UploadAsset(r) \/ UploadDigest(r)
        PROVE  UpdateInv'
    <2>1. UNCHANGED <<latest, binary, stage, running, tag, temp, expected, others, kills>>
      BY <1>2 DEF UploadAsset, UploadDigest
    <2>2. asset' \in [Releases -> 1..LastBuild] /\ digest' \in [Releases -> 1..LastBuild]
      <3>1. asset[r] \in 1..LastBuild /\ digest[r] \in 1..LastBuild
        BY DEF UpdateTypeOK
      <3>2. CASE UploadAsset(r)
        BY <3>1, <3>2, SelfUpdateAssumption DEF UploadAsset, UpdateTypeOK
      <3>3. CASE UploadDigest(r)
        BY <3>1, <3>3, SelfUpdateAssumption DEF UploadDigest, UpdateTypeOK
      <3> QED
        BY <1>2, <3>2, <3>3
    <2>3. UpdateTypeOK'
      BY <2>1, <2>2 DEF UpdateTypeOK
    <2> QED
      BY <2>1, <2>3 DEF BinaryStarts, FileInHand, DigestOfTag, TempIsChecked, TagIsNewer
  <1> QED
    BY <1>1, <1>2

\* An error, at any place of Run.
LEMMA FailStep ==
  ASSUME UpdateInv, NEW u \in Updaters, Fail(u)
  PROVE  UpdateInv'
  <1> USE DEF UpdateInv
  <1>1. /\ stage' = [stage EXCEPT ![u] = "failed"] /\ temp' = [temp EXCEPT ![u] = NoFile]
        /\ UNCHANGED <<latest, asset, digest, binary, running, tag, expected, others, kills>>
    BY DEF Fail, Go, publicVars
  <1>2. UpdateTypeOK'
    BY <1>1 DEF UpdateTypeOK, Steps
  <1>3. FileInHand'
    BY <1>1 DEF FileInHand, UpdateTypeOK
  <1>4. DigestOfTag' /\ TempIsChecked' /\ TagIsNewer'
    BY <1>1 DEF DigestOfTag, TempIsChecked, TagIsNewer, UpdateTypeOK, Checking, Fetched
  <1> QED
    BY <1>1, <1>2, <1>3, <1>4 DEF BinaryStarts

\* A step that moves one call and leaves the binary and the releases alone.
LEMMA MovingStep ==
  ASSUME UpdateInv, NEW u \in Updaters, NEW s \in Steps, Go(u, s), UpdateTypeOK',
         UNCHANGED <<latest, binary>>,
         \A w \in Updaters \ {u} : /\ tag'[w] = tag[w] /\ temp'[w] = temp[w]
                                   /\ expected'[w] = expected[w] /\ others'[w] = others[w],
         temp'[u] # NoFile => s \in {"sha", "verify", "validate", "install", "dead"},
         s \in Checking => expected'[u] \in Builds /\ expected'[u].release = tag'[u],
         s \in {"validate", "install"} => temp'[u] = expected'[u],
         s \in Fetched => tag'[u] <= latest /\ (others'[u] \/ binary.release <= tag'[u])
  PROVE  UpdateInv'
  <1> USE DEF UpdateInv
  <1>1. stage'[u] = s /\ \A w \in Updaters \ {u} : stage'[w] = stage[w]
    BY DEF Go, UpdateTypeOK
  <1>2. FileInHand'
    BY <1>1 DEF FileInHand
  <1>3. DigestOfTag' /\ TempIsChecked'
    BY <1>1 DEF DigestOfTag, TempIsChecked
  <1>4. TagIsNewer'
    BY <1>1 DEF TagIsNewer
  <1> QED
    BY <1>2, <1>3, <1>4 DEF BinaryStarts

LEMMA EndsOfRun ==
  ASSUME UpdateInv, NEW u \in Updaters, Start(u) \/ Return(u) \/ Killed(u)
  PROVE  UpdateInv'
  <1> USE DEF UpdateInv
  <1>1. CASE Start(u)
    <2>1. UpdateTypeOK'
      <3>1. PICK r \in 1..binary.release : running' = [running EXCEPT ![u] = r]
        BY <1>1 DEF Start
      <3>2. r \in Releases
        BY BuildFields, SelfUpdateAssumption DEF BinaryStarts, Releases
      <3>3. running' \in [Updaters -> Releases]
        BY <3>1, <3>2 DEF UpdateTypeOK
      <3> QED
        BY <1>1, <3>3 DEF Start, Go, publicVars, UpdateTypeOK, Steps
    <2>2. temp[u] = NoFile
      BY <1>1 DEF Start, FileInHand
    <2> QED
      BY <1>1, <2>1, <2>2, MovingStep DEF Start, publicVars, UpdateTypeOK, Steps, Checking, Fetched
  <1>2. CASE Return(u)
    <2>1. UpdateTypeOK'
      BY <1>2, Numbers DEF Return, Go, publicVars, UpdateTypeOK, Steps
    <2>2. temp[u] = NoFile
      BY <1>2 DEF Return, FileInHand
    <2> QED
      BY <1>2, <2>1, <2>2, MovingStep DEF Return, publicVars, UpdateTypeOK, Steps, Checking, Fetched
  <1>3. CASE Killed(u)
    <2>1. UpdateTypeOK'
      BY <1>3, SelfUpdateAssumption DEF Killed, Go, publicVars, UpdateTypeOK, Steps
    <2> QED
      BY <1>3, <2>1, MovingStep DEF Killed, publicVars, Steps, Checking, Fetched
  <1> QED
    BY <1>1, <1>2, <1>3

-----------------------------------------------------------------------------
(***************************************************************************)
(* The steps of Run.                                                       *)
(***************************************************************************)

LEMMA FetchTagStep ==
  ASSUME UpdateInv, NEW u \in Updaters, FetchLatestTag(u)
  PROVE  UpdateInv'
  <1> USE DEF UpdateInv
  <1>1. CASE Fail(u)
    BY <1>1, FailStep
  <1>2. CASE ~Fail(u)
    <2>1. PICK s \in {"failed", "download"} :
            /\ stage[u] = "tag" /\ tag' = [tag EXCEPT ![u] = latest] /\ Go(u, s)
            /\ s = "failed" <=> running[u] = latest
            /\ UNCHANGED <<latest, asset, digest, binary, running, temp, expected, others, kills>>
      BY <1>2 DEF FetchLatestTag, publicVars
    <2>2. UpdateTypeOK'
      BY <2>1 DEF UpdateTypeOK, Go, Steps
    <2>3. tag'[u] = latest /\ \A w \in Updaters \ {u} : tag'[w] = tag[w]
      BY <2>1 DEF UpdateTypeOK
    <2>4. temp[u] = NoFile
      BY <2>1 DEF FileInHand
    <2>5. tag'[u] <= latest /\ binary.release <= tag'[u]
      BY <2>3, Numbers DEF UpdateTypeOK
    <2> QED
      BY <2>1, <2>2, <2>3, <2>4, <2>5, MovingStep DEF Steps, Checking
  <1> QED
    BY <1>1, <1>2

LEMMA DownloadStep ==
  ASSUME UpdateInv, NEW u \in Updaters, DownloadAsset(u)
  PROVE  UpdateInv'
  <1> USE DEF UpdateInv
  <1>1. CASE Fail(u)
    BY <1>1, FailStep
  <1>2. CASE ~Fail(u)
    <2>1. PICK body \in {[release |-> tag[u], build |-> asset[tag[u]]], Broken, Page} :
            /\ stage[u] = "download" /\ temp' = [temp EXCEPT ![u] = body] /\ Go(u, "sha")
            /\ UNCHANGED <<latest, asset, digest, binary, running, tag, expected, others, kills>>
      BY <1>2 DEF DownloadAsset, publicVars
    <2>2. body \in Contents
      <3>1. tag[u] \in Releases /\ asset[tag[u]] \in 1..LastBuild
        BY DEF UpdateTypeOK
      <3> QED
        BY <3>1, BuildMade DEF Contents
    <2>3. UpdateTypeOK'
      BY <2>1, <2>2 DEF UpdateTypeOK, Go, Steps
    <2>4. \A w \in Updaters \ {u} : temp'[w] = temp[w]
      BY <2>1 DEF UpdateTypeOK
    <2>5. tag[u] <= latest /\ (others[u] \/ binary.release <= tag[u])
      BY <2>1 DEF TagIsNewer, Fetched
    <2> QED
      BY <2>1, <2>3, <2>4, <2>5, MovingStep DEF Steps, Checking
  <1> QED
    BY <1>1, <1>2

LEMMA FetchDigestStep ==
  ASSUME UpdateInv, NEW u \in Updaters, FetchSHA256(u)
  PROVE  UpdateInv'
  <1> USE DEF UpdateInv
  <1>1. CASE Fail(u)
    BY <1>1, FailStep
  <1>2. CASE Go(u, "verify") /\ ~Fail(u)
    <2> DEFINE e == [release |-> tag[u], build |-> digest[tag[u]]]
    <2>1. /\ stage[u] = "sha"
          /\ expected' = [expected EXCEPT ![u] = e]
          /\ UNCHANGED <<latest, asset, digest, binary, running, tag, temp, others, kills>>
      <3>1. ~Go(u, "dead")
        BY <1>2 DEF Go, UpdateTypeOK
      <3> QED
        BY <1>2, <3>1 DEF FetchSHA256, publicVars
    <2>2. e \in Builds /\ e.release = tag[u]
      <3>1. tag[u] \in Releases /\ digest[tag[u]] \in 1..LastBuild
        BY DEF UpdateTypeOK
      <3> QED
        BY <3>1, BuildMade
    <2> HIDE DEF e
    <2>3. expected'[u] = e /\ \A w \in Updaters \ {u} : expected'[w] = expected[w]
      BY <2>1 DEF UpdateTypeOK
    <2>4. UpdateTypeOK'
      BY <1>2, <2>1, <2>2 DEF UpdateTypeOK, Go, Steps, Contents
    <2>5. tag[u] <= latest /\ (others[u] \/ binary.release <= tag[u])
      BY <2>1 DEF TagIsNewer, Fetched
    <2> QED
      BY <1>2, <2>1, <2>2, <2>3, <2>4, <2>5, MovingStep DEF Steps
  <1>3. CASE Go(u, "dead") /\ ~Fail(u)
    <2>1. ~Go(u, "verify")
      BY <1>3 DEF Go, UpdateTypeOK
    <2>2. /\ kills < MaxKills /\ kills' = kills + 1
          /\ UNCHANGED <<latest, asset, digest, binary, running, tag, temp, expected, others>>
      BY <1>3, <2>1 DEF FetchSHA256, publicVars
    <2>3. UpdateTypeOK'
      BY <1>3, <2>2, SelfUpdateAssumption DEF UpdateTypeOK, Go, Steps
    <2> QED
      BY <1>3, <2>2, <2>3, MovingStep DEF Steps, Checking, Fetched
  <1> QED
    BY <1>1, <1>2, <1>3 DEF FetchSHA256

LEMMA CheckSteps ==
  ASSUME UpdateInv, NEW u \in Updaters, VerifySHA256(u) \/ ValidateBinary(u)
  PROVE  UpdateInv'
  <1> USE DEF UpdateInv
  <1>1. CASE Fail(u)
    BY <1>1, FailStep
  <1>2. ASSUME ~Fail(u)
        PROVE  UpdateInv'
    <2>1. PICK s \in {"validate", "install"} :
            /\ Go(u, s) /\ stage[u] \in Checking
            /\ s = "validate" => temp[u] = expected[u]
            /\ s = "install" => stage[u] = "validate"
            /\ UNCHANGED <<latest, asset, digest, binary, running, tag, temp, expected, others, kills>>
      BY <1>2 DEF VerifySHA256, ValidateBinary, SameDigest, publicVars, Checking
    <2>2. temp[u] = expected[u]
      BY <2>1 DEF TempIsChecked
    <2>3. UpdateTypeOK'
      BY <2>1 DEF UpdateTypeOK, Go, Steps
    <2>4. expected[u] \in Builds /\ expected[u].release = tag[u]
      BY <2>1 DEF DigestOfTag
    <2>5. tag[u] <= latest /\ (others[u] \/ binary.release <= tag[u])
      BY <2>1 DEF TagIsNewer, Fetched, Checking
    <2> QED
      BY <2>1, <2>2, <2>3, <2>4, <2>5, MovingStep DEF Steps
  <1> QED
    BY <1>1, <1>2

\* What the rename puts into place.
LEMMA Installed ==
  ASSUME UpdateInv, NEW u \in Updaters, Install(u), ~Fail(u)
  PROVE  /\ stage[u] = "install" /\ stage'[u] = "replaced"
         /\ binary' = expected[u] /\ binary' \in Builds /\ binary'.release = tag[u]
         /\ ~others[u] => binary.release <= binary'.release
  <1> USE DEF UpdateInv
  <1>1. /\ stage[u] = "install" /\ binary' = temp[u] /\ Go(u, "replaced")
    BY DEF Install
  <1>2. temp[u] = expected[u]
    BY <1>1 DEF TempIsChecked
  <1>3. expected[u] \in Builds /\ expected[u].release = tag[u]
    BY <1>1 DEF DigestOfTag, Checking
  <1>4. ~others[u] => binary.release <= tag[u]
    BY <1>1 DEF TagIsNewer, Fetched
  <1>5. stage'[u] = "replaced"
    BY <1>1 DEF Go, UpdateTypeOK
  <1> QED
    BY <1>1, <1>2, <1>3, <1>4, <1>5

LEMMA InstallStep ==
  ASSUME UpdateInv, NEW u \in Updaters, Install(u)
  PROVE  UpdateInv'
  <1> USE DEF UpdateInv
  <1>1. CASE Fail(u)
    BY <1>1, FailStep
  <1>2. ASSUME ~Fail(u)
        PROVE  UpdateInv'
    <2>1. /\ stage' = [stage EXCEPT ![u] = "replaced"]
          /\ temp' = [temp EXCEPT ![u] = NoFile]
          /\ others' = [w \in Updaters |-> others[w] \/ w # u]
          /\ UNCHANGED <<latest, asset, digest, running, tag, expected, kills>>
      BY <1>2 DEF Install, Go, publicVars
    <2>2. binary' \in Builds /\ binary'.release <= latest'
      <3>1. binary' \in Builds /\ binary'.release = tag[u]
        BY <1>2, Installed
      <3>2. stage[u] = "install" /\ tag[u] <= latest
        BY <1>2, Installed DEF TagIsNewer, Fetched
      <3> QED
        BY <2>1, <3>1, <3>2
    <2>3. UpdateTypeOK'
      <3>1. others' \in [Updaters -> BOOLEAN]
        BY <2>1 DEF UpdateTypeOK
      <3> QED
        BY <2>1, <2>2, <3>1 DEF UpdateTypeOK, Steps, Contents
    <2>4. FileInHand'
      BY <2>1 DEF FileInHand, UpdateTypeOK
    <2>5. DigestOfTag' /\ TempIsChecked'
      BY <2>1 DEF DigestOfTag, TempIsChecked, UpdateTypeOK, Checking
    <2>6. TagIsNewer'
      BY <2>1 DEF TagIsNewer, UpdateTypeOK, Fetched
    <2> QED
      BY <2>2, <2>3, <2>4, <2>5, <2>6 DEF BinaryStarts
  <1> QED
    BY <1>1, <1>2

LEMMA UpdateStep ==
  ASSUME UpdateInv, [UpdateNext]_updateVars
  PROVE  UpdateInv'
  <1>1. CASE UNCHANGED updateVars
    BY <1>1 DEF updateVars, UpdateInv, UpdateTypeOK, BinaryStarts, FileInHand, DigestOfTag,
                TempIsChecked, TagIsNewer
  <1>2. CASE UpdateNext
    BY <1>2, PublicSteps, EndsOfRun, FetchTagStep, DownloadStep, FetchDigestStep, CheckSteps,
       InstallStep DEF UpdateNext
  <1> QED
    BY <1>1, <1>2

-----------------------------------------------------------------------------
(***************************************************************************)
(* The theorems.                                                           *)
(***************************************************************************)

\* What the calls of selfupdate keep true of the binary and of their temporary
\* files at every step.
THEOREM UpdateInvariant == UpdateSpec => []UpdateInv
  <1>1. UpdateInit => UpdateInv
    BY UpdateInitially
  <1>2. UpdateInv /\ [UpdateNext]_updateVars => UpdateInv'
    BY UpdateStep
  <1> QED
    BY <1>1, <1>2, PTL DEF UpdateSpec

\* There is always a whole build of a release to start, and no temporary file
\* but that of a call that goes on or of a process that died.
THEOREM BinaryIsSafe == UpdateSpec => []BinarySafe
  <1>1. UpdateInv => BinarySafe
    BY DEF UpdateInv, BinarySafe, FileInHand, FailureCleans
  <1> QED
    BY <1>1, UpdateInvariant, PTL

\* The binary changes only by a rename.
LEMMA OnlyInstalls ==
  ASSUME UpdateInv, UpdateNext, binary' # binary
  PROVE  \E u \in Updaters : Install(u) /\ ~Fail(u)
  BY DEF UpdateNext, PublishRelease, UploadAsset, UploadDigest, Start, Fail, FetchLatestTag,
         DownloadAsset, FetchSHA256, VerifySHA256, ValidateBinary, Install, Return, Killed

\* What a call installs has the digest that was published for the release it
\* asked for, and is older than what it replaces only if another call came
\* between.
THEOREM InstallsAreChecked == UpdateSpec => InstallsAreRight
  <1> DEFINE Checked ==
        binary' # binary
        => \E u \in Updaters : stage[u] = "install" /\ binary' = expected[u]
                               /\ binary'.release = tag[u]
      Newer ==
        binary'.release < binary.release
        => \E u \in Updaters : stage'[u] = "replaced" /\ stage[u] = "install" /\ others[u]
  <1>1. ASSUME UpdateInv, UpdateNext
        PROVE  Checked /\ Newer
    <2>1. CASE binary' = binary
      <3>1. binary.release \in Nat
        BY <1>1, BuildFields, Numbers DEF UpdateInv, BinaryStarts
      <3> QED
        BY <2>1, <3>1
    <2>2. CASE binary' # binary
      <3>1. PICK u \in Updaters : Install(u) /\ ~Fail(u)
        BY <1>1, <2>2, OnlyInstalls
      <3>2. /\ stage[u] = "install" /\ stage'[u] = "replaced"
            /\ binary' = expected[u] /\ binary' \in Builds /\ binary'.release = tag[u]
            /\ ~others[u] => binary.release <= binary'.release
        BY <1>1, <3>1, Installed
      <3>3. binary.release \in Nat /\ binary'.release \in Nat
        BY <1>1, <3>2, BuildFields, Numbers DEF UpdateInv, BinaryStarts
      <3>4. Newer
        BY <3>2, <3>3
      <3> QED
        BY <3>2, <3>4
    <2> QED
      BY <2>1, <2>2
  <1> QED
    BY <1>1, UpdateInvariant, PTL DEF UpdateSpec, InstallsAreRight, NoDowngrade, InstalledIsChecked

-----------------------------------------------------------------------------
(***************************************************************************)
(* Credentials.  A call holds what it has read of the file until it ends;  *)
(* as long as no rename has come since, that is what a scanner still gets  *)
(* from the file.                                                          *)
(***************************************************************************)

ReadsAreCurrent ==
  \A s \in Shells :
    /\ adding[s].on /\ ~adding[s].late => adding[s].entries = Scanned(stored)
    /\ loading[s].on /\ ~loading[s].late => loading[s].entries = Scanned(stored)

SecretsInv == SecretsTypeOK /\ ReadsAreCurrent

\* What a scanner gets has the type of the file.
LEMMA ScannedType ==
  ASSUME NEW kept \in Entries
  PROVE  /\ Scanned(kept) \in Entries
         /\ \A k \in Keys : \/ Scanned(kept)[k] = "none" /\ \E j \in 1..k : kept[j] = "huge"
                            \/ Scanned(kept)[k] = Trimmed(kept[k])
  <1>1. \A v \in Values \cup {"none"} : Trimmed(v) \in Values \cup {"none"}
    BY DEF Trimmed, Values
  <1>2. \A k \in Keys : kept[k] \in Values \cup {"none"}
    BY DEF Entries
  <1> QED
    BY <1>1, <1>2 DEF Scanned, Entries

LEMMA SecretsInitially == SecretsInit => SecretsInv
  <1> SUFFICES ASSUME SecretsInit PROVE SecretsInv
    OBVIOUS
  <1>1. NoEntries \in Entries /\ NoAdd \in Adds /\ NoLoad \in Loads
    BY SecretsAssumption DEF NoEntries, Entries, NoAdd, Adds, NoLoad, Loads, Keys, Values
  <1>2. SecretsTypeOK
    BY <1>1, SecretsAssumption DEF SecretsInit, SecretsTypeOK
  <1>3. ReadsAreCurrent
    BY DEF SecretsInit, ReadsAreCurrent, NoAdd, NoLoad
  <1> QED
    BY <1>2, <1>3 DEF SecretsInv

LEMMA SecretsStep == SecretsInv /\ [SecretsNext]_secretsVars => SecretsInv'
  <1> SUFFICES ASSUME SecretsInv, [SecretsNext]_secretsVars PROVE SecretsInv'
    OBVIOUS
  <1>0. /\ stored \in Entries /\ env \in [Shells -> Entries] /\ adding \in [Shells -> Adds]
        /\ loading \in [Shells -> Loads] /\ adds \in 0..MaxAdds /\ exits \in 0..MaxExits
        /\ MaxAdds \in Nat /\ MaxExits \in Nat /\ Pasted \subseteq Values
        /\ NoEntries \in Entries /\ NoAdd \in Adds /\ NoLoad \in Loads
        /\ NoAdd.on = FALSE /\ NoLoad.on = FALSE
    BY SecretsAssumption DEF SecretsInv, SecretsTypeOK, NoEntries, Entries, NoAdd, Adds,
       NoLoad, Loads, Keys, Values
  <1>1. ASSUME NEW s \in Shells, NEW k \in Keys, NEW v \in Pasted, AddReads(s, k, v)
        PROVE  SecretsInv'
    <2> DEFINE a == [on |-> TRUE, key |-> k, value |-> v, entries |-> Scanned(stored),
                     late |-> FALSE]
    <2>1. a \in Adds /\ a.on /\ ~a.late /\ a.entries = Scanned(stored)
      <3>1. Scanned(stored) \in Entries
        BY <1>0, ScannedType
      <3> QED
        BY <1>0, <3>1 DEF Adds
    <2>2. /\ adding' = [adding EXCEPT ![s] = a] /\ adds' = adds + 1 /\ adds < MaxAdds
          /\ UNCHANGED <<stored, env, loading, exits>>
      BY <1>1 DEF AddReads
    <2> HIDE DEF a
    <2>3. SecretsTypeOK'
      BY <1>0, <2>1, <2>2 DEF SecretsTypeOK
    <2>4. ReadsAreCurrent'
      BY <1>0, <2>1, <2>2 DEF SecretsInv, ReadsAreCurrent, Scanned
    <2> QED
      BY <2>3, <2>4 DEF SecretsInv
  <1>2. ASSUME NEW s \in Shells, AddRenames(s) PROVE SecretsInv'
    <2>1. stored' \in Entries /\ env' \in [Shells -> Entries]
      <3>1. adding[s].entries \in Entries /\ adding[s].key \in Keys /\ adding[s].value \in Values
        BY <1>0 DEF Adds
      <3>2. stored' = [adding[s].entries EXCEPT ![adding[s].key] = adding[s].value]
        BY <1>2 DEF AddRenames
      <3>3. env' = [env EXCEPT ![s] = [env[s] EXCEPT ![adding[s].key] = adding[s].value]]
        BY <1>2 DEF AddRenames
      <3>4. \A e \in Entries : [e EXCEPT ![adding[s].key] = adding[s].value] \in Entries
        BY <3>1 DEF Entries
      <3>5. env[s] \in Entries
        BY <1>0
      <3> QED
        BY <1>0, <3>1, <3>2, <3>3, <3>4, <3>5
    <2>2. adding' \in [Shells -> Adds] /\ loading' \in [Shells -> Loads]
      <3>1. \A u \in Shells : /\ [adding[u] EXCEPT !.late = adding[u].on] \in Adds
                              /\ [loading[u] EXCEPT !.late = loading[u].on] \in Loads
        BY <1>0 DEF Adds, Loads
      <3> QED
        BY <1>0, <1>2, <3>1 DEF AddRenames
    <2>3. \A u \in Shells : /\ adding'[u].on => adding'[u].late
                            /\ loading'[u].on => loading'[u].late
      BY <1>0, <1>2 DEF AddRenames, Adds, Loads
    <2>4. SecretsTypeOK'
      BY <1>0, <1>2, <2>1, <2>2 DEF AddRenames, SecretsTypeOK
    <2>5. ReadsAreCurrent'
      BY <2>3 DEF ReadsAreCurrent
    <2> QED
      BY <2>4, <2>5 DEF SecretsInv
  <1>3. ASSUME NEW s \in Shells, AddFails(s) PROVE SecretsInv'
    <2>1. SecretsTypeOK'
      BY <1>0, <1>3 DEF AddFails, SecretsTypeOK
    <2>2. ReadsAreCurrent'
      BY <1>0, <1>3 DEF AddFails, SecretsInv, ReadsAreCurrent, Scanned
    <2> QED
      BY <2>1, <2>2 DEF SecretsInv
  <1>4. ASSUME NEW s \in Shells, LoadReads(s) PROVE SecretsInv'
    <2> DEFINE a == [on |-> TRUE, entries |-> Scanned(stored), late |-> FALSE]
    <2>1. a \in Loads /\ a.on /\ ~a.late /\ a.entries = Scanned(stored)
      <3>1. Scanned(stored) \in Entries
        BY <1>0, ScannedType
      <3> QED
        BY <3>1 DEF Loads
    <2>2. /\ loading' = [loading EXCEPT ![s] = a]
          /\ UNCHANGED <<stored, env, adding, adds, exits>>
      BY <1>4 DEF LoadReads
    <2> HIDE DEF a
    <2>3. SecretsTypeOK'
      BY <1>0, <2>1, <2>2 DEF SecretsTypeOK
    <2>4. ReadsAreCurrent'
      BY <1>0, <2>1, <2>2 DEF SecretsInv, ReadsAreCurrent, Scanned
    <2> QED
      BY <2>3, <2>4 DEF SecretsInv
  <1>5. ASSUME NEW s \in Shells, LoadExports(s) PROVE SecretsInv'
    <2> DEFINE e == [k \in Keys |-> IF loading[s].entries[k] # "none"
                                    THEN loading[s].entries[k] ELSE env[s][k]]
    <2>1. e \in Entries
      <3>1. loading[s].entries \in Entries /\ env[s] \in Entries
        BY <1>0 DEF Loads
      <3> QED
        BY <3>1 DEF Entries
    <2>2. /\ env' = [env EXCEPT ![s] = e] /\ loading' = [loading EXCEPT ![s] = NoLoad]
          /\ UNCHANGED <<stored, adding, adds, exits>>
      BY <1>5 DEF LoadExports
    <2> HIDE DEF e
    <2>3. SecretsTypeOK'
      BY <1>0, <2>1, <2>2 DEF SecretsTypeOK
    <2>4. ReadsAreCurrent'
      BY <1>0, <2>2 DEF SecretsInv, ReadsAreCurrent, Scanned
    <2> QED
      BY <2>3, <2>4 DEF SecretsInv
  <1>6. ASSUME NEW s \in Shells, Exit(s) PROVE SecretsInv'
    <2>1. SecretsTypeOK'
      BY <1>0, <1>6 DEF Exit, SecretsTypeOK
    <2>2. ReadsAreCurrent'
      BY <1>0, <1>6 DEF Exit, SecretsInv, ReadsAreCurrent, Scanned
    <2> QED
      BY <2>1, <2>2 DEF SecretsInv
  <1>7. CASE UNCHANGED secretsVars
    BY <1>7 DEF secretsVars, SecretsInv, SecretsTypeOK, ReadsAreCurrent, Scanned
  <1> QED
    BY <1>1, <1>2, <1>3, <1>4, <1>5, <1>6, <1>7 DEF SecretsNext

\* The parts of OthersKept and ExportedIsStored that one step is about.
OthersKeptNow ==
  \A k \in Keys :
    stored'[k] # stored[k]
    => \E s \in Shells :
         /\ adding[s].on /\ ~adding'[s].on
         /\ \/ adding[s].key = k /\ stored'[k] = adding[s].value
            \/ adding[s].late
            \/ \E j \in 1..k : stored[j] = "huge"
            \/ stored'[k] = Trimmed(stored[k])

ExportedNow ==
  \A s \in Shells, k \in Keys :
    env'[s][k] \notin {env[s][k], "none"}
    => \/ stored'[k] = env'[s][k]
       \/ Trimmed(stored[k]) = env'[s][k]
       \/ loading[s].late

LEMMA RenameKeeps ==
  ASSUME SecretsInv, NEW s \in Shells, AddRenames(s)
  PROVE  OthersKeptNow /\ ExportedNow
  <1> DEFINE a == adding[s]
  <1>0. /\ stored \in Entries /\ env \in [Shells -> Entries] /\ a \in Adds
        /\ a.entries \in Entries /\ a.key \in Keys /\ a.on
        /\ adding \in [Shells -> Adds]
    BY DEF SecretsInv, SecretsTypeOK, Adds, AddRenames
  <1>1. /\ stored' = [a.entries EXCEPT ![a.key] = a.value]
        /\ env' = [env EXCEPT ![s] = [env[s] EXCEPT ![a.key] = a.value]]
    BY DEF AddRenames
  <1>2. ~adding'[s].on
    BY <1>0 DEF AddRenames, NoAdd
  <1>3. ~a.late => a.entries = Scanned(stored)
    BY <1>0 DEF SecretsInv, ReadsAreCurrent
  <1> HIDE DEF a
  <1>4. stored'[a.key] = a.value /\ \A k \in Keys : k # a.key => stored'[k] = a.entries[k]
    BY <1>0, <1>1 DEF Entries
  <1>5. ASSUME NEW k \in Keys
        PROVE  \/ a.key = k /\ stored'[k] = a.value
               \/ a.late
               \/ \E j \in 1..k : stored[j] = "huge"
               \/ stored'[k] = Trimmed(stored[k])
    <2>1. CASE k = a.key
      BY <1>4, <2>1
    <2>2. CASE k # a.key /\ ~a.late
      BY <1>0, <1>3, <1>4, <2>2, ScannedType
    <2> QED
      BY <2>1, <2>2
  <1>6. OthersKeptNow
    BY <1>0, <1>2, <1>5 DEF OthersKeptNow, a
  <1>7. ASSUME NEW u \in Shells, NEW k \in Keys, env'[u][k] \notin {env[u][k], "none"}
        PROVE  stored'[k] = env'[u][k]
    <2>1. env[u] \in Entries
      BY <1>0
    <2>2. u = s
      BY <1>0, <1>1, <1>7
    <2>3. env'[s] = [env[s] EXCEPT ![a.key] = a.value]
      BY <1>0, <1>1
    <2>4. k = a.key /\ env'[s][k] = a.value
      BY <1>0, <1>7, <2>1, <2>2, <2>3 DEF Entries
    <2> QED
      BY <1>4, <2>2, <2>4
  <1>8. ExportedNow
    BY <1>7 DEF ExportedNow
  <1> QED
    BY <1>6, <1>8

LEMMA LoadKeeps ==
  ASSUME SecretsInv, NEW s \in Shells, LoadExports(s)
  PROVE  OthersKeptNow /\ ExportedNow
  <1>0. /\ stored \in Entries /\ env \in [Shells -> Entries]
        /\ loading[s].entries \in Entries /\ stored' = stored
    BY DEF SecretsInv, SecretsTypeOK, Loads, LoadExports
  <1>1. OthersKeptNow
    BY <1>0 DEF OthersKeptNow
  <1>2. ASSUME NEW u \in Shells, NEW k \in Keys, env'[u][k] \notin {env[u][k], "none"},
               ~loading[u].late
        PROVE  Trimmed(stored[k]) = env'[u][k]
    <2>1. env' = [env EXCEPT ![s] = [x \in Keys |-> IF loading[s].entries[x] # "none"
                               THEN loading[s].entries[x] ELSE env[s][x]]]
      BY DEF LoadExports
    <2>2. u = s
      BY <1>0, <1>2, <2>1
    <2>3. loading[s].entries[k] # "none" /\ env'[s][k] = loading[s].entries[k]
      BY <1>0, <1>2, <2>1, <2>2
    <2>4. loading[s].entries = Scanned(stored)
      BY <1>2, <2>2 DEF SecretsInv, ReadsAreCurrent, LoadExports
    <2> QED
      BY <1>0, <2>2, <2>3, <2>4, ScannedType
  <1>3. ExportedNow
    BY <1>2 DEF ExportedNow
  <1> QED
    BY <1>1, <1>3

LEMMA SecretsMoves ==
  ASSUME SecretsInv, [SecretsNext]_secretsVars
  PROVE  OthersKeptNow /\ ExportedNow
  <1>1. ASSUME UNCHANGED <<stored, env>> PROVE OthersKeptNow /\ ExportedNow
    BY <1>1 DEF OthersKeptNow, ExportedNow
  <1>2. ASSUME NEW s \in Shells, Exit(s) PROVE OthersKeptNow /\ ExportedNow
    <2>1. stored' = stored /\ env' = [env EXCEPT ![s] = NoEntries]
      BY <1>2 DEF Exit
    <2>2. \A u \in Shells, k \in Keys : env'[u][k] \in {env[u][k], "none"}
      BY <2>1 DEF SecretsInv, SecretsTypeOK, NoEntries
    <2> QED
      BY <2>1, <2>2 DEF OthersKeptNow, ExportedNow
  <1> QED
    BY <1>1, <1>2, RenameKeeps, LoadKeeps
    DEF SecretsNext, AddReads, AddFails, LoadReads, secretsVars

\* No credential is lost or put back but by a call that read the file before
\* the last rename, behind a line that is too long, or where blanks come off,
\* for any number of processes, keys, calls and restarts
\* (secrets/store.go:45 to 206).
THEOREM CredentialsAreKept == SecretsSpec => SecretsKept
  <1>1. SecretsSpec => []SecretsInv
    BY SecretsInitially, SecretsStep, PTL DEF SecretsSpec
  <1>2. SecretsInv => SecretsTypeOK
    BY DEF SecretsInv
  <1>3. SecretsInv /\ [SecretsNext]_secretsVars =>
          [OthersKeptNow]_secretsVars /\ [ExportedNow]_secretsVars
    BY SecretsMoves
  <1>4. SecretsSpec => [][OthersKeptNow]_secretsVars
    BY <1>1, <1>3, PTL DEF SecretsSpec
  <1>5. SecretsSpec => [][ExportedNow]_secretsVars
    BY <1>1, <1>3, PTL DEF SecretsSpec
  <1>6. SecretsSpec => OthersKept
    BY <1>4 DEF OthersKept, OthersKeptNow
  <1>7. SecretsSpec => ExportedIsStored
    BY <1>5 DEF ExportedIsStored, ExportedNow
  <1> QED
    BY <1>1, <1>2, <1>6, <1>7, PTL DEF SecretsKept

-----------------------------------------------------------------------------
(***************************************************************************)
(* The dialogues of the terminal UI and config.yaml.  Two things make the  *)
(* properties inductive.  What was read of config.yaml and not overtaken   *)
(* is what stands there (ReadsAreFresh).  And a patient operator is always *)
(* in one of five situations (InOrder), each of which says of every shared *)
(* part - picker, modes, answers, scans, lists, saves - whose it is.       *)
(***************************************************************************)

NoSaves == \A n \in 1..MaxSaves : saves[n].stage = "off"

\* Reads of config.yaml that nobody has overtaken are what stands there.
ReadsAreFresh ==
  /\ swap.on /\ ~swap.late => swap.cfg = [config EXCEPT !.model = "new"]
  /\ \A n \in 1..MaxSaves :
       saves[n].stage = "write" /\ ~saves[n].late => saves[n].cfg.model = config.model

\* What the types need.
Counted ==
  /\ fetches <= commands
  /\ \A n \in 1..MaxSaves : saves[n].stage # "off" => saves[n].chat # 0

\* The answer under way is one of the picker that is open.
AnswerFits ==
  \/ answers = <<>>
  \/ \E keys \in Picks : /\ answers = <<[picker |-> picker, keys |-> keys]>>
                         /\ picker \in Pickers
                         /\ picker \in Single => keys # "none"

Closed == picker = "none" /\ answers = <<>>

\* What a patient operator may find: nothing is open, though a scan or a save
\* that she has left goes on;
Resting ==
  /\ Closed /\ modes = {} /\ login = "none" /\ setup = 0 /\ ~swap.on
  /\ fetches = 0
  /\ scans # {} => NoSaves /\ \E c \in Chats : scans = {c}

\* Update waits for SwapModel;
Swapping ==
  /\ Closed /\ modes = {} /\ login = "none" /\ setup = 0 /\ ~swap.late
  /\ scans = {} /\ fetches = 0 /\ NoSaves

\* /model, /skill or /scope is open;
Choosing ==
  /\ login = "none" /\ setup = 0 /\ ~swap.on /\ scans = {} /\ NoSaves
  /\ \/ \E mode \in Modes : modes = {mode} /\ picker = mode /\ fetches = 0 /\ AnswerFits
     \/ modes = {"scope"} /\ fetches = 1 /\ Closed

\* /login is;
LoggingIn ==
  /\ modes = {} /\ setup = 0 /\ ~swap.on /\ scans = {} /\ fetches = 0 /\ NoSaves
  /\ \/ login = "provider" /\ picker = "provider" /\ AnswerFits
     \/ login = "key" /\ Closed
     \/ login = "model" /\ picker = "loginModel" /\ AnswerFits

\* /setup is.
SettingUp ==
  /\ modes = {} /\ login = "none" /\ setup # 0 /\ ~swap.on /\ fetches = 0
  /\ \/ /\ step[setup] = "contexts" /\ picker = "contexts" /\ AnswerFits
        /\ scans = {} /\ NoSaves
     \/ /\ step[setup] = "scanning" /\ Closed /\ selected[setup]
        /\ scans = {setup} /\ NoSaves
     \/ /\ step[setup] = "findings" /\ picker = "kinds" /\ AnswerFits /\ selected[setup]
        /\ scans = {} /\ NoSaves
     \/ /\ step[setup] = "done" /\ Closed
        /\ scans = {}

\* One save at a time, of a chat whose contexts were selected, and what it
\* writes belongs to this chat.
SavesFit ==
  /\ \A c \in Chats : findings[c] \in {0, c}
  /\ \A n \in 1..MaxSaves : saves[n].stage # "off" =>
       /\ selected[saves[n].chat]
       /\ \A m \in 1..MaxSaves : saves[m].stage # "off" => m = n
       /\ saves[n].stage \in {"write", "wire"} =>
            saves[n].cfg.contexts = saves[n].chat
            /\ saves[n].cfg.backends \in {Nothing, saves[n].chat}
       /\ saves[n].stage = "wire" =>
            config.contexts = saves[n].cfg.contexts /\ config.backends = saves[n].cfg.backends

InOrder == IF swap.on THEN Swapping ELSE Resting \/ Choosing \/ LoggingIn \/ SettingUp

Orderly ==
  patient =>
    /\ InOrder
    /\ key # "answer"
    /\ SavesFit
    /\ SavedFits /\ WiredIsSaved

FlowsInv == FlowsTypeOK /\ Counted /\ ReadsAreFresh /\ Orderly

LEMMA RemoveAtType ==
  ASSUME NEW S, NEW s \in Seq(S), NEW i \in DOMAIN s
  PROVE  /\ RemoveAt(s, i) \in Seq(S) /\ Len(RemoveAt(s, i)) = Len(s) - 1
         /\ Len(s) = 1 => RemoveAt(s, i) = <<>>
  <1> DEFINE p == SubSeq(s, 1, i - 1)
             q == SubSeq(s, i + 1, Len(s))
  <1>1. i \in 1..Len(s) /\ Len(s) \in Nat
    OBVIOUS
  <1>2. p \in Seq(S) /\ Len(p) = i - 1 /\ q \in Seq(S) /\ Len(q) = Len(s) - i
    BY <1>1
  <1>3. RemoveAt(s, i) = p \o q
    BY DEF RemoveAt
  <1> HIDE DEF p, q
  <1>4. p \o q \in Seq(S) /\ Len(p \o q) = Len(s) - 1
    BY <1>1, <1>2
  <1>5. \A x \in Seq(S) : Len(x) = 0 => x = <<>>
    OBVIOUS
  <1>6. RemoveAt(s, i) \in Seq(S) /\ Len(RemoveAt(s, i)) = Len(s) - 1
    BY <1>3, <1>4
  <1>7. Len(s) = 1 => Len(RemoveAt(s, i)) = 0
    BY <1>6
  <1> QED
    BY <1>5, <1>6, <1>7

\* The types of the parts, as the steps need them.
LEMMA FlowsTypes ==
  /\ NoConfig \in Configs /\ NoSave \in Saves /\ NoSwap \in Swaps
  /\ \A cfg \in Configs, m \in {"old", "new"} : [cfg EXCEPT !.model = m] \in Configs
  /\ \A s \in Saves, g \in Stages, b \in BOOLEAN, c \in 0..MaxChats, cfg \in Configs :
       /\ [s EXCEPT !.stage = g] \in Saves
       /\ [s EXCEPT !.late = b] \in Saves
       /\ [s EXCEPT !.stage = g, !.late = b] \in Saves
       /\ [s EXCEPT !.stage = g, !.chat = c] \in Saves
       /\ [s EXCEPT !.stage = g, !.cfg = cfg] \in Saves
  /\ \A s \in Swaps, b \in BOOLEAN : [s EXCEPT !.late = b] \in Swaps
  /\ \A cfg \in Configs : [on |-> TRUE, cfg |-> cfg, late |-> FALSE] \in Swaps
  <1>1. Before \in 0..Nothing /\ MaxChats \in Nat
    BY FlowsAssumption DEF Before, Nothing
  <1>2. NoConfig \in Configs
    BY <1>1 DEF NoConfig, Configs
  <1>3. NoSave \in Saves /\ NoSwap \in Swaps
    BY <1>1, <1>2 DEF NoSave, Saves, NoSwap, Swaps, Stages
  <1>4. \A cfg \in Configs, m \in {"old", "new"} : [cfg EXCEPT !.model = m] \in Configs
    BY DEF Configs
  <1>5. \A s \in Saves, g \in Stages, b \in BOOLEAN, c \in 0..MaxChats, cfg \in Configs :
       /\ [s EXCEPT !.stage = g] \in Saves
       /\ [s EXCEPT !.late = b] \in Saves
       /\ [s EXCEPT !.stage = g, !.late = b] \in Saves
       /\ [s EXCEPT !.stage = g, !.chat = c] \in Saves
       /\ [s EXCEPT !.stage = g, !.cfg = cfg] \in Saves
    BY DEF Saves
  <1>6. /\ \A s \in Swaps, b \in BOOLEAN : [s EXCEPT !.late = b] \in Swaps
        /\ \A cfg \in Configs : [on |-> TRUE, cfg |-> cfg, late |-> FALSE] \in Swaps
    BY DEF Swaps
  <1> QED
    BY <1>2, <1>3, <1>4, <1>5, <1>6

LEMMA FlowsStart == FlowsInit => FlowsInv
  <1> SUFFICES ASSUME FlowsInit PROVE FlowsInv
    OBVIOUS
  <1>0. MaxChats \in Nat \ {0} /\ MaxCommands \in [BOOLEAN -> Nat] /\ MaxSaves \in Nat
        /\ MaxAnswers \in Nat
    BY FlowsAssumption
  <1>1. saves \in [1..MaxSaves -> Saves] /\ \A n \in 1..MaxSaves : saves[n].stage = "off"
    BY FlowsTypes DEF FlowsInit, NoSave
  <1>2. answers \in Seq(Answers) /\ Len(answers) = 0
    BY DEF FlowsInit
  <1>3. /\ wired \in [contexts : 0..Nothing, backends : 0..Nothing]
        /\ config \in Configs /\ swap \in Swaps /\ ~swap.on /\ ~swap.late
    <2>1. Before \in 0..Nothing /\ wired = [contexts |-> Before, backends |-> Before]
      BY <1>0 DEF FlowsInit, Before, Nothing
    <2>2. config \in Configs /\ swap \in Swaps /\ swap = NoSwap
      BY FlowsTypes DEF FlowsInit
    <2>3. ~swap.on /\ ~swap.late
      BY <2>2 DEF NoSwap
    <2> QED
      BY <2>1, <2>2, <2>3
  <1>4. FlowsTypeOK
    BY <1>0, <1>1, <1>2, <1>3 DEF FlowsInit, FlowsTypeOK
  <1>5. Counted /\ ReadsAreFresh
    BY <1>0, <1>1, <1>3 DEF FlowsInit, Counted, ReadsAreFresh
  <1>6. Resting /\ SavesFit
    BY <1>1, <1>3 DEF FlowsInit, Resting, Closed, NoSaves, SavesFit
  <1>7. SavedFits /\ WiredIsSaved
    BY <1>0 DEF FlowsInit, SavedFits, WiredIsSaved, NoConfig, Before, Nothing
  <1> QED
    BY <1>3, <1>4, <1>5, <1>6, <1>7 DEF FlowsInv, Orderly, InOrder, FlowsInit

\* A save that starts.
LEMMA FlowsTypesSave ==
  ASSUME FlowsTypeOK, Counted, saves' = saves \/ StartSave(setup), setup # 0
  PROVE  /\ saves' \in [1..MaxSaves -> Saves]
         /\ \A n \in 1..MaxSaves : saves'[n].stage # "off" => saves'[n].chat # 0
  <1>1. CASE saves' = saves
    BY <1>1 DEF FlowsTypeOK, Counted
  <1>2. CASE StartSave(setup)
    <2>1. PICK n \in 1..MaxSaves :
            saves' = [saves EXCEPT ![n] = [NoSave EXCEPT !.stage = "load", !.chat = setup]]
      BY <1>2 DEF StartSave
    <2>2. [NoSave EXCEPT !.stage = "load", !.chat = setup] \in Saves
      BY FlowsTypes DEF FlowsTypeOK, Stages
    <2>3. [NoSave EXCEPT !.stage = "load", !.chat = setup].chat = setup
      BY DEF NoSave
    <2> QED
      BY <2>1, <2>2, <2>3 DEF FlowsTypeOK, Counted
  <1> QED
    BY <1>1, <1>2

LEMMA AnswersTyped ==
  ASSUME FlowsTypeOK, Counted, NEW i \in DOMAIN answers, Answer(i)
  PROVE  FlowsTypeOK' /\ Counted'
  <1> USE DEF uiVars, chatVars, jobVars, outVars
  <1> DEFINE a == answers[i]
  <1>0. /\ MaxChats \in Nat \ {0} /\ MaxCommands \in [BOOLEAN -> Nat] /\ MaxSaves \in Nat
        /\ MaxAnswers \in Nat /\ 0 \in 0..MaxChats
    BY FlowsAssumption
  <1>1. a \in Answers /\ a.picker \in Pickers /\ a.keys \in Picks
    <2>1. answers \in Seq(Answers)
      BY DEF FlowsTypeOK
    <2>2. a \in Answers
      BY <2>1
    <2> QED
      BY <2>2 DEF Answers
  <1>2. answers' \in Seq(Answers) /\ Len(answers') <= MaxAnswers
    <2>1. answers' = RemoveAt(answers, i)
      BY DEF Answer
    <2>2. answers \in Seq(Answers) /\ Len(answers) <= MaxAnswers /\ Len(answers) \in Nat
      BY DEF FlowsTypeOK
    <2> QED
      BY <1>0, <2>1, <2>2, RemoveAtType
  <1>3. UNCHANGED <<patient, commands, config, wired>>
    BY DEF Answer
  <1>4. \/ Route(a) = "login" /\ ToLogin(a)
        \/ ToModel(a) \/ ToSkill(a)
        \/ Route(a) = "scope" /\ ToScope(a)
        \/ Route(a) = "setup" /\ ToSetup(a)
        \/ ToNobody(a)
    BY DEF Answer, Route
  <1> HIDE DEF a
  <1>5. CASE ToLogin(a)
    <2>1. /\ login' \in {"none", "provider", "key", "model"} /\ picker' \in Pickers \cup {"none"}
          /\ key' \in {"none", "pasted", "answer"} /\ swap' \in Swaps
      BY <1>5, FlowsTypes
         DEF FlowsTypeOK, ToLogin, LoginCancels, LoginStep, ProviderStep, KeyStep, ModelStep,
             LoginStays, BeginSwap, Pickers, Single
    <2> QED
      BY <1>2, <1>3, <1>5, <2>1 DEF FlowsTypeOK, Counted, ToLogin
  <1>6. CASE ToModel(a)
    <2>1. swap' \in Swaps /\ modes' \subseteq Modes
      BY <1>6, FlowsTypes DEF FlowsTypeOK, ToModel, BeginSwap
    <2> QED
      BY <1>2, <1>3, <1>6, <2>1 DEF FlowsTypeOK, Counted, ToModel
  <1>7. CASE ToSkill(a) \/ ToNobody(a)
    <2>1. modes' \subseteq Modes
      BY <1>7 DEF FlowsTypeOK, ToSkill, ToNobody
    <2> QED
      BY <1>2, <1>3, <1>7, <2>1 DEF FlowsTypeOK, Counted, ToSkill, ToNobody
  <1>8. CASE Route(a) = "scope" /\ ToScope(a)
    <2>1. modes' \subseteq Modes /\ scope' \in {"none", "scope", "contexts", "kinds"}
      BY <1>1, <1>8 DEF FlowsTypeOK, ToScope, Route, Pickers, Multi, Picks
    <2> QED
      BY <1>2, <1>3, <1>8, <2>1 DEF FlowsTypeOK, Counted, ToScope
  <1>9. CASE Route(a) = "setup" /\ ToSetup(a)
    <2>1. setup # 0 /\ setup \in Chats
      BY <1>0, <1>9 DEF FlowsTypeOK, Route, Chats
    <2>2. saves' = saves \/ StartSave(setup)
      BY <1>9 DEF ToSetup, SetupGivesUp, SetupAsksAgain, SetupScans, SetupSaves, Scanning
    <2>3. saves' \in [1..MaxSaves -> Saves]
          /\ \A n \in 1..MaxSaves : saves'[n].stage # "off" => saves'[n].chat # 0
      BY <2>1, <2>2, FlowsTypesSave
    <2>4. /\ findings' = findings /\ kinds' \in [Chats -> BOOLEAN]
          /\ selected' \in [Chats -> BOOLEAN]
          /\ step' \in [Chats -> {"new", "contexts", "scanning", "findings", "done"}]
          /\ setup' \in {0, setup} /\ step'[setup] # "new"
          /\ picker' \in Pickers \cup {"none"} /\ scans' \subseteq Chats
      BY <1>0, <1>9, <2>1
         DEF FlowsTypeOK, ToSetup, SetupGivesUp, SetupAsksAgain, SetupScans, SetupSaves,
             Scanning, Pickers, Multi
    <2>5. UNCHANGED <<modes, login, fetches, swap, key, scope>>
      BY <1>9 DEF ToSetup
    <2> QED
      BY <1>0, <1>2, <1>3, <2>3, <2>4, <2>5 DEF FlowsTypeOK, Counted
  <1> QED
    BY <1>4, <1>5, <1>6, <1>7, <1>8, <1>9

FlowsTyped == FlowsTypeOK /\ Counted

LEMMA FlowsTypesKept ==
  ASSUME FlowsTyped, FlowsNext
  PROVE  FlowsTyped'
  <1> USE DEF uiVars, chatVars, jobVars, outVars
  <1>0. /\ MaxChats \in Nat \ {0} /\ MaxCommands \in [BOOLEAN -> Nat] /\ MaxSaves \in Nat
        /\ MaxAnswers \in Nat /\ Nothing = MaxChats + 1
        /\ 0 \in 0..MaxChats
    BY FlowsAssumption DEF Nothing
  <1>t. FlowsTypeOK /\ Counted
    BY DEF FlowsTyped
  <1>1. ASSUME NEW mode \in {"model", "skill"}, PickMode(mode) PROVE FlowsTyped'
    <2>1. modes' \subseteq Modes /\ picker' \in Pickers \cup {"none"}
      BY <1>t, <1>1 DEF FlowsTypeOK, PickMode, Pickers, Single, Modes
    <2>2. commands' \in 0..MaxCommands[patient] /\ fetches <= commands'
      BY <1>0, <1>t, <1>1 DEF FlowsTypeOK, Counted, PickMode, Command
    <2>3. UNCHANGED <<patient, answers, login, setup, chatVars, jobVars, swap, outVars>>
      BY <1>1 DEF PickMode
    <2> QED
      BY <1>t, <2>1, <2>2, <2>3 DEF FlowsTyped, FlowsTypeOK, Counted
  <1>2. CASE PickScope
    <2>1. modes' \subseteq Modes
      BY <1>t, <1>2 DEF FlowsTypeOK, PickScope, Modes
    <2>2. /\ commands' \in 0..MaxCommands[patient]
          /\ fetches' \in 0..MaxCommands[patient] /\ fetches' <= commands'
      BY <1>0, <1>t, <1>2 DEF FlowsTypeOK, Counted, PickScope, Command
    <2>3. UNCHANGED <<patient, picker, answers, login, setup, chatVars, scans, saves, swap,
                      outVars>>
      BY <1>2 DEF PickScope
    <2> QED
      BY <1>t, <2>1, <2>2, <2>3 DEF FlowsTyped, FlowsTypeOK, Counted
  <1>3. CASE Login
    BY <1>0, <1>t, <1>3 DEF FlowsTyped, FlowsTypeOK, Counted, Login, Command, Pickers, Single
  <1>4. ASSUME NEW c \in Chats, Setup(c) PROVE FlowsTyped'
    <2>1. /\ step' \in [Chats -> {"new", "contexts", "scanning", "findings", "done"}]
          /\ setup' = c /\ step'[c] # "new" /\ picker' \in Pickers \cup {"none"}
      BY <1>t, <1>4 DEF FlowsTypeOK, Setup, FirstStep, Pickers, Multi
    <2>2. commands' \in 0..MaxCommands[patient] /\ fetches <= commands'
      BY <1>0, <1>t, <1>4 DEF FlowsTypeOK, Counted, Setup, Command
    <2>3. UNCHANGED <<patient, answers, modes, login, selected, findings, kinds, jobVars, swap,
                      outVars>>
      BY <1>4 DEF Setup
    <2>4. setup' \in 0..MaxChats
      BY <1>0, <2>1 DEF Chats
    <2> QED
      BY <1>t, <2>1, <2>2, <2>3, <2>4 DEF FlowsTyped, FlowsTypeOK, Counted
  <1>5. ASSUME NEW keys \in Picks, Press(keys) PROVE FlowsTyped'
    <2>1. answers' \in Seq(Answers) /\ Len(answers') <= MaxAnswers
      BY <1>0, <1>t, <1>5 DEF FlowsTypeOK, Press, Answers
    <2> QED
      BY <1>t, <1>5, <2>1 DEF FlowsTyped, FlowsTypeOK, Counted, Press
  <1>6. CASE Dismiss \/ Escape
    <2>1. setup' \in {0, setup} /\ login' \in {login, "none"} /\ picker' \in {picker, "none"}
      BY <1>6 DEF Dismiss, Escape
    <2>2. UNCHANGED <<patient, commands, answers, modes, chatVars, jobVars, swap, outVars>>
      BY <1>6 DEF Dismiss, Escape
    <2> QED
      BY <1>0, <1>t, <2>1, <2>2 DEF FlowsTyped, FlowsTypeOK, Counted
  <1>7. ASSUME NEW line \in {"named", "pasted", "cancel"}, Type(line) PROVE FlowsTyped'
    <2>1. /\ login' \in {"none", "provider", "key", "model"} /\ picker' \in Pickers \cup {"none"}
          /\ key' \in {"none", "pasted", "answer"} /\ swap' \in Swaps
          /\ setup' \in {0, setup}
      BY <1>t, <1>7, FlowsTypes
         DEF FlowsTypeOK, Type, LoginCancels, LoginStep, ProviderStep, KeyStep, ModelStep,
             LoginStays, BeginSwap, Pickers, Single
    <2>2. UNCHANGED <<patient, commands, answers, modes, chatVars, jobVars, config, wired, scope>>
      BY <1>7 DEF Type
    <2> QED
      BY <1>0, <1>t, <2>1, <2>2 DEF FlowsTyped, FlowsTypeOK, Counted
  <1>9. CASE EndSwap
    <2>1. /\ saves' \in [1..MaxSaves -> Saves]
          /\ \A n \in 1..MaxSaves : /\ saves'[n].stage = saves[n].stage
                                    /\ saves'[n].chat = saves[n].chat
      <3>1. \A n \in 1..MaxSaves : saves[n] \in Saves
        BY <1>t DEF FlowsTypeOK
      <3>2. saves' = [n \in 1..MaxSaves |-> [saves[n] EXCEPT !.late = saves[n].stage = "write"]]
        BY <1>9 DEF EndSwap
      <3>3. \A n \in 1..MaxSaves : /\ saves'[n].stage = saves[n].stage
                                  /\ saves'[n].chat = saves[n].chat
        BY <3>1, <3>2 DEF Saves
      <3>4. \A n \in 1..MaxSaves : [saves[n] EXCEPT !.late = saves[n].stage = "write"] \in Saves
        BY <3>1 DEF Saves
      <3> QED
        BY <3>2, <3>3, <3>4
    <2>2. swap' \in Swaps /\ config' \in Configs
      BY <1>t, <1>9, FlowsTypes DEF FlowsTypeOK, EndSwap, Swaps
    <2> QED
      BY <1>t, <1>9, <2>1, <2>2 DEF FlowsTyped, FlowsTypeOK, Counted, EndSwap
  <1>10. ASSUME NEW c \in Chats, NEW hit \in BOOLEAN, ScanDone(c, hit) PROVE FlowsTyped'
    <2>1. CASE setup = 0
      BY <1>0, <1>t, <1>10, <2>1 DEF FlowsTyped, FlowsTypeOK, Counted, ScanDone
    <2>2. CASE setup # 0
      <3>1. setup \in Chats
        BY <1>0, <1>t, <2>2 DEF FlowsTypeOK, Chats
      <3>2. saves' = saves \/ StartSave(setup)
        BY <1>10, <2>2 DEF ScanDone
      <3>3. saves' \in [1..MaxSaves -> Saves]
            /\ \A n \in 1..MaxSaves : saves'[n].stage # "off" => saves'[n].chat # 0
        BY <1>0, <1>t, <2>2, <3>1, <3>2, FlowsTypesSave
      <3>4. /\ findings' \in [Chats -> 0..MaxChats] /\ kinds' \in [Chats -> BOOLEAN]
            /\ step' \in [Chats -> {"new", "contexts", "scanning", "findings", "done"}]
            /\ step'[setup] # "new" /\ selected' = selected
            /\ picker' \in Pickers \cup {"none"} /\ scans' \subseteq Chats
        <4>1. /\ findings' = [findings EXCEPT ![setup] = IF hit THEN c ELSE 0]
              /\ kinds' = [kinds EXCEPT ![setup] = @ \/ hit]
              /\ step' = [step EXCEPT ![setup] = IF hit THEN "findings" ELSE "done"]
              /\ selected' = selected /\ picker' \in {picker, "kinds"} /\ scans' = scans \ {c}
          BY <1>10, <2>2 DEF ScanDone
        <4>2. c \in 0..MaxChats /\ 0 \in 0..MaxChats
          BY <1>0 DEF Chats
        <4>3. findings' \in [Chats -> 0..MaxChats] /\ kinds' \in [Chats -> BOOLEAN]
          BY <1>t, <3>1, <4>1, <4>2 DEF FlowsTypeOK
        <4>4. /\ step' \in [Chats -> {"new", "contexts", "scanning", "findings", "done"}]
              /\ step'[setup] # "new"
          BY <1>t, <3>1, <4>1 DEF FlowsTypeOK
        <4>5. picker' \in Pickers \cup {"none"} /\ scans' \subseteq Chats
          BY <1>t, <4>1 DEF FlowsTypeOK, Pickers, Multi
        <4> QED
          BY <4>1, <4>3, <4>4, <4>5
      <3> QED
        BY <1>t, <1>10, <3>3, <3>4 DEF FlowsTyped, FlowsTypeOK, Counted, ScanDone
    <2> QED
      BY <2>1, <2>2
  <1>11. ASSUME NEW n \in 1..MaxSaves,
                SaveLoads(n) \/ SaveWrites(n) \/ SaveWires(n) \/ SaveFails(n) \/ SaveDone(n)
         PROVE  FlowsTyped'
    <2>1. saves[n] \in Saves /\ saves[n].cfg \in Configs
      BY <1>t DEF FlowsTypeOK, Saves
    <2>2. CASE SaveLoads(n)
      <3> DEFINE c == saves[n].chat
                 cfg == [model |-> PrevModel,
                         contexts |-> IF selected[c] THEN c ELSE Nothing,
                         backends |-> IF kinds[c] /\ findings[c] # 0 THEN findings[c] ELSE Nothing,
                         rest |-> FALSE]
      <3>1. c \in Chats
        BY <1>0, <1>t, <2>1, <2>2 DEF SaveLoads, At, Counted, Saves, Chats
      <3>2. cfg \in Configs
        <4>0. findings[c] \in 0..MaxChats /\ c \in 1..MaxChats
          BY <1>t, <3>1 DEF FlowsTypeOK, Chats
        <4>1. findings[c] \in 0..Nothing /\ Nothing \in 0..Nothing /\ c \in 0..Nothing
          BY <1>0, <4>0
        <4>2. PrevModel \in {"old", "new"}
          BY <1>t DEF FlowsTypeOK, PrevModel, Configs
        <4> HIDE DEF c
        <4> QED
          BY <4>1, <4>2 DEF Configs
      <3>3. /\ saves' = [saves EXCEPT ![n] = [saves[n] EXCEPT !.stage = "write", !.cfg = cfg]]
            /\ UNCHANGED <<patient, commands, uiVars, chatVars, scans, fetches, swap, outVars>>
        BY <1>t, <2>2 DEF SaveLoads, FlowsTypeOK
      <3>4. saves' \in [1..MaxSaves -> Saves] /\ saves'[n].chat = c
        <4> HIDE DEF cfg
        <4>1. [saves[n] EXCEPT !.stage = "write", !.cfg = cfg] \in Saves
          BY <2>1, <3>2 DEF Saves, Stages
        <4>2. [saves[n] EXCEPT !.stage = "write", !.cfg = cfg].chat = saves[n].chat
          BY <2>1 DEF Saves
        <4> QED
          BY <1>t, <3>3, <4>1, <4>2 DEF FlowsTypeOK
      <3>5. \A m \in 1..MaxSaves : m # n => saves'[m] = saves[m]
        BY <1>t, <3>3 DEF FlowsTypeOK
      <3> HIDE DEF c, cfg
      <3>6. Counted'
        BY <1>0, <1>t, <3>1, <3>3, <3>4, <3>5 DEF Counted, Chats
      <3> QED
        BY <1>t, <3>3, <3>4, <3>6 DEF FlowsTyped, FlowsTypeOK
    <2>3. CASE SaveWrites(n)
      <3>1. /\ saves' \in [1..MaxSaves -> Saves]
            /\ \A m \in 1..MaxSaves : /\ saves'[m].chat = saves[m].chat
                                      /\ m # n => saves'[m].stage = saves[m].stage
            /\ saves[n].stage # "off"
        <4>1. \A m \in 1..MaxSaves : saves[m] \in Saves
          BY <1>t DEF FlowsTypeOK
        <4>2. saves' = [m \in 1..MaxSaves |->
                 IF m = n THEN [saves[n] EXCEPT !.stage = "wire", !.late = FALSE]
                 ELSE [saves[m] EXCEPT !.late = saves[m].stage = "write"]]
          BY <2>3 DEF SaveWrites
        <4>3. /\ [saves[n] EXCEPT !.stage = "wire", !.late = FALSE] \in Saves
              /\ \A m \in 1..MaxSaves : [saves[m] EXCEPT !.late = saves[m].stage = "write"] \in Saves
          BY <4>1 DEF Saves, Stages
        <4>4. \A m \in 1..MaxSaves : /\ saves'[m].chat = saves[m].chat
                                    /\ m # n => saves'[m].stage = saves[m].stage
          BY <4>1, <4>2 DEF Saves
        <4>5. saves[n].stage # "off"
          BY <2>3 DEF SaveWrites, At
        <4> QED
          BY <4>2, <4>3, <4>4, <4>5
      <3>2. swap' \in Swaps /\ config' \in Configs
        BY <1>t, <2>1, <2>3, FlowsTypes DEF FlowsTypeOK, SaveWrites, Swaps
      <3> QED
        BY <1>t, <2>3, <3>1, <3>2 DEF FlowsTyped, FlowsTypeOK, Counted, SaveWrites
    <2>4. CASE SaveWires(n) \/ SaveFails(n)
      <3>1. /\ saves' \in [1..MaxSaves -> Saves]
            /\ \A m \in 1..MaxSaves : /\ saves'[m].chat = saves[m].chat
                                      /\ m # n => saves'[m].stage = saves[m].stage
            /\ saves[n].stage # "off"
        <4>1. \A m \in 1..MaxSaves : saves[m] \in Saves
          BY <1>t DEF FlowsTypeOK
        <4>2. saves' = [saves EXCEPT ![n] = [saves[n] EXCEPT !.stage = "tell"]]
              /\ saves[n].stage # "off"
          BY <1>t, <2>4 DEF SaveWires, SaveFails, At, FlowsTypeOK
        <4>3. [saves[n] EXCEPT !.stage = "tell"] \in Saves
              /\ [saves[n] EXCEPT !.stage = "tell"].chat = saves[n].chat
          BY <4>1 DEF Saves, Stages
        <4> QED
          BY <1>t, <4>2, <4>3 DEF FlowsTypeOK
      <3>2. wired' \in [contexts : 0..Nothing, backends : 0..Nothing]
        BY <1>t, <2>1, <2>4 DEF FlowsTypeOK, SaveWires, SaveFails, Configs
      <3> QED
        BY <1>t, <2>4, <3>1, <3>2 DEF FlowsTyped, FlowsTypeOK, Counted, SaveWires, SaveFails
    <2>5. CASE SaveDone(n)
      <3>1. /\ saves' \in [1..MaxSaves -> Saves] /\ saves'[n].stage = "off"
            /\ \A m \in 1..MaxSaves : m # n => saves'[m] = saves[m]
        BY <1>t, <2>5, FlowsTypes DEF FlowsTypeOK, SaveDone, NoSave
      <3> QED
        BY <1>0, <1>t, <2>5, <3>1 DEF FlowsTyped, FlowsTypeOK, Counted, SaveDone
    <2> QED
      BY <1>11, <2>2, <2>3, <2>4, <2>5
  <1>12. ASSUME NEW names \in BOOLEAN, Namespaces(names) PROVE FlowsTyped'
    BY <1>0, <1>t, <1>12 DEF FlowsTyped, FlowsTypeOK, Counted, Namespaces, Pickers, Multi
  <1>13. ASSUME NEW i \in DOMAIN answers, Answer(i) PROVE FlowsTyped'
    BY <1>13, <1>t, AnswersTyped DEF FlowsTyped
  <1> QED
    BY <1>1, <1>2, <1>3, <1>4, <1>5, <1>6, <1>7, <1>9, <1>10, <1>11, <1>12, <1>13 DEF FlowsNext

\* The steps that write config.yaml, or are about to.
SaveMoves(n) ==
  SaveLoads(n) \/ SaveWrites(n) \/ SaveWires(n) \/ SaveFails(n) \/ SaveDone(n)

LEMMA WhoWrites ==
  ASSUME FlowsNext
  PROVE  \/ EndSwap
         \/ \E n \in 1..MaxSaves : SaveMoves(n)
         \/ /\ config' = config
            /\ swap' = swap \/ BeginSwap
            /\ saves' = saves \/ StartSave(setup)
  <1> USE DEF uiVars, chatVars, jobVars, outVars
  <1>1. ASSUME NEW i \in DOMAIN answers, Answer(i)
        PROVE  /\ config' = config
               /\ swap' = swap \/ BeginSwap
               /\ saves' = saves \/ StartSave(setup)
    <2> DEFINE a == answers[i]
    <2>1. /\ config' = config
          /\ \/ ToLogin(a) \/ ToModel(a) \/ ToSkill(a) \/ ToScope(a) \/ ToSetup(a) \/ ToNobody(a)
      BY <1>1 DEF Answer, Route
    <2> HIDE DEF a
    <2>2. CASE ToLogin(a)
      BY <2>1, <2>2 DEF ToLogin, LoginCancels, LoginStep, ProviderStep, KeyStep, ModelStep, LoginStays
    <2>3. CASE ToModel(a) \/ ToSkill(a) \/ ToScope(a) \/ ToNobody(a)
      BY <2>1, <2>3 DEF ToModel, ToSkill, ToScope, ToNobody
    <2>4. CASE ToSetup(a)
      BY <2>1, <2>4 DEF ToSetup, SetupGivesUp, SetupAsksAgain, SetupScans, SetupSaves, Scanning
    <2> QED
      BY <2>1, <2>2, <2>3, <2>4
  <1>2. ASSUME NEW line \in {"named", "pasted", "cancel"}, Type(line)
        PROVE  config' = config /\ saves' = saves /\ (swap' = swap \/ BeginSwap)
    BY <1>2 DEF Type, LoginCancels, LoginStep, ProviderStep, KeyStep, ModelStep, LoginStays
  <1>3. ASSUME NEW c \in Chats, NEW hit \in BOOLEAN, ScanDone(c, hit)
        PROVE  config' = config /\ swap' = swap /\ (saves' = saves \/ StartSave(setup))
    BY <1>3 DEF ScanDone
  <1>4. ASSUME NEW c \in Chats, Setup(c) PROVE UNCHANGED <<config, swap, saves>>
    BY <1>4 DEF Setup
  <1>5. ASSUME NEW keys \in Picks, Press(keys) PROVE UNCHANGED <<config, swap, saves>>
    BY <1>5 DEF Press
  <1>6. ASSUME NEW names \in BOOLEAN, Namespaces(names) PROVE UNCHANGED <<config, swap, saves>>
    BY <1>6 DEF Namespaces
  <1>7. ASSUME PickMode("model") \/ PickMode("skill") \/ PickScope \/ Login \/ Dismiss \/ Escape
        PROVE  UNCHANGED <<config, swap, saves>>
    BY <1>7 DEF PickMode, PickScope, Login, Dismiss, Escape
  <1> QED
    BY <1>1, <1>2, <1>3, <1>4, <1>5, <1>6, <1>7 DEF FlowsNext, SaveMoves

\* A save that starts has read nothing yet.
LEMMA StartedSave ==
  ASSUME saves \in [1..MaxSaves -> Saves], NEW c, StartSave(c)
  PROVE  \E n \in 1..MaxSaves :
           /\ saves[n].stage = "off" /\ saves'[n].stage = "load" /\ saves'[n].chat = c
           /\ ~saves'[n].late
           /\ \A m \in 1..MaxSaves : m # n => saves'[m] = saves[m]
  <1>1. PICK n \in 1..MaxSaves :
          /\ saves[n].stage = "off"
          /\ saves' = [saves EXCEPT ![n] = [NoSave EXCEPT !.stage = "load", !.chat = c]]
    BY DEF StartSave
  <1> WITNESS n \in 1..MaxSaves
  <1> DEFINE new == [NoSave EXCEPT !.stage = "load", !.chat = c]
  <1>2. new.stage = "load" /\ new.chat = c /\ ~new.late
    BY DEF NoSave
  <1>3. saves[n].stage = "off" /\ saves' = [saves EXCEPT ![n] = new]
    BY <1>1
  <1> HIDE DEF new
  <1> QED
    BY <1>2, <1>3

\* What one step of a save does to the saves and to config.yaml.
LEMMA SaveMoved ==
  ASSUME FlowsTyped, NEW n \in 1..MaxSaves, SaveMoves(n)
  PROVE  /\ SaveLoads(n) => saves[n].stage = "load" /\ saves'[n].stage = "write"
                            /\ saves'[n].chat = saves[n].chat
                            /\ saves'[n].cfg.model = config.model
                            /\ LET c == saves[n].chat IN
                                 /\ saves'[n].cfg.contexts = IF selected[c] THEN c ELSE Nothing
                                 /\ saves'[n].cfg.backends \in {Nothing, findings[c]}
                                 /\ findings[c] = 0 => saves'[n].cfg.backends = Nothing
         /\ SaveWrites(n) => saves[n].stage = "write" /\ saves'[n].stage = "wire"
                             /\ config' = saves[n].cfg /\ saves'[n].cfg = saves[n].cfg
                             /\ saves'[n].chat = saves[n].chat
         /\ SaveWires(n) => saves[n].stage = "wire" /\ saves'[n].stage = "tell"
                            /\ saves'[n].chat = saves[n].chat
         /\ SaveFails(n) => saves[n].stage \in {"load", "write"} /\ saves'[n].stage = "tell"
                            /\ saves'[n].chat = saves[n].chat
         /\ SaveDone(n) => saves[n].stage = "tell" /\ saves'[n].stage = "off"
         /\ ~SaveWrites(n) => config' = config /\ swap' = swap
                              /\ \A m \in 1..MaxSaves : m # n => saves'[m] = saves[m]
         /\ SaveWrites(n) =>
              /\ swap.on = swap'.on /\ swap.cfg = swap'.cfg /\ (swap'.on => swap'.late)
              /\ \A m \in 1..MaxSaves :
                   m # n => /\ saves'[m].stage = saves[m].stage
                            /\ saves'[m].chat = saves[m].chat
                            /\ saves'[m].cfg = saves[m].cfg
                            /\ saves'[m].stage = "write" => saves'[m].late
  <1> USE DEF uiVars, chatVars, jobVars, outVars
  <1>1. /\ saves \in [1..MaxSaves -> Saves] /\ swap \in Swaps /\ saves[n] \in Saves
    BY DEF FlowsTyped, FlowsTypeOK
  <1>2. CASE SaveLoads(n)
    <2> DEFINE c == saves[n].chat
               cfg == [model |-> PrevModel,
                       contexts |-> IF selected[c] THEN c ELSE Nothing,
                       backends |-> IF kinds[c] /\ findings[c] # 0 THEN findings[c] ELSE Nothing,
                       rest |-> FALSE]
    <2>1. /\ saves[n].stage = "load"
          /\ saves' = [saves EXCEPT ![n] = [saves[n] EXCEPT !.stage = "write", !.cfg = cfg]]
          /\ config' = config /\ swap' = swap
      BY <1>1, <1>2 DEF SaveLoads, At
    <2>2. /\ cfg.model = config.model
          /\ cfg.contexts = (IF selected[c] THEN c ELSE Nothing)
          /\ cfg.backends = IF kinds[c] /\ findings[c] # 0 THEN findings[c] ELSE Nothing
      BY DEF PrevModel
    <2> HIDE DEF cfg
    <2>3. /\ saves'[n].stage = "write" /\ saves'[n].chat = c /\ saves'[n].cfg = cfg
          /\ \A m \in 1..MaxSaves : m # n => saves'[m] = saves[m]
      BY <1>1, <2>1 DEF Saves
    <2>4. ~SaveWrites(n) /\ ~SaveWires(n) /\ ~SaveDone(n)
      BY <2>1 DEF SaveWrites, SaveWires, SaveDone, At
    <2>5. ~SaveFails(n)
      <3>1. SUFFICES ASSUME SaveFails(n) PROVE FALSE
        OBVIOUS
      <3>2. saves'[n].stage = "tell"
        BY <1>1, <3>1 DEF SaveFails, Saves
      <3> QED
        BY <2>3, <3>2
    <2> QED
      BY <2>1, <2>2, <2>3, <2>4, <2>5
  <1>3. CASE SaveWrites(n)
    <2>1. /\ saves[n].stage = "write" /\ config' = saves[n].cfg
          /\ saves' = [m \in 1..MaxSaves |->
                         IF m = n THEN [saves[n] EXCEPT !.stage = "wire", !.late = FALSE]
                         ELSE [saves[m] EXCEPT !.late = saves[m].stage = "write"]]
          /\ swap' = [swap EXCEPT !.late = swap.on]
      BY <1>3 DEF SaveWrites, At
    <2>2. saves'[n].stage = "wire" /\ saves'[n].chat = saves[n].chat /\ saves'[n].cfg = saves[n].cfg
      BY <1>1, <2>1 DEF Saves
    <2>3. \A m \in 1..MaxSaves :
            m # n => /\ saves'[m].stage = saves[m].stage
                     /\ saves'[m].chat = saves[m].chat
                     /\ saves'[m].cfg = saves[m].cfg
                     /\ saves'[m].late = (saves[m].stage = "write")
      BY <1>1, <2>1 DEF Saves
    <2>4. swap.on = swap'.on /\ swap.cfg = swap'.cfg /\ swap'.late = swap.on
      BY <1>1, <2>1 DEF Swaps
    <2>5. ~SaveLoads(n) /\ ~SaveWires(n) /\ ~SaveDone(n)
      BY <2>1 DEF SaveLoads, SaveWires, SaveDone, At
    <2>6. ~SaveFails(n)
      <3>1. SUFFICES ASSUME SaveFails(n) PROVE FALSE
        OBVIOUS
      <3>2. saves'[n].stage = "tell"
        BY <1>1, <3>1 DEF SaveFails, Saves
      <3> QED
        BY <2>2, <3>2
    <2> QED
      BY <1>3, <2>1, <2>2, <2>3, <2>4, <2>5, <2>6
  <1>4. CASE SaveWires(n) \/ SaveFails(n)
    <2>1. /\ saves' = [saves EXCEPT ![n] = [saves[n] EXCEPT !.stage = "tell"]]
          /\ config' = config /\ swap' = swap
          /\ SaveWires(n) => saves[n].stage = "wire"
          /\ SaveFails(n) => saves[n].stage \in {"load", "write"}
      BY <1>1, <1>4 DEF SaveWires, SaveFails, At
    <2>2. /\ saves'[n].stage = "tell" /\ saves'[n].chat = saves[n].chat
          /\ \A m \in 1..MaxSaves : m # n => saves'[m] = saves[m]
      BY <1>1, <2>1 DEF Saves
    <2>3. ~SaveLoads(n) /\ ~SaveWrites(n)
      <3>1. SaveLoads(n) => saves'[n].stage = "write"
        BY <1>1 DEF SaveLoads, Saves
      <3>2. SaveWrites(n) => saves'[n].stage = "wire"
        BY <1>1 DEF SaveWrites, Saves
      <3> QED
        BY <2>2, <3>1, <3>2
    <2>4. ~SaveDone(n)
      BY <1>4 DEF SaveWires, SaveFails, SaveDone, At
    <2> QED
      BY <2>1, <2>2, <2>3, <2>4
  <1>5. CASE SaveDone(n)
    <2>1. /\ saves[n].stage = "tell" /\ saves' = [saves EXCEPT ![n] = NoSave]
          /\ config' = config /\ swap' = swap
      BY <1>5 DEF SaveDone, At
    <2>2. /\ saves'[n].stage = "off" /\ \A m \in 1..MaxSaves : m # n => saves'[m] = saves[m]
      BY <1>1, <2>1 DEF NoSave
    <2>3. ~SaveLoads(n) /\ ~SaveWrites(n) /\ ~SaveWires(n) /\ ~SaveFails(n)
      BY <2>1 DEF SaveLoads, SaveWrites, SaveWires, SaveFails, At
    <2> QED
      BY <2>1, <2>2, <2>3
  <1> QED
    BY <1>2, <1>3, <1>4, <1>5 DEF SaveMoves

LEMMA ReadsStayFresh ==
  ASSUME FlowsTyped, FlowsTyped', ReadsAreFresh, FlowsNext
  PROVE  ReadsAreFresh'
  <1>0. saves \in [1..MaxSaves -> Saves]
    BY DEF FlowsTyped, FlowsTypeOK
  <1>1. CASE EndSwap
    <2>1. ~swap'.on
      BY <1>1 DEF EndSwap, NoSwap
    <2>2. \A n \in 1..MaxSaves : saves'[n].late = (saves'[n].stage = "write")
      <3>1. \A n \in 1..MaxSaves : saves'[n] = [saves[n] EXCEPT !.late = saves[n].stage = "write"]
        BY <1>1 DEF EndSwap
      <3> QED
        BY <1>0, <3>1 DEF Saves
    <2> QED
      BY <2>1, <2>2 DEF ReadsAreFresh
  <1>2. ASSUME NEW n \in 1..MaxSaves, SaveMoves(n) PROVE ReadsAreFresh'
    <2>1. CASE SaveWrites(n)
      <3>1. \A m \in 1..MaxSaves : saves'[m].stage = "write" => saves'[m].late
        BY <1>2, <2>1, SaveMoved
      <3>2. swap'.on => swap'.late
        BY <1>2, <2>1, SaveMoved
      <3> QED
        BY <3>1, <3>2 DEF ReadsAreFresh
    <2>2. CASE ~SaveWrites(n)
      <3>1. /\ config' = config /\ swap' = swap
            /\ \A m \in 1..MaxSaves : m # n => saves'[m] = saves[m]
        BY <1>2, <2>2, SaveMoved
      <3>2. saves'[n].stage = "write" => saves'[n].cfg.model = config.model
        BY <1>2, <2>2, SaveMoved DEF SaveMoves
      <3> QED
        BY <3>1, <3>2 DEF ReadsAreFresh
    <2> QED
      BY <2>1, <2>2
  <1>3. CASE /\ config' = config
             /\ swap' = swap \/ BeginSwap
             /\ saves' = saves \/ StartSave(setup)
    <2>1. swap'.on /\ ~swap'.late => swap'.cfg = [config EXCEPT !.model = "new"]
      BY <1>3 DEF ReadsAreFresh, BeginSwap
    <2>2. \A n \in 1..MaxSaves :
            saves'[n].stage = "write" => saves'[n] = saves[n]
      BY <1>0, <1>3, StartedSave
    <2> QED
      BY <1>3, <2>1, <2>2 DEF ReadsAreFresh
  <1> QED
    BY <1>1, <1>2, <1>3, WhoWrites

\* What ConfigShared says of one step.
SharedNow ==
  config' # config =>
    \/ /\ swap.on /\ ~swap'.on
       /\ swap.late \/ config' = [config EXCEPT !.model = "new"]
    \/ \E n \in 1..MaxSaves :
         /\ saves[n].stage = "write" /\ saves'[n].stage = "wire"
         /\ saves[n].late \/ config'.model = config.model

LEMMA StepShares ==
  ASSUME FlowsTyped, ReadsAreFresh, [FlowsNext]_flowVars
  PROVE  SharedNow
  <1>1. CASE UNCHANGED flowVars
    BY <1>1 DEF flowVars, outVars, SharedNow
  <1>2. CASE EndSwap
    BY <1>2 DEF EndSwap, NoSwap, ReadsAreFresh, SharedNow
  <1>3. ASSUME NEW n \in 1..MaxSaves, SaveMoves(n) PROVE SharedNow
    <2>1. CASE SaveWrites(n)
      BY <1>3, <2>1, SaveMoved DEF ReadsAreFresh, SharedNow
    <2>2. CASE ~SaveWrites(n)
      BY <1>3, <2>2, SaveMoved DEF SharedNow
    <2> QED
      BY <2>1, <2>2
  <1>4. CASE config' = config
    BY <1>4 DEF SharedNow
  <1> QED
    BY <1>1, <1>2, <1>3, <1>4, WhoWrites

-----------------------------------------------------------------------------
(***************************************************************************)
(* The patient operator.                                                   *)
(***************************************************************************)

\* She gives a command when nothing is open or under way.
LEMMA CommandAtRest ==
  ASSUME FlowsTyped, patient, InOrder, Command
  PROVE  /\ Resting /\ NoSaves /\ scans = {}
         /\ picker = "none" /\ answers = <<>> /\ modes = {} /\ login = "none" /\ setup = 0
         /\ ~swap.on /\ fetches = 0
  <1>1. /\ ~swap.on /\ picker = "none" /\ login = "none" /\ setup = 0
        /\ answers = <<>> /\ scans = {} /\ ~(fetches > 0) /\ NoSaves
    BY DEF Command, Updating, Open, Busy, NoSaves
  <1>2. ~SettingUp /\ ~LoggingIn
    BY <1>1 DEF SettingUp, LoggingIn
  <1>3. ~Choosing
    BY <1>1 DEF Choosing, Modes
  <1> QED
    BY <1>1, <1>2, <1>3 DEF InOrder, Resting

LEMMA OrderOfCommands ==
  ASSUME FlowsTyped, patient, InOrder,
         \/ PickMode("model") \/ PickMode("skill") \/ PickScope \/ Login
         \/ \E c \in Chats : Setup(c)
  PROVE  InOrder'
  <1> USE DEF uiVars, chatVars, jobVars, outVars
  <1>0. Command
    BY DEF PickMode, PickScope, Login, Setup
  <1>1. /\ Resting /\ NoSaves /\ scans = {}
        /\ picker = "none" /\ answers = <<>> /\ modes = {} /\ login = "none" /\ setup = 0
        /\ ~swap.on /\ fetches = 0
    BY <1>0, CommandAtRest
  <1>2. ASSUME NEW mode \in {"model", "skill"}, PickMode(mode) PROVE InOrder'
    <2>1. /\ modes' = {mode} /\ picker' = mode /\ mode \in Modes
          /\ UNCHANGED <<answers, login, setup, scans, fetches, saves, swap>>
      BY <1>1, <1>2 DEF PickMode, Modes
    <2>2. Choosing'
      BY <1>1, <2>1 DEF Choosing, AnswerFits, NoSaves
    <2> QED
      BY <1>1, <2>1, <2>2 DEF InOrder
  <1>3. CASE PickScope
    <2>1. /\ modes' = {"scope"} /\ fetches' = 1
          /\ UNCHANGED <<picker, answers, login, setup, scans, saves, swap>>
      BY <1>1, <1>3 DEF PickScope
    <2>2. Choosing'
      BY <1>1, <2>1 DEF Choosing, Closed, NoSaves
    <2> QED
      BY <1>1, <2>1, <2>2 DEF InOrder
  <1>4. CASE Login
    <2>1. /\ login' = "provider" /\ picker' = "provider"
          /\ UNCHANGED <<answers, modes, setup, scans, fetches, saves, swap>>
      BY <1>4 DEF Login
    <2>2. LoggingIn'
      BY <1>1, <2>1 DEF LoggingIn, AnswerFits, NoSaves
    <2> QED
      BY <1>1, <2>1, <2>2 DEF InOrder
  <1>5. ASSUME NEW c \in Chats, Setup(c) PROVE InOrder'
    <2>1. /\ setup' = c /\ step' = [step EXCEPT ![c] = "contexts"] /\ picker' = "contexts"
          /\ UNCHANGED <<answers, modes, login, scans, fetches, saves, swap>>
      BY <1>5 DEF Setup, FirstStep
    <2>2. step'[c] = "contexts" /\ c # 0
      BY <2>1 DEF FlowsTyped, FlowsTypeOK, Chats
    <2>3. SettingUp'
      BY <1>1, <2>1, <2>2 DEF SettingUp, AnswerFits, NoSaves
    <2> QED
      BY <1>1, <2>1, <2>3 DEF InOrder
  <1> QED
    BY <1>2, <1>3, <1>4, <1>5

LEMMA OrderOfKeys ==
  ASSUME FlowsTyped, patient, InOrder, NEW keys \in Picks, Press(keys)
  PROVE  InOrder'
  <1> USE DEF uiVars, chatVars, jobVars, outVars
  <1>1. /\ ~swap.on /\ picker # "none" /\ answers = <<>> /\ (picker \in Single => keys # "none")
        /\ answers' = <<[picker |-> picker, keys |-> keys]>>
        /\ UNCHANGED <<picker, modes, login, setup, step, selected, scans, fetches, saves, swap>>
    BY DEF Press, Updating
  <1>2. picker \in Pickers
    BY <1>1 DEF FlowsTyped, FlowsTypeOK
  <1>3. AnswerFits'
    BY <1>1, <1>2 DEF AnswerFits
  <1>4. ~Closed /\ ~Resting
    BY <1>1 DEF Resting, Closed
  <1>5. Choosing => Choosing'
    BY <1>1, <1>3, <1>4 DEF Choosing, NoSaves
  <1>6. LoggingIn => LoggingIn'
    BY <1>1, <1>3, <1>4 DEF LoggingIn, NoSaves
  <1>7. SettingUp => SettingUp'
    BY <1>1, <1>3, <1>4 DEF SettingUp, NoSaves
  <1> QED
    BY <1>1, <1>4, <1>5, <1>6, <1>7 DEF InOrder

\* With no picker open, what she can leave or type into.
LEMMA WithoutPicker ==
  ASSUME FlowsTyped, patient, InOrder, ~swap.on, picker = "none"
  PROVE  /\ login # "none" => /\ login = "key" /\ setup = 0 /\ answers = <<>> /\ modes = {}
                              /\ scans = {} /\ fetches = 0 /\ NoSaves
         /\ setup # 0 => /\ login = "none" /\ answers = <<>> /\ modes = {} /\ fetches = 0
                         /\ step[setup] \in {"scanning", "done"}
                         /\ scans # {} => scans = {setup} /\ setup \in Chats /\ NoSaves
  <1>1. CASE Resting
    BY <1>1 DEF Resting
  <1>2. CASE Choosing
    BY <1>2 DEF Choosing
  <1>3. CASE LoggingIn
    BY <1>3 DEF LoggingIn, Closed
  <1>4. CASE SettingUp
    <2>1. setup \in Chats
      BY <1>4, FlowsAssumption DEF SettingUp, FlowsTyped, FlowsTypeOK, Chats
    <2> QED
      BY <1>4, <2>1 DEF SettingUp, Closed
  <1> QED
    BY <1>1, <1>2, <1>3, <1>4 DEF InOrder

LEMMA OrderOfTyping ==
  ASSUME FlowsTyped, patient, InOrder,
         Escape \/ \E line \in {"named", "pasted", "cancel"} : Type(line)
  PROVE  InOrder' /\ (key' = key \/ key' = "pasted")
  <1> USE DEF uiVars, chatVars, jobVars, outVars
  <1>0. ~swap.on /\ picker = "none"
    BY DEF Escape, Type, Updating
  <1>1. /\ login # "none" => /\ login = "key" /\ setup = 0 /\ answers = <<>> /\ modes = {}
                             /\ scans = {} /\ fetches = 0 /\ NoSaves
        /\ setup # 0 => /\ login = "none" /\ answers = <<>> /\ modes = {} /\ fetches = 0
                        /\ scans # {} => scans = {setup} /\ setup \in Chats /\ NoSaves
    BY <1>0, WithoutPicker
  \* A dialogue is left.
  <1>2. ASSUME login' = "none", setup' = 0, picker' = "none", login # "none" \/ setup # 0,
               UNCHANGED <<answers, modes, scans, fetches, saves, swap>>
        PROVE  InOrder'
    <2>1. Resting'
      BY <1>0, <1>1, <1>2 DEF Resting, Closed, NoSaves
    <2> QED
      BY <1>0, <1>2, <2>1 DEF InOrder
  <1>3. CASE Escape
    <2>1. /\ login' = "none" /\ setup' = 0 /\ picker' = "none" /\ (login # "none" \/ setup # 0)
          /\ UNCHANGED <<answers, modes, scans, fetches, saves, swap, key>>
      BY <1>0, <1>1, <1>3 DEF Escape
    <2> QED
      BY <1>2, <2>1
  <1>4. ASSUME NEW line \in {"named", "pasted", "cancel"}, Type(line)
        PROVE  InOrder' /\ (key' = key \/ key' = "pasted")
    <2>1. UNCHANGED <<answers, modes, scans, fetches, saves>>
      BY <1>4 DEF Type
    <2>2. CASE login # "none" /\ line = "cancel"
      <3>1. login' = "none" /\ setup' = 0 /\ picker' = "none" /\ UNCHANGED <<swap, key>>
        BY <1>1, <1>4, <2>2 DEF Type, LoginCancels
      <3> QED
        BY <1>2, <2>1, <2>2, <3>1
    <2>3. CASE login # "none" /\ line # "cancel"
      <3>1. KeyStep(line) /\ UNCHANGED setup
        BY <1>1, <1>4, <2>3 DEF Type, LoginStep, ProviderStep, ModelStep
      <3>2. UNCHANGED swap /\ (key' = key \/ key' = "pasted")
        BY <2>3, <3>1 DEF KeyStep
      <3>3. CASE login' = "model" /\ picker' = "loginModel"
        <4>1. LoggingIn'
          BY <1>0, <1>1, <2>1, <2>3, <3>1, <3>2, <3>3 DEF LoggingIn, AnswerFits, NoSaves
        <4> QED
          BY <1>0, <3>2, <4>1 DEF InOrder
      <3>4. CASE login' = "none" /\ picker' = "none"
        BY <1>1, <1>2, <2>1, <2>3, <3>1, <3>2, <3>4
      <3> QED
        BY <3>1, <3>3, <3>4 DEF KeyStep
    <2>4. CASE login = "none"
      <3>1. setup # 0 /\ setup' = 0 /\ UNCHANGED <<login, swap, key, picker>>
        BY <1>4, <2>4 DEF Type
      <3> QED
        BY <1>0, <1>2, <2>1, <2>4, <3>1
    <2> QED
      BY <2>2, <2>3, <2>4
  <1> QED
    BY <1>3, <1>4

\* Whose scan ends: that of the chat that is open, or of one that was left.
LEMMA OrderOfScans ==
  ASSUME FlowsTyped, patient, InOrder, NEW c \in Chats, NEW hit \in BOOLEAN,
         ScanDone(c, hit)
  PROVE  /\ InOrder' /\ NoSaves
         /\ UNCHANGED selected
         /\ setup = 0 => UNCHANGED <<findings, saves>>
         /\ setup # 0 => setup = c /\ selected[c]
                         /\ findings' = [findings EXCEPT ![c] = IF hit THEN c ELSE 0]
  <1> USE DEF uiVars, chatVars, jobVars, outVars
  <1>0. /\ ~swap.on /\ c \in scans /\ scans' = scans \ {c}
        /\ UNCHANGED <<answers, modes, login, setup, fetches, swap>>
    BY DEF ScanDone, Updating
  <1>1. CASE Resting
    <2>1. scans = {c} /\ NoSaves /\ setup = 0 /\ Closed /\ modes = {} /\ login = "none" /\ fetches = 0
      BY <1>0, <1>1 DEF Resting
    <2>2. UNCHANGED <<chatVars, saves, picker>>
      BY <2>1 DEF ScanDone
    <2>3. Resting'
      BY <1>0, <2>1, <2>2 DEF Resting, Closed
    <2> QED
      BY <1>0, <2>1, <2>2, <2>3 DEF InOrder
  <1>2. CASE SettingUp
    <2>1. /\ setup # 0 /\ scans = {setup} /\ selected[setup] /\ NoSaves /\ Closed
          /\ modes = {} /\ login = "none" /\ fetches = 0
      BY <1>0, <1>2 DEF SettingUp
    <2>2. setup = c /\ scans' = {}
      BY <1>0, <2>1
    <2>3. /\ findings' = [findings EXCEPT ![c] = IF hit THEN c ELSE 0]
          /\ UNCHANGED selected
      BY <2>1, <2>2 DEF ScanDone
    <2>4. SettingUp'
      <3>1. CASE hit
        <4>1. step'[c] = "findings" /\ picker' = "kinds" /\ UNCHANGED saves
          BY <2>1, <2>2, <3>1 DEF ScanDone, FlowsTyped, FlowsTypeOK
        <4> QED
          BY <1>0, <2>1, <2>2, <2>3, <4>1 DEF SettingUp, Closed, AnswerFits, NoSaves
      <3>2. CASE ~hit
        <4>1. step'[c] = "done" /\ picker' = "none"
          BY <2>1, <2>2, <3>2 DEF ScanDone, FlowsTyped, FlowsTypeOK, Closed
        <4> QED
          BY <1>0, <2>1, <2>2, <2>3, <4>1 DEF SettingUp, Closed
      <3> QED
        BY <3>1, <3>2
    <2> QED
      BY <1>0, <2>1, <2>2, <2>3, <2>4 DEF InOrder
  <1>3. ~Choosing /\ ~LoggingIn
    BY <1>0 DEF Choosing, LoggingIn
  <1> QED
    BY <1>0, <1>1, <1>2, <1>3 DEF InOrder

LEMMA OrderOfSaves ==
  ASSUME FlowsTyped, FlowsTyped', patient, InOrder, NEW n \in 1..MaxSaves, SaveMoves(n)
  PROVE  InOrder' /\ UNCHANGED <<selected, findings, key>>
  <1> USE DEF uiVars, chatVars, jobVars, outVars
  <1>1. saves[n].stage # "off"
    BY DEF SaveMoves, SaveLoads, SaveWrites, SaveWires, SaveFails, SaveDone, At
  <1>2. /\ UNCHANGED <<answers, modes, login, picker, step, scans, fetches, selected, findings, key>>
        /\ setup' \in {0, setup}
    BY DEF SaveMoves, SaveLoads, SaveWrites, SaveWires, SaveFails, SaveDone
  <1>3. swap'.on = swap.on
    BY SaveMoved
  <1>4. ~swap.on /\ ~Choosing /\ ~LoggingIn
    BY <1>1 DEF InOrder, Swapping, Choosing, LoggingIn, NoSaves
  <1>5. Resting => Resting'
    BY <1>1, <1>2, <1>3 DEF Resting, Closed, NoSaves
  <1>6. SettingUp => Resting' \/ SettingUp'
    <2>1. SUFFICES ASSUME SettingUp PROVE Resting' \/ SettingUp'
      OBVIOUS
    <2>2. /\ step[setup] = "done" /\ Closed /\ scans = {}
          /\ modes = {} /\ login = "none" /\ setup # 0 /\ ~swap.on /\ fetches = 0
      BY <1>1, <2>1 DEF SettingUp, NoSaves
    <2>3. setup' = 0 => Resting'
      BY <1>2, <1>3, <2>2 DEF Resting, Closed
    <2>4. setup' = setup => SettingUp'
      BY <1>2, <1>3, <2>2 DEF SettingUp, Closed
    <2> QED
      BY <1>2, <2>3, <2>4
  <1> QED
    BY <1>2, <1>3, <1>4, <1>5, <1>6 DEF InOrder

LEMMA OrderOfNamespaces ==
  ASSUME FlowsTyped, patient, InOrder, NEW names \in BOOLEAN, Namespaces(names)
  PROVE  InOrder'
  <1> USE DEF uiVars, chatVars, jobVars, outVars
  <1>0. /\ ~swap.on /\ fetches > 0 /\ fetches' = fetches - 1
        /\ UNCHANGED <<answers, login, setup, scans, saves, swap>>
    BY DEF Namespaces, Updating
  <1>1. ~Resting /\ ~LoggingIn /\ ~SettingUp
    BY <1>0 DEF Resting, LoggingIn, SettingUp
  <1>2. /\ modes = {"scope"} /\ fetches = 1 /\ Closed
        /\ login = "none" /\ setup = 0 /\ scans = {} /\ NoSaves
    BY <1>0, <1>1 DEF InOrder, Choosing
  <1>3. CASE names
    <2>1. picker' = "scope" /\ modes' = {"scope"} /\ "scope" \in Modes
      BY <1>2, <1>3 DEF Namespaces, Modes
    <2>2. Choosing'
      BY <1>0, <1>2, <2>1 DEF Choosing, AnswerFits, Closed, NoSaves
    <2> QED
      BY <1>0, <2>2 DEF InOrder
  <1>4. CASE ~names
    <2>1. picker' = "none" /\ modes' = {}
      BY <1>2, <1>4 DEF Namespaces, Closed
    <2>2. Resting'
      BY <1>0, <1>2, <2>1 DEF Resting, Closed, NoSaves
    <2> QED
      BY <1>0, <2>2 DEF InOrder
  <1> QED
    BY <1>3, <1>4

\* EndSwap leaves her at rest.
LEMMA OrderOfSwaps ==
  ASSUME FlowsTyped, patient, InOrder, EndSwap
  PROVE  /\ InOrder' /\ NoSaves /\ ~swap.late
         /\ UNCHANGED <<selected, findings, key, wired>>
         /\ \A n \in 1..MaxSaves : saves'[n].stage = "off"
  <1> USE DEF uiVars, chatVars, jobVars, outVars
  <1>1. Swapping /\ ~swap'.on
    BY DEF InOrder, EndSwap, NoSwap
  <1>2. \A n \in 1..MaxSaves : saves'[n].stage = "off"
    <2>1. \A n \in 1..MaxSaves : /\ saves'[n] = [saves[n] EXCEPT !.late = saves[n].stage = "write"]
                                 /\ saves[n] \in Saves /\ saves[n].stage = "off"
      BY <1>1 DEF EndSwap, Swapping, NoSaves, FlowsTyped, FlowsTypeOK
    <2> QED
      BY <2>1 DEF Saves
  <1>3. UNCHANGED <<picker, answers, modes, login, setup, fetches, scans, selected, findings, key, wired>>
    BY DEF EndSwap
  <1>4. Resting'
    BY <1>1, <1>2, <1>3 DEF Swapping, Resting, Closed
  <1> QED
    BY <1>1, <1>2, <1>3, <1>4 DEF InOrder, Swapping

\* The answer under way is the only one, and it is that of the open picker.
LEMMA OneAnswer ==
  ASSUME FlowsTyped, patient, InOrder, NEW i \in DOMAIN answers, Answer(i)
  PROVE  /\ ~swap.on /\ AnswerFits
         /\ answers[i].picker = picker /\ answers' = <<>>
         /\ picker \in Single => answers[i].keys # "none"
         /\ answers # <<>> /\ picker \in Pickers
  <1>1. ~swap.on /\ answers' = RemoveAt(answers, i)
    BY DEF Answer, Updating
  <1>2. answers # <<>> /\ answers \in Seq(Answers)
    BY DEF FlowsTyped, FlowsTypeOK
  <1>3. AnswerFits
    BY <1>1, <1>2 DEF InOrder, Resting, Choosing, LoggingIn, SettingUp, Closed
  <1>4. PICK keys \in Picks : /\ answers = <<[picker |-> picker, keys |-> keys]>>
                              /\ picker \in Pickers
                              /\ picker \in Single => keys # "none"
    BY <1>2, <1>3 DEF AnswerFits
  <1>5. i = 1 /\ Len(answers) = 1 /\ answers[i] = [picker |-> picker, keys |-> keys]
    BY <1>4
  <1>6. answers' = <<>>
    BY <1>1, <1>2, <1>5, RemoveAtType
  <1> QED
    BY <1>1, <1>2, <1>3, <1>4, <1>5, <1>6

LEMMA OrderOfAnswers ==
  ASSUME FlowsTyped, patient, InOrder, NEW i \in DOMAIN answers, Answer(i)
  PROVE  /\ InOrder' /\ key' = key /\ UNCHANGED <<config, wired, findings>>
         /\ \A c \in Chats : selected[c] => selected'[c]
         /\ saves' = saves \/ (StartSave(setup) /\ setup \in Chats /\ NoSaves /\ selected'[setup])
  <1> USE DEF uiVars, chatVars, jobVars, outVars
  <1> DEFINE a == answers[i]
  <1>0. /\ ~swap.on /\ a.picker = picker /\ answers' = <<>> /\ answers # <<>>
        /\ picker \in Pickers /\ picker # "none"
    BY OneAnswer DEF Pickers, Single, Multi
  <1>a. /\ UNCHANGED <<patient, commands, config, wired>>
        /\ Route(a) = "login" => ToLogin(a)
        /\ Route(a) = "model" => ToModel(a)
        /\ Route(a) = "skill" => ToSkill(a)
        /\ Route(a) = "scope" => ToScope(a)
        /\ Route(a) = "setup" => ToSetup(a)
    BY DEF Answer, Route
  <1> HIDE DEF a
  \* A dialogue is over, and Update may wait for a SwapModel.
  <1>1. ASSUME login' = "none", setup' = 0, picker' = "none", modes' = {}, fetches' = 0,
               scans' = {}, saves' = saves, NoSaves, swap' = swap \/ BeginSwap
        PROVE  InOrder'
    <2>1. CASE swap' = swap
      <3>1. Resting'
        BY <1>0, <1>1, <2>1 DEF Resting, Closed
      <3> QED
        BY <1>0, <2>1, <3>1 DEF InOrder
    <2>2. CASE BeginSwap
      <3>1. swap'.on /\ ~swap'.late
        BY <2>2 DEF BeginSwap
      <3>2. Swapping'
        BY <1>0, <1>1, <3>1 DEF Swapping, Closed, NoSaves
      <3> QED
        BY <3>1, <3>2 DEF InOrder
    <2> QED
      BY <1>1, <2>1, <2>2
  <1>2. ~Resting
    BY <1>0 DEF Resting, Closed
  <1>3. CASE Choosing
    <2>1. PICK mode \in Modes : modes = {mode} /\ picker = mode /\ fetches = 0
      BY <1>0, <1>3 DEF Choosing, Closed
    <2>2. login = "none" /\ setup = 0 /\ scans = {} /\ NoSaves
      BY <1>3 DEF Choosing
    <2>3. Route(a) = mode
      BY <1>0, <2>1, <2>2 DEF Route, Modes, Single
    <2>4. ToModel(a) \/ ToSkill(a) \/ ToScope(a)
      BY <1>a, <2>1, <2>3 DEF Modes
    <2>5. /\ login' = "none" /\ setup' = 0 /\ picker' = "none" /\ modes' = {} /\ fetches' = 0
          /\ scans' = {} /\ saves' = saves /\ (swap' = swap \/ BeginSwap)
          /\ UNCHANGED <<key, findings, selected>>
      <3>1. CASE mode = "model"
        BY <1>a, <2>1, <2>2, <2>3, <3>1 DEF ToModel
      <3>2. CASE mode = "skill"
        BY <1>a, <2>1, <2>2, <2>3, <3>2 DEF ToSkill
      <3>3. CASE mode = "scope"
        BY <1>a, <2>1, <2>2, <2>3, <3>3 DEF ToScope
      <3> QED
        BY <3>1, <3>2, <3>3 DEF Modes
    <2> QED
      BY <1>1, <1>a, <2>2, <2>5
  <1>4. CASE LoggingIn
    <2>1. /\ modes = {} /\ setup = 0 /\ scans = {} /\ fetches = 0 /\ NoSaves
          /\ \/ login = "provider" /\ picker = "provider"
             \/ login = "model" /\ picker = "loginModel"
      BY <1>0, <1>4 DEF LoggingIn, Closed
    <2>2. ToLogin(a)
      BY <1>0, <1>a, <2>1 DEF Route, Single
    <2>3. /\ UNCHANGED <<modes, setup, scans, fetches, saves, findings, selected>>
          /\ IF a.keys = "cancel" THEN LoginCancels ELSE LoginStep(picker)
      BY <1>0, <2>2 DEF ToLogin
    <2>4. CASE a.keys = "cancel"
      <3>1. login' = "none" /\ picker' = "none" /\ UNCHANGED <<swap, key>>
        BY <2>3, <2>4 DEF LoginCancels
      <3> QED
        BY <1>1, <1>a, <2>1, <2>3, <3>1
    <2>5. CASE a.keys # "cancel" /\ login = "provider"
      <3>1. login' = "key" /\ picker' = "none" /\ UNCHANGED <<swap, key>>
        BY <2>1, <2>3, <2>5 DEF LoginStep, ProviderStep, KeyStep, ModelStep
      <3>2. LoggingIn'
        BY <1>0, <2>1, <2>3, <3>1 DEF LoggingIn, Closed, NoSaves
      <3> QED
        BY <1>0, <1>a, <2>3, <3>1, <3>2 DEF InOrder
    <2>6. CASE a.keys # "cancel" /\ login = "model"
      <3>1. login' = "none" /\ picker' = "none" /\ (BeginSwap \/ UNCHANGED swap) /\ UNCHANGED key
        BY <2>1, <2>3, <2>6 DEF LoginStep, ProviderStep, KeyStep, ModelStep
      <3> QED
        BY <1>1, <1>a, <2>1, <2>3, <3>1
    <2> QED
      BY <2>1, <2>4, <2>5, <2>6
  <1>5. CASE SettingUp
    <2>1. /\ modes = {} /\ login = "none" /\ setup # 0 /\ fetches = 0
          /\ \/ step[setup] = "contexts" /\ picker = "contexts" /\ scans = {} /\ NoSaves
             \/ /\ step[setup] = "findings" /\ picker = "kinds" /\ selected[setup]
                /\ scans = {} /\ NoSaves
      BY <1>0, <1>5 DEF SettingUp, Closed
    <2>2. setup \in Chats
      BY <2>1, FlowsAssumption DEF FlowsTyped, FlowsTypeOK, Chats
    <2>3. ToSetup(a)
      <3>1. picker \notin Single
        BY <2>1 DEF Single
      <3> QED
        BY <1>0, <1>a, <2>1, <3>1 DEF Route
    <2>4. UNCHANGED <<modes, login, fetches, swap, key>>
      BY <2>3 DEF ToSetup
    <2>5. CASE SetupGivesUp(a.keys)
      <3>1. setup' = 0 /\ picker' = "none" /\ UNCHANGED <<chatVars, scans, saves>>
        BY <2>5 DEF SetupGivesUp
      <3> QED
        BY <1>1, <1>a, <2>1, <2>4, <3>1
    <2>6. CASE SetupAsksAgain(a.keys)
      <3>1. step[setup] = "contexts" /\ picker' = "contexts" /\ UNCHANGED <<setup, chatVars, scans, saves>>
        BY <2>6 DEF SetupAsksAgain
      <3>2. SettingUp'
        BY <1>0, <2>1, <2>4, <3>1 DEF SettingUp, AnswerFits, NoSaves
      <3> QED
        BY <1>0, <1>a, <2>4, <3>1, <3>2 DEF InOrder
    <2>7. CASE SetupScans(a.keys)
      <3>1. /\ selected' = [selected EXCEPT ![setup] = TRUE]
            /\ step' = [step EXCEPT ![setup] = "scanning"]
            /\ scans' = scans \cup {setup} /\ picker' = "none"
            /\ UNCHANGED <<setup, findings, saves>>
        BY <2>7 DEF SetupScans, Scanning
      <3>2. /\ selected'[setup] /\ step'[setup] = "scanning" /\ scans' = {setup}
            /\ \A c \in Chats : selected[c] => selected'[c]
        BY <2>1, <2>2, <3>1 DEF FlowsTyped, FlowsTypeOK
      <3>3. SettingUp'
        BY <1>0, <2>1, <2>4, <3>1, <3>2 DEF SettingUp, Closed, NoSaves
      <3> QED
        BY <1>0, <1>a, <2>4, <3>1, <3>2, <3>3 DEF InOrder
    <2>8. CASE SetupSaves(a.keys)
      <3>1. /\ step[setup] = "findings" /\ step' = [step EXCEPT ![setup] = "done"]
            /\ StartSave(setup) /\ picker' = "none"
            /\ UNCHANGED <<setup, selected, findings, scans>>
        BY <2>8 DEF SetupSaves
      <3>2. step'[setup] = "done"
        BY <2>2, <3>1 DEF FlowsTyped, FlowsTypeOK
      <3>3. SettingUp'
        BY <1>0, <2>1, <2>4, <3>1, <3>2 DEF SettingUp, Closed
      <3> QED
        BY <1>0, <1>a, <2>1, <2>2, <2>4, <3>1, <3>3 DEF InOrder
    <2> QED
      BY <2>3, <2>5, <2>6, <2>7, <2>8 DEF ToSetup
  <1> QED
    BY <1>0, <1>2, <1>3, <1>4, <1>5 DEF InOrder

LEMMA OrderIsKept ==
  ASSUME FlowsTyped, FlowsTyped', patient, InOrder, FlowsNext
  PROVE  InOrder' /\ (key' = key \/ key' = "pasted")
  <1> USE DEF uiVars, chatVars, jobVars, outVars
  <1>1. ASSUME \/ PickMode("model") \/ PickMode("skill") \/ PickScope \/ Login
               \/ \E c \in Chats : Setup(c)
        PROVE  InOrder' /\ key' = key
    <2>1. key' = key
      BY <1>1 DEF PickMode, PickScope, Login, Setup
    <2> QED
      BY <1>1, <2>1, OrderOfCommands
  <1>2. ASSUME NEW keys \in Picks, Press(keys) PROVE InOrder' /\ key' = key
    <2>1. key' = key
      BY <1>2 DEF Press
    <2> QED
      BY <1>2, <2>1, OrderOfKeys
  <1>3. ~Dismiss
    BY DEF Dismiss
  <1>4. ASSUME Escape \/ \E line \in {"named", "pasted", "cancel"} : Type(line)
        PROVE  InOrder' /\ (key' = key \/ key' = "pasted")
    BY <1>4, OrderOfTyping
  <1>5. ASSUME NEW c \in Chats, NEW hit \in BOOLEAN, ScanDone(c, hit)
        PROVE  InOrder' /\ key' = key
    <2>1. key' = key
      BY <1>5 DEF ScanDone
    <2> QED
      BY <1>5, <2>1, OrderOfScans
  <1>6. ASSUME NEW names \in BOOLEAN, Namespaces(names) PROVE InOrder' /\ key' = key
    <2>1. key' = key
      BY <1>6 DEF Namespaces
    <2> QED
      BY <1>6, <2>1, OrderOfNamespaces
  <1>7. ASSUME NEW n \in 1..MaxSaves, SaveMoves(n) PROVE InOrder' /\ key' = key
    BY <1>7, OrderOfSaves
  <1>8. ASSUME NEW i \in DOMAIN answers, Answer(i) PROVE InOrder' /\ key' = key
    BY <1>8, OrderOfAnswers
  <1> QED
    BY <1>1, <1>2, <1>3, <1>4, <1>5, <1>6, <1>7, <1>8, OrderOfSwaps DEF FlowsNext, SaveMoves

\* What happens to the saves, but for a step of a save and for EndSwap.
LEMMA SavesBegin ==
  ASSUME FlowsTyped, FlowsTyped', patient, InOrder, SavesFit, FlowsNext,
         ~EndSwap, \A n \in 1..MaxSaves : ~SaveMoves(n)
  PROVE  /\ UNCHANGED <<config, wired>>
         /\ \A c \in Chats : findings'[c] \in {0, c}
         /\ \A c \in Chats : selected[c] => selected'[c]
         /\ saves' = saves \/ (StartSave(setup) /\ setup \in Chats /\ NoSaves /\ selected'[setup])
  <1> USE DEF uiVars, chatVars, jobVars, outVars
  <1>1. ASSUME NEW i \in DOMAIN answers, Answer(i)
        PROVE  /\ UNCHANGED <<config, wired, findings>>
               /\ \A c \in Chats : selected[c] => selected'[c]
               /\ saves' = saves \/ (StartSave(setup) /\ setup \in Chats /\ NoSaves /\ selected'[setup])
    BY <1>1, OrderOfAnswers
  <1>2. ASSUME NEW c \in Chats, NEW hit \in BOOLEAN, ScanDone(c, hit)
        PROVE  /\ UNCHANGED <<config, wired>>
               /\ \A d \in Chats : findings'[d] \in {0, d}
               /\ \A d \in Chats : selected[d] => selected'[d]
               /\ saves' = saves \/ (StartSave(setup) /\ setup \in Chats /\ NoSaves /\ selected'[setup])
    <2>1. UNCHANGED <<config, wired>> /\ (saves' = saves \/ StartSave(setup))
      BY <1>2 DEF ScanDone
    <2>2. /\ NoSaves /\ UNCHANGED selected
          /\ setup = 0 => UNCHANGED <<findings, saves>>
          /\ setup # 0 => setup = c /\ selected[c]
                          /\ findings' = [findings EXCEPT ![c] = IF hit THEN c ELSE 0]
      BY <1>2, OrderOfScans
    <2>3. \A d \in Chats : findings'[d] \in {0, d}
      <3>1. CASE setup = 0
        BY <2>2, <3>1 DEF SavesFit
      <3>2. CASE setup # 0
        <4>1. /\ findings' = [findings EXCEPT ![c] = IF hit THEN c ELSE 0]
              /\ findings \in [Chats -> 0..MaxChats]
          BY <2>2, <3>2 DEF FlowsTyped, FlowsTypeOK
        <4> QED
          BY <4>1 DEF SavesFit
      <3> QED
        BY <3>1, <3>2
    <2>4. setup = 0 => saves' = saves
      BY <2>2
    <2>5. setup # 0 => setup \in Chats /\ selected'[setup]
      BY <2>2
    <2>6. \A d \in Chats : selected[d] => selected'[d]
      BY <2>2
    <2> QED
      BY <2>1, <2>2, <2>3, <2>4, <2>5, <2>6
  <1>3. ASSUME NEW line \in {"named", "pasted", "cancel"}, Type(line)
        PROVE  UNCHANGED <<config, wired, findings, selected, saves>>
    BY <1>3 DEF Type
  <1>4. ASSUME NEW c \in Chats, Setup(c)
        PROVE  UNCHANGED <<config, wired, findings, selected, saves>>
    BY <1>4 DEF Setup
  <1>5. ASSUME NEW keys \in Picks, Press(keys)
        PROVE  UNCHANGED <<config, wired, findings, selected, saves>>
    BY <1>5 DEF Press
  <1>6. ASSUME NEW names \in BOOLEAN, Namespaces(names)
        PROVE  UNCHANGED <<config, wired, findings, selected, saves>>
    BY <1>6 DEF Namespaces
  <1>7. ASSUME PickMode("model") \/ PickMode("skill") \/ PickScope \/ Login \/ Dismiss \/ Escape
        PROVE  UNCHANGED <<config, wired, findings, selected, saves>>
    BY <1>7 DEF PickMode, PickScope, Login, Dismiss, Escape
  <1>8. ASSUME UNCHANGED <<findings, selected>>
        PROVE  /\ \A c \in Chats : findings'[c] \in {0, c}
               /\ \A c \in Chats : selected[c] => selected'[c]
    BY <1>8 DEF SavesFit
  <1> QED
    BY <1>1, <1>2, <1>3, <1>4, <1>5, <1>6, <1>7, <1>8 DEF FlowsNext, SaveMoves, SavesFit

\* The conjuncts of Orderly about the saves and the files.
FilesFit == SavesFit /\ SavedFits /\ WiredIsSaved

LEMMA FilesStayFit ==
  ASSUME FlowsTyped, FlowsTyped', patient, patient', InOrder, ReadsAreFresh, FilesFit, FlowsNext
  PROVE  FilesFit'
  <1>0. /\ saves \in [1..MaxSaves -> Saves]
        /\ SavesFit /\ config.contexts # Nothing
        /\ config.backends \in {Before, Nothing, config.contexts}
        /\ MaxChats \in Nat
    BY FlowsAssumption DEF FlowsTyped, FlowsTypeOK, FilesFit, SavedFits
  <1>1. CASE EndSwap
    <2>1. /\ NoSaves /\ ~swap.late /\ UNCHANGED <<selected, findings, wired>>
          /\ \A n \in 1..MaxSaves : saves'[n].stage = "off"
      BY <1>1, OrderOfSwaps
    <2>2. config' = [config EXCEPT !.model = "new"]
      BY <1>1, <2>1 DEF EndSwap, ReadsAreFresh
    <2>3. config'.contexts = config.contexts /\ config'.backends = config.backends
      BY <2>2 DEF FlowsTyped, FlowsTypeOK, Configs
    <2>4. SavesFit'
      BY <1>0, <2>1 DEF SavesFit
    <2>5. wired = [contexts |-> config.contexts, backends |-> config.backends]
      BY <2>1 DEF FilesFit, WiredIsSaved, NoSaves
    <2> QED
      BY <1>0, <2>1, <2>3, <2>4, <2>5 DEF FilesFit, SavedFits, WiredIsSaved
  <1>2. ASSUME NEW n \in 1..MaxSaves, SaveMoves(n) PROVE FilesFit'
    <2> DEFINE c == saves[n].chat
    <2>1. /\ saves[n].stage # "off" /\ c \in Chats /\ selected[c] /\ findings[c] \in {0, c}
          /\ \A m \in 1..MaxSaves : m # n => saves[m].stage = "off"
      <3>1. saves[n].stage # "off"
        BY <1>2 DEF SaveMoves, SaveLoads, SaveWrites, SaveWires, SaveFails, SaveDone, At
      <3>2. c \in Chats
        BY <1>0, <3>1 DEF FlowsTyped, Counted, Saves, Chats
      <3> QED
        BY <1>0, <3>1, <3>2 DEF SavesFit
    <2>2. UNCHANGED <<selected, findings>>
      BY <1>2, OrderOfSaves
    <2>3. \A m \in 1..MaxSaves : m # n => saves'[m].stage = "off"
      BY <1>2, <2>1, SaveMoved
    <2>4. c # Nothing
      BY <1>0, <2>1 DEF Chats, Nothing
    <2>5. saves[n].stage \in {"write", "wire"} =>
            saves[n].cfg.contexts = c /\ saves[n].cfg.backends \in {Nothing, c}
      BY <1>0 DEF SavesFit
    <2>6. saves[n].stage # "wire" =>
            wired = [contexts |-> config.contexts, backends |-> config.backends]
      BY <2>1 DEF FilesFit, WiredIsSaved
    <2> HIDE DEF c
    <2>7. CASE SaveLoads(n)
      <3>1. /\ saves[n].stage = "load" /\ saves'[n].stage = "write"
            /\ saves'[n].chat = c /\ config' = config
        BY <1>2, <2>7, SaveMoved DEF c, SaveLoads, outVars
      <3>2. saves'[n].cfg.contexts = c /\ saves'[n].cfg.backends \in {Nothing, c}
        <4>1. /\ saves'[n].cfg.contexts = IF selected[c] THEN c ELSE Nothing
              /\ saves'[n].cfg.backends \in {Nothing, findings[c]}
              /\ findings[c] = 0 => saves'[n].cfg.backends = Nothing
          BY <1>2, <2>7, SaveMoved DEF c
        <4> QED
          BY <2>1, <4>1
      <3>3. wired' = wired
        BY <2>7 DEF SaveLoads, outVars
      <3>4. SavesFit'
        BY <1>0, <2>1, <2>2, <2>3, <3>1, <3>2 DEF SavesFit
      <3> QED
        BY <1>0, <2>6, <3>1, <3>3, <3>4 DEF FilesFit, SavedFits, WiredIsSaved
    <2>8. CASE SaveWrites(n)
      <3>1. /\ saves[n].stage = "write" /\ saves'[n].stage = "wire"
            /\ config' = saves[n].cfg /\ saves'[n].cfg = saves[n].cfg
            /\ saves'[n].chat = c
        BY <1>2, <2>8, SaveMoved DEF c
      <3>2. SavesFit'
        BY <1>0, <2>1, <2>2, <2>3, <2>5, <3>1 DEF SavesFit
      <3>3. config'.contexts = c /\ config'.backends \in {Nothing, c}
        BY <2>5, <3>1
      <3> QED
        BY <2>4, <3>1, <3>2, <3>3 DEF FilesFit, SavedFits, WiredIsSaved
    <2>9. CASE SaveWires(n)
      <3>1. /\ saves[n].stage = "wire" /\ saves'[n].stage = "tell"
            /\ saves'[n].chat = c /\ config' = config
        BY <1>2, <2>9, SaveMoved DEF c, SaveWires
      <3>2. wired' = [contexts |-> config.contexts, backends |-> config.backends]
        BY <1>0, <2>9, <3>1 DEF SaveWires, SavesFit
      <3>3. SavesFit'
        BY <1>0, <2>1, <2>2, <2>3, <3>1 DEF SavesFit
      <3> QED
        BY <1>0, <3>1, <3>2, <3>3 DEF FilesFit, SavedFits, WiredIsSaved
    <2>10. CASE SaveFails(n) \/ SaveDone(n)
      <3>1. /\ saves[n].stage # "wire" /\ config' = config /\ wired' = wired
            /\ saves'[n].stage = "off" \/ (saves'[n].stage = "tell" /\ saves'[n].chat = c)
        BY <1>2, <2>10, SaveMoved DEF c, SaveFails, SaveDone, outVars
      <3>2. SavesFit'
        BY <1>0, <2>1, <2>2, <2>3, <3>1 DEF SavesFit
      <3> QED
        BY <1>0, <2>6, <3>1, <3>2 DEF FilesFit, SavedFits, WiredIsSaved
    <2> QED
      BY <1>2, <2>7, <2>8, <2>9, <2>10 DEF SaveMoves
  <1>3. CASE ~EndSwap /\ \A n \in 1..MaxSaves : ~SaveMoves(n)
    <2>1. /\ UNCHANGED <<config, wired>>
          /\ \A c \in Chats : findings'[c] \in {0, c}
          /\ \A c \in Chats : selected[c] => selected'[c]
          /\ saves' = saves \/ (StartSave(setup) /\ setup \in Chats /\ NoSaves /\ selected'[setup])
      BY <1>0, <1>3, SavesBegin
    <2>2. SavesFit' /\ \A n \in 1..MaxSaves : saves'[n].stage = "wire" <=> saves[n].stage = "wire"
      <3>1. CASE saves' = saves
        <4>1. \A n \in 1..MaxSaves : saves[n].stage # "off" => saves[n].chat \in Chats
          BY <1>0 DEF FlowsTyped, Counted, Saves, Chats
        <4> QED
          BY <1>0, <2>1, <3>1, <4>1 DEF SavesFit
      <3>2. CASE StartSave(setup) /\ NoSaves /\ selected'[setup]
        <4>1. PICK n \in 1..MaxSaves :
                /\ saves'[n].stage = "load" /\ saves'[n].chat = setup
                /\ \A m \in 1..MaxSaves : m # n => saves'[m] = saves[m]
          BY <1>0, <3>2, StartedSave
        <4> QED
          BY <2>1, <3>2, <4>1 DEF SavesFit, NoSaves
      <3> QED
        BY <2>1, <3>1, <3>2
    <2> QED
      BY <1>0, <2>1, <2>2 DEF FilesFit, SavedFits, WiredIsSaved
  <1> QED
    BY <1>1, <1>2, <1>3

LEMMA FlowsStep == FlowsInv /\ [FlowsNext]_flowVars => FlowsInv'
  <1> SUFFICES ASSUME FlowsInv, [FlowsNext]_flowVars PROVE FlowsInv'
    OBVIOUS
  <1>1. CASE FlowsNext
    <2>1. FlowsTyped /\ ReadsAreFresh /\ Orderly
      BY DEF FlowsInv, FlowsTyped
    <2>2. FlowsTyped'
      BY <1>1, <2>1, FlowsTypesKept
    <2>3. ReadsAreFresh'
      BY <1>1, <2>1, <2>2, ReadsStayFresh
    <2>4. patient' = patient
      BY <1>1
         DEF FlowsNext, PickMode, PickScope, Login, Setup, Press, Dismiss, Escape, Type, Answer,
             EndSwap, ScanDone, SaveLoads, SaveWrites, SaveWires, SaveFails, SaveDone, Namespaces
    <2>5. Orderly'
      <3>1. SUFFICES ASSUME patient, patient'
                     PROVE  InOrder' /\ key' # "answer" /\ FilesFit'
        BY <2>4 DEF Orderly, FilesFit
      <3>2. InOrder /\ key # "answer" /\ FilesFit
        BY <2>1, <3>1 DEF Orderly, FilesFit
      <3>3. InOrder' /\ (key' = key \/ key' = "pasted")
        BY <1>1, <2>1, <2>2, <3>1, <3>2, OrderIsKept
      <3>4. FilesFit'
        BY <1>1, <2>1, <2>2, <3>1, <3>2, FilesStayFit
      <3> QED
        BY <3>2, <3>3, <3>4
    <2> QED
      BY <2>2, <2>3, <2>5 DEF FlowsInv, FlowsTyped
  <1>2. CASE UNCHANGED flowVars
    <2>1. UNCHANGED <<patient, commands, picker, answers, modes, login, setup, step, selected,
                      findings, kinds, scans, fetches, saves, swap, config, wired, key, scope>>
      BY <1>2 DEF flowVars, uiVars, chatVars, jobVars, outVars
    <2>2. FlowsTypeOK' /\ Counted'
      BY <2>1 DEF FlowsInv, FlowsTypeOK, Counted
    <2>3. ReadsAreFresh'
      BY <2>1 DEF FlowsInv, ReadsAreFresh
    <2>4. Orderly'
      BY <2>1
         DEF FlowsInv, Orderly, InOrder, Swapping, Resting, Choosing, LoggingIn, SettingUp, Closed,
             NoSaves, AnswerFits, SavesFit, SavedFits, WiredIsSaved
    <2> QED
      BY <2>2, <2>3, <2>4 DEF FlowsInv
  <1> QED
    BY <1>1, <1>2

LEMMA OrderlyDialogues == FlowsInv => DialoguesKept
  <1> SUFFICES ASSUME FlowsInv PROVE DialoguesKept
    OBVIOUS
  <1>1. FlowsTypeOK /\ (patient => InOrder /\ key # "answer" /\ SavedFits /\ WiredIsSaved)
    BY DEF FlowsInv, Orderly
  <1>2. SavedFits /\ WiredIsSaved /\ PatientKeyIsPasted
    BY <1>1 DEF SavedFits, WiredIsSaved, PatientKeyIsPasted, KeyIsPasted
  <1>3. PickerOnScreen
    <2>1. SUFFICES ASSUME patient, setup # 0
                   PROVE  /\ step[setup] = "contexts" => picker = "contexts"
                          /\ step[setup] = "findings" => picker = "kinds"
      BY DEF PickerOnScreen
    <2>2. SettingUp
      BY <1>1, <2>1 DEF InOrder, Swapping, Resting, Choosing, LoggingIn
    <2> QED
      BY <2>2 DEF SettingUp
  <1>4. AnswersHome
    <2>1. SUFFICES ASSUME patient, NEW i \in DOMAIN answers
                   PROVE  Route(answers[i]) = Home[answers[i].picker]
      BY DEF AnswersHome
    <2>2. answers # <<>>
      BY <1>1 DEF FlowsTypeOK
    <2>3. AnswerFits /\ (Choosing \/ LoggingIn \/ SettingUp) /\ picker # "none"
      BY <1>1, <2>1, <2>2
         DEF InOrder, Swapping, Resting, Choosing, LoggingIn, SettingUp, Closed, Modes
    <2>4. PICK keys \in Picks : answers = <<[picker |-> picker, keys |-> keys]>> /\ picker \in Pickers
      BY <2>2, <2>3 DEF AnswerFits
    <2>5. answers[i].picker = picker
      BY <2>4
    <2>6. Home[picker] = CASE picker \in {"provider", "loginModel"} -> "login"
                           [] picker \in {"contexts", "kinds"}      -> "setup"
                           [] OTHER                                 -> picker
      BY <2>4 DEF Home
    <2> DEFINE a == answers[i]
    <2> HIDE DEF a
    <2>7. a.picker = picker
      BY <2>5 DEF a
    <2>8. CASE Choosing
      <3>1. PICK mode \in Modes : modes = {mode} /\ picker = mode
        BY <2>3, <2>8 DEF Choosing, Closed
      <3>2. Route(a) = mode
        BY <2>7, <2>8, <3>1 DEF Route, Modes, Single, Choosing
      <3>3. Home[picker] = mode
        BY <2>6, <3>1 DEF Modes
      <3> QED
        BY <2>5, <3>1, <3>2, <3>3 DEF a
    <2>9. CASE LoggingIn
      <3>1. picker \in {"provider", "loginModel"} /\ login # "none"
        BY <2>3, <2>9 DEF LoggingIn, Closed
      <3>2. Route(a) = "login"
        BY <2>7, <3>1 DEF Route, Single
      <3> QED
        BY <2>5, <2>6, <3>1, <3>2 DEF a
    <2>10. CASE SettingUp
      <3>1. picker \in {"contexts", "kinds"} /\ modes = {} /\ setup # 0
        BY <2>3, <2>10 DEF SettingUp, Closed
      <3>2. Route(a) = "setup"
        BY <2>7, <3>1 DEF Route, Single
      <3> QED
        BY <2>5, <2>6, <3>1, <3>2 DEF a
    <2> QED
      BY <2>3, <2>8, <2>9, <2>10
  <1> QED
    BY <1>1, <1>2, <1>3, <1>4 DEF DialoguesKept

\* The dialogues of the terminal UI get what is theirs: for a patient operator
\* the answer of a picker reaches the flow that opened it, a /setup that waits
\* has its picker on the screen, what it saves and wires belongs together, and
\* only a pasted text is saved as a key, for any number of chats, commands,
\* scans and saves (ui/tui/app.go, loginchat.go, setupchat.go, run.go).
THEOREM DialoguesAreKept == FlowsSpec => []DialoguesKept
  <1>1. FlowsSpec => []FlowsInv
    BY FlowsStart, FlowsStep, PTL DEF FlowsSpec
  <1> QED
    BY <1>1, OrderlyDialogues, PTL

\* Whoever writes config.yaml keeps what is the other's, unless the other has
\* written since it was read, however hasty the operator is
\* (ui/tui/run.go: SwapModel and persistAndSwap).
THEOREM ConfigIsShared == FlowsSpec => ConfigShared
  <1>1. FlowsSpec => []FlowsInv
    BY FlowsStart, FlowsStep, PTL DEF FlowsSpec
  <1>2. FlowsInv => FlowsTyped /\ ReadsAreFresh
    BY DEF FlowsInv, FlowsTyped
  <1>3. FlowsInv /\ [FlowsNext]_flowVars => [SharedNow]_flowVars
    BY <1>2, StepShares
  <1>4. FlowsSpec => [][SharedNow]_flowVars
    BY <1>1, <1>3, PTL DEF FlowsSpec
  <1> QED
    BY <1>4 DEF ConfigShared, SharedNow

-----------------------------------------------------------------------------
(***************************************************************************)
(* IncidentMemory: the cards, the index and the lock.                      *)
(***************************************************************************)

(***************************************************************************)
(* The cards of a content, and its size.                                   *)
(***************************************************************************)

Dom(map) == {c \in Cards : map[c] # "none"}

LEMMA SizeIsNat ==
  ASSUME NEW map \in CardMaps
  PROVE  IsFiniteSet(Dom(map)) /\ Size(map) \in Nat /\ Size(map) = Cardinality(Dom(map))
  <1>1. IsFiniteSet(Cards) /\ Dom(map) \subseteq Cards
    BY IncidentMemoryAssumption DEF Dom
  <1>2. IsFiniteSet(Dom(map))
    BY <1>1, FS_Subset
  <1> QED
    BY <1>2, FS_CardinalityType DEF Size, Dom

\* A content that has all cards of another one is as large only if it has no
\* others.
LEMMA SizeGrows ==
  ASSUME NEW m \in CardMaps, NEW n \in CardMaps, Dom(m) \subseteq Dom(n)
  PROVE  /\ Size(m) <= Size(n)
         /\ Size(m) = Size(n) => Dom(m) = Dom(n)
  BY SizeIsNat, FS_Subset

LEMMA NoCardsFacts ==
  NoCards \in CardMaps /\ Dom(NoCards) = {} /\ Size(NoCards) = 0
  <1>1. NoCards \in CardMaps /\ Dom(NoCards) = {}
    BY DEF NoCards, CardMaps, Statuses, Dom
  <1> QED
    BY <1>1, SizeIsNat, FS_EmptySet

-----------------------------------------------------------------------------
(***************************************************************************)
(* The inductive invariant.                                                *)
(***************************************************************************)

\* The place of a thread fits the call it is in.
CallFits(t) ==
  /\ pc[t] = "idle" <=> op[t] = "none"
  /\ pc[t] \in {"lock", "rewrite", "store", "unlock"} => op[t] \in {"create", "set"}

\* What load has learnt is no newer than the file.  The file only grows, so
\* that equal sizes mean the same cards, whatever the clock says.
Behind(t) ==
  /\ pc[t] = "open" => stat[t].tick <= file.tick /\ stat[t].size <= Size(file.cards)
  /\ pc[t] = "restat" =>
       /\ stat[t].tick <= file.tick /\ stat[t].size <= Size(cards[t])
       /\ Dom(cards[t]) \subseteq Dom(file.cards)
       /\ repeats = 0 /\ stat[t].tick = file.tick => cards[t] = file.cards

\* So is a cached copy.
CachedCopy(p) ==
  /\ cache[p].tick <= file.tick
  /\ cache[p].size = Size(cache[p].cards)
  /\ Dom(cache[p].cards) \subseteq Dom(file.cards)
  /\ repeats = 0 /\ cache[p].tick = file.tick => cache[p].cards = file.cards

\* The thread with the lock has the cards of the file, and its change.
Holding(t) ==
  holder = t =>
    /\ pc[t] = "restat" => cards[t] = file.cards
    /\ pc[t] = "loaded" => /\ Dom(cards[t]) = Dom(file.cards)
                           /\ repeats = 0 => cards[t] = file.cards
    /\ pc[t] = "rewrite" =>
         /\ Dom(file.cards) \subseteq Dom(cards[t])
         /\ repeats = 0 => /\ deed.card \in Cards
                           /\ cards[t] = [file.cards EXCEPT ![deed.card] = deed.status]
    /\ pc[t] = "store" => cards[t] = file.cards

\* A reader has seen no content older than its call.
Seen(t) ==
  op[t] = "read" =>
    /\ file.cards \in since[t]
    /\ pc[t] = "restat" => cards[t] \in since[t]
    /\ repeats = 0 /\ pc[t] = "loaded" => cards[t] \in since[t]

ThreadInv(t) == CallFits(t) /\ Behind(t) /\ Holding(t) /\ Seen(t)

MemoryInv ==
  /\ MemoryTypeOK
  /\ file.tick = 0 => file.cards = NoCards
  /\ \A p \in Processes : CachedCopy(p)
  /\ \A t \in Threads : ThreadInv(t)

LEMMA FileType ==
  ASSUME MemoryTypeOK
  PROVE  /\ file.tick \in 0..MaxTicks /\ file.tick \in Nat /\ file.cards \in CardMaps
         /\ StateOf(file) \in [tick : 0..MaxTicks, size : Nat]
         /\ StateOf(file).tick = file.tick /\ StateOf(file).size = Size(file.cards)
  <1>1. file.tick \in 0..MaxTicks /\ file.cards \in CardMaps
    BY DEF MemoryTypeOK, Files
  <1> QED
    BY <1>1, SizeIsNat, IncidentMemoryAssumption DEF StateOf

LEMMA EmptyState ==
  /\ StateOf(Empty) \in [tick : 0..MaxTicks, size : Nat]
  /\ Empty \in Files /\ 0 \in 0..MaxTicks
  BY NoCardsFacts, IncidentMemoryAssumption DEF StateOf, Empty, Files

LEMMA MemoryInitially ==
  ASSUME MemoryInit
  PROVE  MemoryInv
  <1>1. MemoryTypeOK
    <2>1. holder \in Threads \cup {Nobody} /\ \A t \in Threads : holder # t
      BY IncidentMemoryAssumption DEF MemoryInit
    <2>2. cache \in [Processes -> [tick : 0..MaxTicks, size : Nat, cards : CardMaps]]
      BY NoCardsFacts, EmptyState DEF MemoryInit
    <2>3. stat \in [Threads -> [tick : 0..MaxTicks, size : Nat]]
      BY EmptyState DEF MemoryInit
    <2>4. deed \in Deeds
      BY DEF MemoryInit, Deeds, NoDeed, Statuses
    <2>5. repeats \in 0..MaxRepeats /\ crashes \in 0..MaxCrashes /\ file \in Files
      BY EmptyState, IncidentMemoryAssumption DEF MemoryInit
    <2>6. /\ pc \in [Threads -> Places] /\ op \in [Threads -> Ops]
          /\ cards \in [Threads -> CardMaps] /\ since \in [Threads -> SUBSET CardMaps]
      BY NoCardsFacts DEF MemoryInit, Places, Ops
    <2> QED
      BY <2>1, <2>2, <2>3, <2>4, <2>5, <2>6 DEF MemoryTypeOK, MemoryInit
  <1>2. \A p \in Processes : CachedCopy(p)
    BY NoCardsFacts DEF MemoryInit, CachedCopy, Empty
  <1>3. \A t \in Threads : ThreadInv(t)
    BY DEF MemoryInit, ThreadInv, CallFits, Behind, Holding, Seen
  <1> QED
    BY <1>1, <1>2, <1>3 DEF MemoryInv, MemoryInit, Empty

-----------------------------------------------------------------------------
(***************************************************************************)
(* Steps of one thread that leave the file alone.                          *)
(***************************************************************************)

LEMMA LocalStep ==
  ASSUME MemoryInv, NEW t \in Threads, MemoryTypeOK', UNCHANGED <<file, repeats>>,
         \A u \in Threads \ {t} :
           /\ pc'[u] = pc[u] /\ op'[u] = op[u] /\ stat'[u] = stat[u]
           /\ cards'[u] = cards[u] /\ since'[u] = since[u]
           /\ holder' = u => holder = u /\ deed' = deed,
         \A p \in Processes : CachedCopy(p)',
         ThreadInv(t)'
  PROVE  MemoryInv'
  <1>1. ASSUME NEW u \in Threads \ {t}
        PROVE  ThreadInv(u)'
    BY <1>1 DEF MemoryInv, ThreadInv, CallFits, Behind, Holding, Seen
  <1> QED
    BY <1>1 DEF MemoryInv

LEMMA CacheStays ==
  ASSUME MemoryInv, UNCHANGED <<file, repeats, cache>>
  PROVE  \A p \in Processes : CachedCopy(p)'
  BY DEF MemoryInv, CachedCopy

\* A call is over, for whatever reason.
LEMMA ForgetStep ==
  ASSUME MemoryInv, NEW t \in Threads, Forget(t), holder' \in {holder, Nobody}, holder' # t,
         UNCHANGED <<file, repeats, crashes, cache>>,
         \/ deed' = deed /\ holder' = holder
         \/ deed' = NoDeed /\ holder = t
  PROVE  MemoryInv'
  <1> USE DEF MemoryInv
  <1>1. /\ pc' = [pc EXCEPT ![t] = "idle"] /\ op' = [op EXCEPT ![t] = "none"]
        /\ stat' = [stat EXCEPT ![t] = StateOf(Empty)]
        /\ cards' = [cards EXCEPT ![t] = NoCards] /\ since' = [since EXCEPT ![t] = {}]
    BY DEF Forget, Goto
  <1>2. MemoryTypeOK'
    <2>1. deed' \in Deeds
      BY DEF MemoryTypeOK, Deeds, NoDeed, Statuses
    <2>2. /\ pc' \in [Threads -> Places] /\ op' \in [Threads -> Ops]
          /\ stat' \in [Threads -> [tick : 0..MaxTicks, size : Nat]]
          /\ cards' \in [Threads -> CardMaps] /\ since' \in [Threads -> SUBSET CardMaps]
      BY <1>1, EmptyState, NoCardsFacts DEF MemoryTypeOK, Places, Ops
    <2>3. ASSUME NEW u \in Threads
          PROVE  holder' = u <=> op'[u] \in {"create", "set"} /\ pc'[u] \notin {"idle", "lock"}
      <3>1. Nobody # u
        BY IncidentMemoryAssumption
      <3>2. CASE u = t
        BY <1>1, <3>2 DEF MemoryTypeOK
      <3>3. CASE u # t
        BY <1>1, <3>1, <3>3 DEF MemoryTypeOK
      <3> QED
        BY <3>2, <3>3
    <2> QED
      BY <2>1, <2>2, <2>3 DEF MemoryTypeOK
  <1>3. ThreadInv(t)'
    BY <1>1 DEF MemoryTypeOK, ThreadInv, CallFits, Behind, Holding, Seen
  <1>4. \A u \in Threads \ {t} :
          /\ pc'[u] = pc[u] /\ op'[u] = op[u] /\ stat'[u] = stat[u]
          /\ cards'[u] = cards[u] /\ since'[u] = since[u]
          /\ holder' = u => holder = u /\ deed' = deed
    BY <1>1, IncidentMemoryAssumption DEF MemoryTypeOK
  <1> QED
    BY <1>2, <1>3, <1>4, CacheStays, LocalStep

LEMMA CallsEnd ==
  ASSUME MemoryInv, NEW t \in Threads, LockFails(t) \/ ReadReturns(t) \/ Unlock(t)
  PROVE  MemoryInv'
  <1>1. holder # t \/ Unlock(t)
    BY DEF MemoryInv, MemoryTypeOK, LockFails, ReadReturns
  <1>2. Unlock(t) => holder = t /\ holder' = Nobody /\ Nobody # t
    BY IncidentMemoryAssumption
       DEF MemoryInv, MemoryTypeOK, ThreadInv, CallFits, Unlock
  <1> QED
    BY <1>1, <1>2, ForgetStep DEF LockFails, ReadReturns, Unlock, keptVars

LEMMA CallsBegin ==
  ASSUME MemoryInv, NEW t \in Threads,
         \/ Read(t) \/ Lock(t) \/ \E what \in {"create", "set"} : Write(t, what)
  PROVE  MemoryInv'
  <1> USE DEF MemoryInv
  <1>1. CASE Read(t)
    <2>1. holder # t /\ file.cards \in CardMaps
      BY <1>1, FileType DEF Read, MemoryTypeOK
    <2>2. MemoryTypeOK'
      BY <1>1, <2>1 DEF Read, Goto, MemoryTypeOK, keptVars, Places, Ops
    <2>3. ThreadInv(t)'
      BY <1>1, <2>1 DEF Read, Goto, MemoryTypeOK, ThreadInv, CallFits, Behind, Holding, Seen
    <2> QED
      BY <1>1, <2>2, <2>3, CacheStays, LocalStep DEF Read, Goto, MemoryTypeOK, keptVars
  <1>2. CASE Lock(t)
    <2>1. op[t] \in {"create", "set"}
      BY <1>2 DEF Lock, ThreadInv, CallFits
    <2>2. MemoryTypeOK'
      <3>1. ASSUME NEW u \in Threads
            PROVE  holder' = u <=> op'[u] \in {"create", "set"} /\ pc'[u] \notin {"idle", "lock"}
        BY <1>2, <2>1, IncidentMemoryAssumption DEF Lock, Goto, MemoryTypeOK
      <3> QED
        BY <1>2, <3>1 DEF Lock, Goto, MemoryTypeOK, keptVars, Places
    <2>3. ThreadInv(t)'
      BY <1>2, <2>1 DEF Lock, Goto, MemoryTypeOK, ThreadInv, CallFits, Behind, Holding, Seen
    <2> QED
      BY <1>2, <2>2, <2>3, CacheStays, LocalStep DEF Lock, Goto, MemoryTypeOK, keptVars
  <1>3. ASSUME NEW what \in {"create", "set"}, Write(t, what)
        PROVE  MemoryInv'
    <2>1. holder # t
      BY <1>3 DEF Write, MemoryTypeOK
    <2>2. MemoryTypeOK'
      BY <1>3, <2>1 DEF Write, Goto, MemoryTypeOK, keptVars, Places, Ops
    <2>3. ThreadInv(t)'
      BY <1>3, <2>1 DEF Write, Goto, MemoryTypeOK, ThreadInv, CallFits, Behind, Holding, Seen
    <2> QED
      BY <1>3, <2>2, <2>3, CacheStays, LocalStep DEF Write, Goto, MemoryTypeOK, keptVars
  <1> QED
    BY <1>1, <1>2, <1>3

-----------------------------------------------------------------------------
(***************************************************************************)
(* load                                                                    *)
(***************************************************************************)

\* A cached copy with the state of the file has the cards of the file.
LEMMA ServedCopy ==
  ASSUME MemoryInv, NEW p \in Processes, CacheServes(p)
  PROVE  /\ cache[p].cards \in CardMaps
         /\ Dom(cache[p].cards) = Dom(file.cards)
         /\ repeats = 0 => cache[p].cards = file.cards
  <1>1. cache[p].cards \in CardMaps /\ file.cards \in CardMaps
    BY FileType DEF MemoryInv, MemoryTypeOK
  <1>2. CachedCopy(p)
    BY DEF MemoryInv
  <1> QED
    BY <1>1, <1>2, SizeGrows DEF CachedCopy, CacheServes

LEMMA LoadStatStep ==
  ASSUME MemoryInv, NEW t \in Threads, LoadStat(t)
  PROVE  MemoryInv'
  <1> USE DEF MemoryInv
  <1>1. CASE Goto(t, "loaded")
    <2> DEFINE p == ProcessOf[t]
    <2>1. PICK map \in CardMaps :
            /\ cards' = [cards EXCEPT ![t] = map]
            /\ Dom(map) = Dom(file.cards)
            /\ repeats = 0 => map = file.cards
      <3>1. CASE file.tick = 0
        BY <3>1, <1>1, NoCardsFacts DEF LoadStat
      <3>2. CASE file.tick # 0
        <4>1. pc'[t] = "loaded"
          BY <1>1 DEF Goto, MemoryTypeOK
        <4>2. p \in Processes
          BY IncidentMemoryAssumption
        <4>3. CacheServes(p) /\ cards' = [cards EXCEPT ![t] = cache[p].cards]
          BY <3>2, <4>1 DEF LoadStat, Goto, MemoryTypeOK
        <4> QED
          BY <4>2, <4>3, ServedCopy
      <3> QED
        BY <3>1, <3>2
    <2>2. /\ pc[t] = "stat" /\ pc' = [pc EXCEPT ![t] = "loaded"]
          /\ UNCHANGED <<keptVars, file, holder, cache, op, stat, since, deed>>
      <3>1. pc'[t] = "loaded"
        BY <1>1 DEF Goto, MemoryTypeOK
      <3> QED
        BY <1>1, <3>1 DEF LoadStat, Goto, MemoryTypeOK
    <2>3. MemoryTypeOK'
      BY <2>1, <2>2 DEF MemoryTypeOK, keptVars, Places
    <2>4. cards'[t] = map
      BY <2>1 DEF MemoryTypeOK
    <2>5. ThreadInv(t)'
      BY <2>1, <2>2, <2>4 DEF MemoryTypeOK, keptVars, ThreadInv, CallFits, Behind, Holding, Seen
    <2> QED
      BY <2>1, <2>2, <2>3, <2>5, CacheStays, LocalStep DEF MemoryTypeOK, keptVars
  <1>2. CASE Goto(t, "open")
    <2>1. /\ pc[t] = "stat" /\ pc' = [pc EXCEPT ![t] = "open"]
          /\ stat' = [stat EXCEPT ![t] = StateOf(file)]
          /\ UNCHANGED <<keptVars, file, holder, cache, op, cards, since, deed>>
      <3>1. pc'[t] = "open"
        BY <1>2 DEF Goto, MemoryTypeOK
      <3> QED
        BY <1>2, <3>1 DEF LoadStat, Goto, MemoryTypeOK
    <2>2. MemoryTypeOK'
      BY <2>1, FileType DEF MemoryTypeOK, keptVars, Places
    <2>3. stat'[t] = StateOf(file)
      BY <2>1 DEF MemoryTypeOK
    <2>4. Size(file.cards) \in Nat /\ file.tick \in Nat
      BY FileType, SizeIsNat
    <2>5. ThreadInv(t)'
      BY <2>1, <2>3, <2>4, FileType
         DEF MemoryTypeOK, keptVars, ThreadInv, CallFits, Behind, Holding, Seen
    <2> QED
      BY <2>1, <2>2, <2>5, CacheStays, LocalStep DEF MemoryTypeOK, keptVars
  <1> QED
    BY <1>1, <1>2 DEF LoadStat

LEMMA LoadReadStep ==
  ASSUME MemoryInv, NEW t \in Threads, LoadRead(t)
  PROVE  MemoryInv'
  <1> USE DEF MemoryInv
  <1>1. /\ pc[t] = "open" /\ pc' = [pc EXCEPT ![t] = "restat"]
        /\ cards' = [cards EXCEPT ![t] = file.cards]
        /\ UNCHANGED <<keptVars, file, holder, cache, op, stat, since, deed>>
    BY DEF LoadRead, Goto
  <1>2. MemoryTypeOK'
    BY <1>1, FileType DEF MemoryTypeOK, keptVars, Places
  <1>3. cards'[t] = file.cards
    BY <1>1 DEF MemoryTypeOK
  <1>4. ThreadInv(t)'
    BY <1>1, <1>3 DEF MemoryTypeOK, keptVars, ThreadInv, CallFits, Behind, Holding, Seen
  <1> QED
    BY <1>1, <1>2, <1>4, CacheStays, LocalStep DEF MemoryTypeOK, keptVars

LEMMA LoadRestatStep ==
  ASSUME MemoryInv, NEW t \in Threads, LoadRestat(t)
  PROVE  MemoryInv'
  <1> USE DEF MemoryInv
  <1> DEFINE p == ProcessOf[t]
  <1>1. /\ pc[t] = "restat" /\ pc' = [pc EXCEPT ![t] = "loaded"]
        /\ UNCHANGED <<keptVars, file, holder, op, stat, cards, since, deed>>
        /\ cache' = IF stat[t] = StateOf(file)
                    THEN [cache EXCEPT ![p] = [tick |-> stat[t].tick, size |-> stat[t].size,
                                               cards |-> cards[t]]]
                    ELSE cache
    BY DEF LoadRestat, Goto, StoreCachedCards
  <1>2. /\ p \in Processes /\ cards[t] \in CardMaps /\ file.cards \in CardMaps
        /\ stat[t] \in [tick : 0..MaxTicks, size : Nat]
    BY IncidentMemoryAssumption, FileType DEF MemoryTypeOK
  <1>3. Behind(t) /\ Holding(t) /\ Seen(t) /\ CallFits(t)
    BY DEF ThreadInv
  <1>4. MemoryTypeOK'
    <2>1. cache' \in [Processes -> [tick : 0..MaxTicks, size : Nat, cards : CardMaps]]
      BY <1>1, <1>2 DEF MemoryTypeOK
    <2> QED
      BY <1>1, <2>1 DEF MemoryTypeOK, keptVars, Places
  <1>5. \A q \in Processes : CachedCopy(q)'
    <2>1. CASE stat[t] # StateOf(file)
      BY <1>1, <2>1, CacheStays DEF keptVars
    <2>2. ASSUME stat[t] = StateOf(file), NEW q \in Processes
          PROVE  CachedCopy(q)'
      <3>1. CASE q # p
        BY <1>1, <2>2, <3>1 DEF MemoryTypeOK, keptVars, CachedCopy
      <3>2. CASE q = p
        <4>1. cache'[q] = [tick |-> stat[t].tick, size |-> stat[t].size, cards |-> cards[t]]
          BY <1>1, <1>2, <2>2, <3>2 DEF MemoryTypeOK
        <4>2. stat[t].tick = file.tick /\ stat[t].size = Size(file.cards)
          BY <2>2, FileType
        <4>3. /\ stat[t].size <= Size(cards[t]) /\ Dom(cards[t]) \subseteq Dom(file.cards)
              /\ repeats = 0 => cards[t] = file.cards
          BY <1>1, <1>3, <4>2 DEF Behind
        <4>4. Size(cards[t]) = stat[t].size
          BY <1>2, <4>2, <4>3, SizeIsNat, SizeGrows
        <4> QED
          BY <1>1, <4>1, <4>2, <4>3, <4>4, FileType DEF CachedCopy, keptVars
      <3> QED
        BY <3>1, <3>2
    <2> QED
      BY <2>1, <2>2
  <1>6. ThreadInv(t)'
    BY <1>1, <1>3 DEF MemoryTypeOK, keptVars, ThreadInv, CallFits, Behind, Holding, Seen
  <1> QED
    BY <1>1, <1>4, <1>5, <1>6, LocalStep DEF MemoryTypeOK, keptVars

\* A step of the holder that only gives up what it wanted to do.
LEMMA GivesUp ==
  ASSUME MemoryInv, NEW t \in Threads, holder = t, Goto(t, "unlock"),
         UNCHANGED <<keptVars, file, holder, cache, op, stat, cards, since, deed>>
  PROVE  MemoryInv'
  <1> USE DEF MemoryInv
  <1>1. op[t] \in {"create", "set"}
    BY DEF MemoryTypeOK
  <1>2. MemoryTypeOK'
    BY <1>1 DEF Goto, MemoryTypeOK, keptVars, Places
  <1>3. ThreadInv(t)'
    BY <1>1 DEF Goto, MemoryTypeOK, ThreadInv, CallFits, Behind, Holding, Seen
  <1> QED
    BY <1>2, <1>3, CacheStays, LocalStep DEF Goto, MemoryTypeOK, keptVars

LEMMA LoadFailsStep ==
  ASSUME MemoryInv, NEW t \in Threads, LoadFails(t)
  PROVE  MemoryInv'
  <1>1. CASE holder = t
    BY <1>1, GivesUp DEF LoadFails
  <1>2. CASE holder # t
    BY <1>2, ForgetStep DEF LoadFails, keptVars
  <1> QED
    BY <1>1, <1>2

-----------------------------------------------------------------------------
(***************************************************************************)
(* The writes                                                              *)
(***************************************************************************)

LEMMA ChangeSteps ==
  ASSUME MemoryInv, NEW t \in Threads,
         \/ \E c \in Cards : CreateCandidate(t, c)
         \/ \E c \in Cards, s \in {"approved", "rejected"} : SetStatus(t, c, s)
  PROVE  MemoryInv'
  <1> USE DEF MemoryInv
  <1>1. PICK wanted \in BOOLEAN, c \in Cards, s \in Statuses \ {"none"} :
          /\ Change(t, wanted, c, s)
          /\ pc[t] = "loaded" /\ op[t] \in {"create", "set"}
    <2>1. CASE \E c \in Cards : CreateCandidate(t, c)
      BY <2>1 DEF CreateCandidate, Statuses
    <2>2. CASE \E c \in Cards, s \in {"approved", "rejected"} : SetStatus(t, c, s)
      BY <2>2 DEF SetStatus, Statuses
    <2> QED
      BY <2>1, <2>2
  <1>2. holder = t
    BY <1>1 DEF MemoryTypeOK
  <1>3. CASE ~wanted
    BY <1>1, <1>2, <1>3, GivesUp DEF Change
  <1>4. CASE wanted
    <2> DEFINE m == [cards[t] EXCEPT ![c] = s]
    <2>1. /\ cards' = [cards EXCEPT ![t] = m]
          /\ deed' = [card |-> c, status |-> s]
          /\ pc' = [pc EXCEPT ![t] = "rewrite"]
          /\ UNCHANGED <<keptVars, file, holder, cache, op, stat, since>>
      BY <1>1, <1>4 DEF Change, Goto, MemoryTypeOK
    <2>2. /\ cards[t] \in CardMaps /\ m \in CardMaps
          /\ Dom(cards[t]) \subseteq Dom(m)
      BY DEF MemoryTypeOK, CardMaps, Dom
    <2>3. MemoryTypeOK'
      <3>1. deed' \in Deeds
        BY <2>1 DEF Deeds
      <3> QED
        BY <1>1, <2>1, <2>2, <3>1 DEF MemoryTypeOK, keptVars, Places
    <2>4. Holding(t)'
      <3>1. /\ Dom(cards[t]) = Dom(file.cards)
            /\ repeats = 0 => cards[t] = file.cards
        BY <1>1, <1>2 DEF ThreadInv, Holding
      <3>2. cards'[t] = m /\ pc'[t] = "rewrite"
        BY <2>1 DEF MemoryTypeOK
      <3>3. deed'.card = c /\ deed'.status = s
        BY <2>1
      <3> HIDE DEF m
      <3>4. Dom(file.cards) \subseteq Dom(m)
        BY <2>2, <3>1
      <3>5. repeats = 0 => m = [file.cards EXCEPT ![c] = s]
        BY <3>1 DEF m
      <3> QED
        BY <2>1, <3>2, <3>3, <3>4, <3>5 DEF Holding, Dom, keptVars
    <2>5. CallFits(t)' /\ Behind(t)' /\ Seen(t)'
      BY <1>1, <2>1 DEF MemoryTypeOK, ThreadInv, CallFits, Behind, Seen
    <2>6. \A u \in Threads \ {t} : holder # u
      BY <1>2
    <2> QED
      BY <2>1, <2>3, <2>4, <2>5, <2>6, CacheStays, LocalStep DEF MemoryTypeOK, keptVars, ThreadInv
  <1> QED
    BY <1>3, <1>4

\* A rewrite puts the change of the one call that holds the lock into place.
LEMMA RewriteFacts ==
  ASSUME MemoryInv, NEW t \in Threads, Rewrite(t)
  PROVE  /\ holder = t /\ pc[t] = "rewrite" /\ pc' = [pc EXCEPT ![t] = "store"]
         /\ file' = [tick |-> file'.tick, cards |-> cards[t]]
         /\ file'.tick \in 1..MaxTicks /\ file.tick <= file'.tick
         /\ repeats' \in 0..MaxRepeats
         /\ repeats' = 0 => repeats = 0 /\ file.tick < file'.tick
         /\ Dom(file.cards) \subseteq Dom(cards[t])
         /\ cards[t] \in CardMaps
         /\ UNCHANGED <<crashes, holder, cache, op, stat, cards, deed>>
  <1> USE DEF MemoryInv
  <1>1. pc[t] = "rewrite" /\ pc' = [pc EXCEPT ![t] = "store"]
    BY DEF Rewrite, Goto
  <1>2. CallFits(t) /\ Holding(t)
    BY DEF ThreadInv
  <1>3. holder = t
    BY <1>1, <1>2 DEF CallFits, MemoryTypeOK
  <1>4. file.tick \in 0..MaxTicks /\ repeats \in 0..MaxRepeats /\ cards[t] \in CardMaps
    BY FileType DEF MemoryTypeOK
  <1>5. CASE /\ file.tick < MaxTicks
             /\ file' = [tick |-> file.tick + 1, cards |-> cards[t]]
             /\ UNCHANGED repeats
    BY <1>1, <1>2, <1>3, <1>4, <1>5, IncidentMemoryAssumption DEF Rewrite, Holding
  <1>6. CASE /\ file.tick > 0 /\ repeats < MaxRepeats
             /\ file' = [tick |-> file.tick, cards |-> cards[t]]
             /\ repeats' = repeats + 1
    BY <1>1, <1>2, <1>3, <1>4, <1>6, IncidentMemoryAssumption DEF Rewrite, Holding
  <1> QED
    BY <1>5, <1>6 DEF Rewrite

LEMMA RewriteStep ==
  ASSUME MemoryInv, NEW t \in Threads, Rewrite(t)
  PROVE  MemoryInv'
  <1> USE DEF MemoryInv
  <1>1. /\ holder = t /\ pc[t] = "rewrite" /\ pc' = [pc EXCEPT ![t] = "store"]
        /\ file' = [tick |-> file'.tick, cards |-> cards[t]]
        /\ file'.tick \in 1..MaxTicks /\ file.tick <= file'.tick
        /\ repeats' \in 0..MaxRepeats
        /\ repeats' = 0 => repeats = 0 /\ file.tick < file'.tick
        /\ Dom(file.cards) \subseteq Dom(cards[t])
        /\ cards[t] \in CardMaps
        /\ UNCHANGED <<crashes, holder, cache, op, stat, cards, deed>>
    BY RewriteFacts
  <1>2. since' = [u \in Threads |->
                    IF op[u] = "read" THEN since[u] \cup {cards[t]} ELSE since[u]]
    BY DEF Rewrite
  <1>3. file'.cards = cards[t] /\ file' \in Files /\ file.tick \in Nat /\ file.cards \in CardMaps
    BY <1>1, FileType DEF Files
  <1>4. MemoryTypeOK'
    <2>1. since' \in [Threads -> SUBSET CardMaps]
      BY <1>1, <1>2 DEF MemoryTypeOK
    <2> QED
      BY <1>1, <1>3, <2>1 DEF MemoryTypeOK, Places
  <1>5. Size(file.cards) <= Size(file'.cards) /\ Size(file.cards) \in Nat /\ Size(file'.cards) \in Nat
    BY <1>1, <1>3, SizeGrows, SizeIsNat
  <1>6. ASSUME NEW p \in Processes
        PROVE  CachedCopy(p)'
    <2>1. cache[p].tick \in Nat
      BY DEF MemoryTypeOK
    <2>2. CachedCopy(p)
      OBVIOUS
    <2> QED
      BY <1>1, <1>3, <2>1, <2>2 DEF CachedCopy
  <1>7. ASSUME NEW u \in Threads
        PROVE  ThreadInv(u)'
    <2>1. ThreadInv(u) /\ stat[u].tick \in Nat /\ stat[u].size \in Nat
      BY DEF MemoryTypeOK
    <2>2. CallFits(u)'
      BY <1>1, <2>1 DEF ThreadInv, CallFits, MemoryTypeOK
    <2>3. Behind(u)'
      BY <1>1, <1>3, <1>5, <2>1 DEF ThreadInv, Behind, MemoryTypeOK
    <2>4. Holding(u)'
      BY <1>1, <1>3 DEF Holding, MemoryTypeOK
    <2>5. Seen(u)'
      BY <1>1, <1>2, <1>3, <2>1 DEF ThreadInv, Seen, MemoryTypeOK
    <2> QED
      BY <2>2, <2>3, <2>4, <2>5 DEF ThreadInv
  <1> QED
    BY <1>1, <1>4, <1>6, <1>7

LEMMA RewriteEnds ==
  ASSUME MemoryInv, NEW t \in Threads, RewriteFails(t) \/ RewriteStores(t)
  PROVE  MemoryInv'
  <1> USE DEF MemoryInv
  <1>1. holder = t /\ op[t] \in {"create", "set"}
    BY DEF RewriteFails, RewriteStores, ThreadInv, CallFits, MemoryTypeOK
  <1>2. CASE UNCHANGED cache
    BY <1>1, <1>2, GivesUp DEF RewriteFails, RewriteStores
  <1>3. CASE cache' # cache
    <2> DEFINE p == ProcessOf[t]
    <2>1. /\ pc[t] = "store" /\ pc' = [pc EXCEPT ![t] = "unlock"]
          /\ cache' = [cache EXCEPT ![p] = [tick |-> StateOf(file).tick,
                                            size |-> StateOf(file).size, cards |-> cards[t]]]
          /\ UNCHANGED <<keptVars, file, holder, op, stat, cards, since, deed>>
      BY <1>3 DEF RewriteFails, RewriteStores, Goto, StoreCachedCards
    <2>2. cards[t] = file.cards /\ cards[t] \in CardMaps
      BY <1>1, <2>1 DEF ThreadInv, Holding, MemoryTypeOK
    <2>3. /\ StateOf(file).tick = file.tick /\ StateOf(file).size = Size(file.cards)
          /\ file.tick \in 0..MaxTicks /\ file.tick \in Nat /\ Size(file.cards) \in Nat
      BY FileType, SizeIsNat
    <2>4. MemoryTypeOK'
      <3>1. cache' \in [Processes -> [tick : 0..MaxTicks, size : Nat, cards : CardMaps]]
        BY <2>1, <2>2, <2>3 DEF MemoryTypeOK
      <3> QED
        BY <1>1, <2>1, <3>1 DEF MemoryTypeOK, keptVars, Places
    <2>5. ASSUME NEW q \in Processes
          PROVE  CachedCopy(q)'
      <3>1. CASE q # p
        BY <2>1, <3>1 DEF MemoryTypeOK, keptVars, CachedCopy
      <3>2. CASE q = p
        <4>1. cache'[q] = [tick |-> file.tick, size |-> Size(file.cards), cards |-> file.cards]
          BY <2>1, <2>2, <2>3, <3>2 DEF MemoryTypeOK
        <4> QED
          BY <2>1, <2>3, <4>1 DEF CachedCopy
      <3> QED
        BY <3>1, <3>2
    <2>6. ThreadInv(t)'
      BY <1>1, <2>1 DEF MemoryTypeOK, ThreadInv, CallFits, Behind, Holding, Seen
    <2> QED
      BY <2>1, <2>4, <2>5, <2>6, LocalStep DEF MemoryTypeOK, keptVars
  <1> QED
    BY <1>2, <1>3

LEMMA CrashStep ==
  ASSUME MemoryInv, NEW p \in Processes, Crash(p)
  PROVE  MemoryInv'
  <1> USE DEF MemoryInv
  <1> DEFINE dead == {t \in Threads : ProcessOf[t] = p}
  <1>1. /\ holder' = IF holder \in dead THEN Nobody ELSE holder
        /\ deed' = IF holder \in dead THEN NoDeed ELSE deed
        /\ pc' = [t \in Threads |-> IF t \in dead THEN "idle" ELSE pc[t]]
        /\ op' = [t \in Threads |-> IF t \in dead THEN "none" ELSE op[t]]
        /\ stat' = [t \in Threads |-> IF t \in dead THEN StateOf(Empty) ELSE stat[t]]
        /\ cards' = [t \in Threads |-> IF t \in dead THEN NoCards ELSE cards[t]]
        /\ since' = [t \in Threads |-> IF t \in dead THEN {} ELSE since[t]]
        /\ cache' = [cache EXCEPT ![p] = [tick |-> 0, size |-> 0, cards |-> NoCards]]
        /\ crashes < MaxCrashes /\ crashes' = crashes + 1
        /\ UNCHANGED <<repeats, file>>
    BY DEF Crash
  <1>2. MemoryTypeOK'
    <2>1. deed' \in Deeds /\ holder' \in Threads \cup {Nobody}
      BY <1>1 DEF MemoryTypeOK, Deeds, NoDeed, Statuses
    <2>2. /\ pc' \in [Threads -> Places] /\ op' \in [Threads -> Ops]
          /\ since' \in [Threads -> SUBSET CardMaps]
      BY <1>1 DEF MemoryTypeOK, Places, Ops
    <2>3. /\ stat' \in [Threads -> [tick : 0..MaxTicks, size : Nat]]
          /\ cards' \in [Threads -> CardMaps]
      BY <1>1, EmptyState, NoCardsFacts DEF MemoryTypeOK
    <2>4. cache' \in [Processes -> [tick : 0..MaxTicks, size : Nat, cards : CardMaps]]
      BY <1>1, EmptyState, NoCardsFacts DEF MemoryTypeOK
    <2>5. ASSUME NEW u \in Threads
          PROVE  holder' = u <=> op'[u] \in {"create", "set"} /\ pc'[u] \notin {"idle", "lock"}
      BY <1>1, IncidentMemoryAssumption DEF MemoryTypeOK
    <2>6. crashes' \in 0..MaxCrashes
      BY <1>1, IncidentMemoryAssumption DEF MemoryTypeOK
    <2> QED
      BY <1>1, <2>1, <2>2, <2>3, <2>4, <2>5, <2>6 DEF MemoryTypeOK
  <1>3. ASSUME NEW q \in Processes
        PROVE  CachedCopy(q)'
    <2>1. CASE q # p
      BY <1>1, <2>1 DEF MemoryTypeOK, CachedCopy
    <2>2. CASE q = p
      <3>1. cache'[q] = [tick |-> 0, size |-> 0, cards |-> NoCards]
        BY <1>1, <2>2 DEF MemoryTypeOK
      <3>2. file.tick \in Nat /\ (file.tick = 0 => file.cards = NoCards)
        BY FileType
      <3> QED
        BY <1>1, <3>1, <3>2, NoCardsFacts DEF CachedCopy
    <2> QED
      BY <2>1, <2>2
  <1>4. ASSUME NEW u \in Threads
        PROVE  ThreadInv(u)'
    <2>1. CASE u \in dead
      BY <1>1, <2>1, IncidentMemoryAssumption
         DEF MemoryTypeOK, ThreadInv, CallFits, Behind, Holding, Seen
    <2>2. CASE u \notin dead
      <3>1. holder' = u => holder = u /\ deed' = deed
        BY <1>1, IncidentMemoryAssumption
      <3>2. /\ pc'[u] = pc[u] /\ op'[u] = op[u] /\ stat'[u] = stat[u]
            /\ cards'[u] = cards[u] /\ since'[u] = since[u]
        BY <1>1, <2>2
      <3> QED
        BY <1>1, <3>1, <3>2 DEF ThreadInv, CallFits, Behind, Holding, Seen
    <2> QED
      BY <2>1, <2>2
  <1> QED
    BY <1>1, <1>2, <1>3, <1>4

LEMMA MemoryStep ==
  ASSUME MemoryInv, [MemoryNext]_memoryVars
  PROVE  MemoryInv'
  <1>1. CASE UNCHANGED memoryVars
    BY <1>1 DEF memoryVars, keptVars, threadVars, MemoryInv, MemoryTypeOK, CachedCopy,
                ThreadInv, CallFits, Behind, Holding, Seen
  <1>2. CASE MemoryNext
    <2>1. ASSUME NEW t \in Threads, Step(t)
          PROVE  MemoryInv'
      BY <2>1, LoadStatStep, LoadReadStep, LoadRestatStep, LoadFailsStep, CallsEnd, ChangeSteps,
         RewriteStep, RewriteEnds DEF Step
    <2> QED
      BY <1>2, <2>1, CallsBegin, CrashStep DEF MemoryNext, Threads
  <1> QED
    BY <1>1, <1>2

-----------------------------------------------------------------------------
(***************************************************************************)
(* The theorems.                                                           *)
(***************************************************************************)

\* What the caches, the file and the calls under way keep true of each other
\* at every step of IncidentMemory.
THEOREM MemoryInvariant == MemorySpec => []MemoryInv
  <1>1. MemoryInit => MemoryInv
    BY MemoryInitially
  <1>2. MemoryInv /\ [MemoryNext]_memoryVars => MemoryInv'
    BY MemoryStep
  <1> QED
    BY <1>1, <1>2, PTL DEF MemorySpec

\* As long as no two writes get one time, a cached copy that would be used is
\* what the file holds, and a reader's answer was current during its call.
THEOREM CacheIsFaithful == MemorySpec => []CacheIsTrue
  <1>1. ASSUME MemoryInv
        PROVE  CacheIsTrue
    <2>1. CacheHonest
      BY <1>1 DEF MemoryInv, CachedCopy, CacheHonest, CacheServes
    <2>2. ReadsFresh
      BY <1>1 DEF MemoryInv, ThreadInv, Seen, ReadsFresh
    <2> QED
      BY <1>1, <2>1, <2>2 DEF MemoryInv, CacheIsTrue
  <1> QED
    BY <1>1, MemoryInvariant, PTL

LEMMA OnlyRewrites ==
  ASSUME MemoryNext, file' # file
  PROVE  \E t \in Threads : Rewrite(t)
  BY DEF MemoryNext, Threads, Read, Write, Lock, Step, LoadStat, LoadRead, LoadRestat, LockFails,
         LoadFails, ReadReturns, CreateCandidate, SetStatus, Change, RewriteFails,
         RewriteStores, Unlock, Crash

\* No rewrite of the whole file, from whatever cached copy, drops a card; and
\* it changes the status of one only if the call was about that card, as long
\* as no two writes get one time.
THEOREM DecisionsAreKept == MemorySpec => DecisionsAndCardsStand
  <1> DEFINE Stands ==
        repeats' = 0 => \A c \in Cards :
          file'.cards[c] # file.cards[c]
          => \E t \in Threads : /\ pc[t] = "rewrite" /\ pc'[t] = "store"
                                /\ deed = [card |-> c, status |-> file'.cards[c]]
      Stay == \A c \in Cards : file.cards[c] # "none" => file'.cards[c] # "none"
  <1>1. ASSUME MemoryInv, MemoryNext
        PROVE  Stands /\ Stay
    <2>1. CASE file' = file
      BY <2>1
    <2>2. CASE file' # file
      <3>1. PICK t \in Threads : Rewrite(t)
        BY <1>1, <2>2, OnlyRewrites
      <3>2. /\ holder = t /\ pc[t] = "rewrite" /\ pc' = [pc EXCEPT ![t] = "store"]
            /\ file' = [tick |-> file'.tick, cards |-> cards[t]]
            /\ repeats' = 0 => repeats = 0
            /\ Dom(file.cards) \subseteq Dom(cards[t])
        BY <1>1, <3>1, RewriteFacts
      <3>3. file'.cards = cards[t] /\ pc'[t] = "store" /\ file.cards \in CardMaps
        BY <1>1, <3>2, FileType DEF MemoryInv, MemoryTypeOK
      <3>4. Stay
        BY <3>2, <3>3 DEF Dom
      <3>5. ASSUME repeats' = 0, NEW c \in Cards, file'.cards[c] # file.cards[c]
            PROVE  deed = [card |-> c, status |-> file'.cards[c]]
        <4>1. /\ deed.card \in Cards
              /\ cards[t] = [file.cards EXCEPT ![deed.card] = deed.status]
          BY <1>1, <3>2, <3>5 DEF MemoryInv, ThreadInv, Holding
        <4>2. c = deed.card /\ file'.cards[c] = deed.status
          BY <3>3, <3>5, <4>1 DEF CardMaps
        <4>3. deed = [card |-> deed.card, status |-> deed.status]
          BY <1>1 DEF MemoryInv, MemoryTypeOK, Deeds
        <4> QED
          BY <4>2, <4>3
      <3> QED
        BY <3>2, <3>3, <3>4, <3>5
    <2> QED
      BY <2>1, <2>2
  <1> QED
    BY <1>1, MemoryInvariant, PTL DEF MemorySpec, DecisionsAndCardsStand, DecisionsStand, CardsStay

-----------------------------------------------------------------------------
(***************************************************************************)
(* SetupWizard.                                                            *)
(***************************************************************************)

BeforeCommit == {"kubeconfig", "scan", "discovered"}

\* Nothing is kept before the groups are.
NothingYet ==
  wizardStep \in BeforeCommit =>
    /\ selectedFindings = <<>> /\ queue = <<>> /\ credAnswered = <<>> /\ authEnv = <<>>
    /\ box = <<>> /\ asked = 0 /\ hints = <<>>

\* The members of the selected groups are kept, each in one place.
SelectionOK ==
  /\ \A i, j \in DOMAIN selectedFindings :
       i # j => selectedFindings[i] # selectedFindings[j]
  /\ wizardStep \notin BeforeCommit /\ ~auto => ToSet(selectedFindings) = Kept(ticked)

\* A place is asked for once, and only if an answer is needed.
QueueOK ==
  /\ \A i, j \in DOMAIN queue : i # j => queue[i] # queue[j]
  /\ \A j \in DOMAIN queue : NeedsAnswer(selectedFindings[queue[j]])
  /\ wizardStep = "credentials" => asked < Len(queue)

\* An answer was given to a question that was asked, and stands at its place;
\* every variable stands there because of an answer.
AnswersOK ==
  /\ \A a \in DOMAIN credAnswered : \E j \in 1..asked :
       credAnswered[a] = [finding |-> selectedFindings[queue[j]], env |-> authEnv[queue[j]]]
  /\ \A i \in DOMAIN authEnv : authEnv[i] # NoEnv =>
       /\ NeedsAnswer(selectedFindings[i])
       /\ \E a \in DOMAIN credAnswered : credAnswered[a].finding = selectedFindings[i]

\* What stands in the box of a tidy operator was typed for the question.
BoxOwn ==
  tidy /\ wizardStep = "credentials" =>
    Len(box) <= 1 /\ \A i \in DOMAIN box : box[i].of = Current

HintsNumbered ==
  \A i \in DOMAIN hints :
    hints[i].name = <<Cardinality({j \in 1..i : hints[j].kind = hints[i].kind}), hints[i].kind>>

\* The config is what the wizard knows at the end.
ConfigIsWritten ==
  /\ configFile = Untouched \/ (configFile = Written /\ wizardStep = "done")
  /\ saveErr => wizardStep = "done"

WizardInv ==
  /\ WizardTypeOK /\ NothingYet /\ SelectionOK /\ QueueOK /\ AnswersOK /\ BoxOwn /\ HintsNumbered
  /\ ConfigIsWritten /\ FilesAsAnswered

-----------------------------------------------------------------------------
LEMMA WizardConstants ==
  /\ LastContext \in Nat /\ MaxHints \in Nat
  /\ Len(Services) \in Nat /\ Findings = 1..Len(Services) /\ IsFiniteSet(Findings)
  /\ Kinds \subseteq DbKinds \cup HttpKinds
  /\ \A s \in Findings : /\ Services[s].kind \in Kinds /\ Services[s].ctx \in Contexts
                         /\ Services[s].auth \in Auths
                         /\ Services[s].auth = "password" => Services[s].kind \in DbKinds
                         /\ KindPlace(Services[s].kind) \in Nat
                         /\ Generated(s) \in Names
  /\ Given \notin Names /\ NoEnv \notin Names /\ Given # NoEnv
  <1> DEFINE R == [kind : Kinds, auth : Auths, ctx : Contexts, name : STRING]
  <1>1. Services \in Seq(R) /\ KindOrder \in Seq(DbKinds \cup HttpKinds)
    BY WizardAssumption
  <1>2. Len(Services) \in Nat /\ Findings = 1..Len(Services) /\ \A s \in Findings : Services[s] \in R
    <2> HIDE DEF R
    <2> QED
      BY <1>1 DEF Findings
  <1>3. IsFiniteSet(Findings)
    BY <1>2, FS_Interval
  <1>4. Kinds \subseteq DbKinds \cup HttpKinds /\ DOMAIN KindOrder \subseteq Nat
    <2> DEFINE K == DbKinds \cup HttpKinds
    <2>1. KindOrder \in Seq(K)
      BY <1>1
    <2> HIDE DEF K
    <2> QED
      BY <2>1 DEF Kinds, K
  <1>5. ASSUME NEW k \in Kinds PROVE KindPlace(k) \in Nat
    <2>1. \E i \in DOMAIN KindOrder : KindOrder[i] = k
      BY DEF Kinds
    <2> QED
      BY <1>4, <2>1 DEF KindPlace
  <1>6. "given" \notin Kinds /\ "none" \notin Kinds
    BY <1>4 DEF DbKinds, HttpKinds
  <1>7. Given \notin Names /\ NoEnv \notin Names /\ Given # NoEnv
    BY <1>2, <1>6 DEF Given, NoEnv, Names, Generated
  <1>8. \A s \in Findings : Generated(s) \in Names
    BY DEF Names
  <1> QED
    BY <1>2, <1>3, <1>4, <1>5, <1>7, <1>8, WizardAssumption

\* Numbers in rising order: all of them, each in one place.
LEMMA RisingFacts ==
  ASSUME NEW n \in Nat, NEW S \in SUBSET (1..n)
  PROVE  /\ Rising(S) \in Seq(S) /\ ToSet(Rising(S)) = S
         /\ \A i, j \in DOMAIN Rising(S) : i # j => Rising(S)[i] # Rising(S)[j]
  <1> DEFINE B == {p \in S \X S : p[1] < p[2]}
             f == Arranged(S, B)
             c == Cardinality(S)
  <1>1. IsFiniteSet(S)
    <2>1. IsFiniteSet(1..n)
      BY FS_Interval
    <2> QED
      BY <2>1, FS_Subset
  <1>2. Orders(B, S)
    <2>1. \A a, b \in S : <<a, b>> \in B <=> a < b
      OBVIOUS
    <2>2. \A a \in S : a \in Nat
      OBVIOUS
    <2> HIDE DEF B
    <2> QED
      BY <2>1, <2>2 DEF Orders
  <1> HIDE DEF B
  <1>3. /\ f \in Seq(S) /\ DOMAIN f = 1..c
        /\ \A a \in S : \E k \in 1..c : f[k] = a
        /\ \A k, l \in 1..c : k # l => f[k] # f[l]
    <2>1. /\ f \in Seq(S) /\ DOMAIN f = 1..c
          /\ \A a \in S : \E k \in 1..c : f[k] = a
          /\ \A k, l \in 1..c : /\ k < l => <<f[k], f[l]>> \in B
                                /\ k # l => f[k] # f[l]
      BY <1>1, <1>2, ArrangedInOrder
    <2> QED
      BY <2>1
  <1>4. Rising(S) = f
    BY DEF Rising, B
  <1> HIDE DEF f, c
  <1>5. \A k \in 1..c : f[k] \in S
    <2>1. f \in Seq(S)
      BY <1>3
    <2>2. \A k \in DOMAIN f : f[k] \in S
      BY ONLY <2>1
    <2> QED
      BY <1>3, <2>2
  <1> QED
    BY <1>3, <1>4, <1>5 DEF ToSet

\* The members of the kept groups: all of them, each in one place.
LEMMA FlattenedFacts ==
  ASSUME found \in Seq(Findings), NEW wanted
  PROVE  /\ Flattened(wanted) \in Seq(Findings) /\ ToSet(Flattened(wanted)) = Kept(wanted)
         /\ \A i, j \in DOMAIN Flattened(wanted) : i # j => Flattened(wanted)[i] # Flattened(wanted)[j]
  <1> DEFINE S == Kept(wanted)
             B == Grouped(S)
             f == Arranged(S, B)
             c == Cardinality(S)
  <1>1. S \subseteq Findings /\ IsFiniteSet(S)
    <2>1. \A i \in DOMAIN found : found[i] \in Findings
      OBVIOUS
    <2>2. S \subseteq Findings
      BY <2>1 DEF Kept, ToSet
    <2> QED
      BY <2>2, WizardConstants, FS_Subset
  <1>2. Orders(B, S)
    <2> DEFINE K(s) == KindPlace(Services[s].kind)
    <2>1. ASSUME NEW a \in S, NEW b \in S
          PROVE  <<a, b>> \in B <=> K(a) < K(b) \/ (Services[a].kind = Services[b].kind /\ a < b)
      BY DEF Grouped
    <2>2. ASSUME NEW a \in S, NEW b \in S, K(a) = K(b)
          PROVE  Services[a].kind = Services[b].kind
      <3>1. ASSUME NEW s \in S PROVE KindOrder[K(s)] = Services[s].kind
        <4>1. Services[s].kind \in Kinds
          BY <1>1, WizardConstants
        <4>2. \E i \in DOMAIN KindOrder : KindOrder[i] = Services[s].kind
          BY <4>1 DEF Kinds
        <4> QED
          BY <4>2 DEF KindPlace
      <3> QED
        BY <2>2, <3>1
    <2>3. \A s \in S : K(s) \in Nat /\ s \in Nat
      BY <1>1, WizardConstants
    <2>4. \A a, b \in S : Services[a].kind = Services[b].kind => K(a) = K(b)
      OBVIOUS
    <2> HIDE DEF B, S, K
    <2> QED
      BY <2>1, <2>2, <2>3, <2>4 DEF Orders
  <1> HIDE DEF B, S
  <1>3. /\ f \in Seq(S) /\ DOMAIN f = 1..c
        /\ \A a \in S : \E k \in 1..c : f[k] = a
        /\ \A k, l \in 1..c : k # l => f[k] # f[l]
    <2>1. /\ f \in Seq(S) /\ DOMAIN f = 1..c
          /\ \A a \in S : \E k \in 1..c : f[k] = a
          /\ \A k, l \in 1..c : /\ k < l => <<f[k], f[l]>> \in B
                                /\ k # l => f[k] # f[l]
      BY <1>1, <1>2, ArrangedInOrder
    <2> QED
      BY <2>1
  <1>4. Flattened(wanted) = f
    BY DEF Flattened, B, S
  <1> HIDE DEF f, c
  <1>5. (\A k \in 1..c : f[k] \in S) /\ f \in Seq(Findings)
    <2>0. f \in Seq(S)
      BY <1>3
    <2>1. f \in Seq(S) /\ \A k \in DOMAIN f : f[k] \in S
      BY ONLY <2>0
    <2>2. f \in Seq(Findings)
      BY <1>1, <2>1
    <2> QED
      BY <1>3, <2>1, <2>2
  <1> QED
    BY <1>3, <1>4, <1>5 DEF ToSet, S

-----------------------------------------------------------------------------
(***************************************************************************)
(* The steps up to the choice of what to keep.                             *)
(***************************************************************************)

LEMMA WizardInitially == WizardInit => WizardInv
  <1> SUFFICES ASSUME WizardInit PROVE WizardInv
    OBVIOUS
  <1> USE DEF WizardInit
  <1>1. WizardTypeOK
    <2>1. picked \in Seq(Contexts)
      <3>1. [c \in Contexts |-> c] \in Seq(Contexts)
        BY WizardConstants DEF Contexts
      <3> QED
        BY <3>1
    <2>2. vault \in [Names -> Seq(Pieces)]
      BY DEF Pieces
    <2>3. hints \in Seq([kind : HintLines \cap HintKinds, name : (Nat \ {0}) \X HintKinds])
      OBVIOUS
    <2>4. credAnswered \in Seq([finding : Findings, env : Names \cup {Given}])
      OBVIOUS
    <2>5. found \in Seq(Findings) /\ selectedFindings \in Seq(Findings) /\ Len(selectedFindings) = 0
      OBVIOUS
    <2>6. box \in Seq(Pieces) /\ queue \in Seq(1..Len(selectedFindings)) /\ Len(queue) = 0
      OBVIOUS
    <2>7. wizardStep \in WizardSteps /\ {dryRun, auto, tidy, aborted, saveErr, allow} \subseteq BOOLEAN
      BY DEF WizardSteps
    <2>8. DOMAIN authEnv = 1..0 /\ lines \in 0..MaxHints /\ asked \in 0..0
      BY WizardConstants
    <2> QED
      BY <2>1, <2>2, <2>3, <2>4, <2>5, <2>6, <2>7, <2>8 DEF WizardTypeOK
  <1>2. NothingYet /\ SelectionOK /\ QueueOK /\ AnswersOK /\ BoxOwn /\ HintsNumbered
    BY DEF NothingYet, SelectionOK, QueueOK, AnswersOK, BoxOwn, HintsNumbered, BeforeCommit, ToSet, Kept
  <1>3. ConfigIsWritten /\ FilesAsAnswered
    BY DEF ConfigIsWritten, FilesAsAnswered, SecretIsItsOwn, DryRunWritesNothing, SavedTogether,
           Untouched, ToSet
  <1> QED
    BY <1>1, <1>2, <1>3 DEF WizardInv

LEMMA BeforeCommitKeeps ==
  ASSUME WizardInv, wizardStep \in BeforeCommit,
         wizardStep' \in BeforeCommit \/ (auto /\ wizardStep' = "save"),
         UNCHANGED <<dryRun, auto, tidy, aborted, saveErr, selectedFindings, credentials, form, files>>,
         picked' \in Seq(Contexts), found' \in Seq(Findings), ticked' \in SUBSET Kinds
  PROVE  WizardInv'
  <1>0. UNCHANGED <<dryRun, auto, tidy, aborted, saveErr, selectedFindings, queue, credAnswered,
                    authEnv, box, asked, hints, lines, focused, allow, vault, profile, configFile>>
    BY DEF credentials, form, files
  <1>1. WizardTypeOK'
    <2>1. WizardTypeOK
      BY DEF WizardInv
    <2>2. wizardStep' \in WizardSteps
      BY DEF WizardSteps, BeforeCommit
    <2> QED
      BY <1>0, <2>1, <2>2 DEF WizardTypeOK
  <1>2. /\ selectedFindings = <<>> /\ queue = <<>> /\ credAnswered = <<>> /\ authEnv = <<>>
        /\ box = <<>> /\ asked = 0 /\ hints = <<>> /\ configFile = Untouched /\ ~saveErr
    BY DEF WizardInv, NothingYet, ConfigIsWritten, BeforeCommit
  <1>3. wizardStep' # "credentials" /\ wizardStep' # "done"
        /\ (wizardStep' \notin BeforeCommit => auto)
    BY DEF BeforeCommit
  <1>4. NothingYet' /\ SelectionOK'
    BY <1>0, <1>2, <1>3 DEF NothingYet, SelectionOK
  <1>5. QueueOK' /\ AnswersOK' /\ BoxOwn' /\ HintsNumbered'
    BY <1>0, <1>2, <1>3 DEF QueueOK, AnswersOK, BoxOwn, HintsNumbered
  <1>6. ConfigIsWritten' /\ FilesAsAnswered'
    <2>1. FilesAsAnswered
      BY DEF WizardInv
    <2> QED
      BY <1>0, <1>2, <1>3, <2>1
      DEF ConfigIsWritten, FilesAsAnswered, SecretIsItsOwn, DryRunWritesNothing, SavedTogether, Untouched
  <1> QED
    BY <1>1, <1>4, <1>5, <1>6 DEF WizardInv

LEMMA RemoveAtIsSeq ==
  ASSUME NEW S, NEW s \in Seq(S), NEW i \in DOMAIN s
  PROVE  RemoveAt(s, i) \in Seq(S)
  <1> DEFINE a == SubSeq(s, 1, i - 1)
             b == SubSeq(s, i + 1, Len(s))
  <1>1. Len(s) \in Nat /\ i \in 1..Len(s) /\ \A j \in 1..Len(s) : s[j] \in S
    OBVIOUS
  <1>2. a \in Seq(S)
    <2>1. 1 \in Int /\ i - 1 \in Int /\ \A j \in 1..i - 1 : s[j] \in S
      BY <1>1
    <2> QED
      BY <2>1, SubSeqProperties
  <1>3. b \in Seq(S)
    <2>1. i + 1 \in Int /\ Len(s) \in Int /\ \A j \in i + 1..Len(s) : s[j] \in S
      BY <1>1
    <2> QED
      BY <2>1, SubSeqProperties
  <1> HIDE DEF a, b
  <1>4. a \o b \in Seq(S)
    BY <1>2, <1>3, ConcatProperties
  <1> QED
    BY <1>4 DEF RemoveAt, a, b

LEMMA CommitStep ==
  ASSUME WizardInv, CommitFindings, UNCHANGED <<dryRun, auto, tidy, aborted, saveErr>>
  PROVE  WizardInv'
  <1> DEFINE n == Len(selectedFindings')
             asking == {i \in DOMAIN selectedFindings' : NeedsAnswer(selectedFindings'[i])}
  <1>0. /\ wizardStep = "discovered"
        /\ selectedFindings' = Flattened(ticked)
        /\ queue' = Rising(asking)
        /\ authEnv' = [i \in 1..n |-> NoEnv]
        /\ wizardStep' = IF queue' = <<>> THEN "hints" ELSE "credentials"
        /\ UNCHANGED <<dryRun, auto, tidy, aborted, saveErr, picked, found, ticked, credAnswered, box, asked,
                       hints, lines, focused, allow, vault, profile, configFile>>
    BY DEF CommitFindings, form, files
  <1>1. WizardTypeOK /\ FilesAsAnswered /\ configFile = Untouched /\ ~saveErr
        /\ credAnswered = <<>> /\ box = <<>> /\ asked = 0 /\ hints = <<>>
    BY <1>0 DEF WizardInv, NothingYet, ConfigIsWritten, BeforeCommit
  <1>2. /\ selectedFindings' \in Seq(Findings) /\ ToSet(selectedFindings') = Kept(ticked)
        /\ \A i, j \in DOMAIN selectedFindings' : i # j => selectedFindings'[i] # selectedFindings'[j]
    BY <1>0, <1>1, FlattenedFacts DEF WizardTypeOK
  <1>3. n \in Nat /\ DOMAIN selectedFindings' = 1..n
    <2>1. selectedFindings' \in Seq(Findings)
      BY <1>2
    <2> QED
      BY <2>1
  <1>4. asking \subseteq 1..n
    BY <1>3
  <1> HIDE DEF n
  <1>5. /\ queue' \in Seq(asking) /\ ToSet(queue') = asking
        /\ \A i, j \in DOMAIN queue' : i # j => (queue')[i] # (queue')[j]
    <2> HIDE DEF asking
    <2>1. asking \in SUBSET (1..n)
      BY <1>4
    <2>2. /\ Rising(asking) \in Seq(asking) /\ ToSet(Rising(asking)) = asking
          /\ \A i, j \in DOMAIN Rising(asking) : i # j => Rising(asking)[i] # Rising(asking)[j]
      BY <1>3, <2>1, RisingFacts
    <2> QED
      BY <1>0, <2>2
  <1>6. /\ queue' \in Seq(1..n) /\ Len(queue') \in Nat /\ (queue' # <<>> => 0 < Len(queue'))
        /\ \A j \in DOMAIN queue' : (queue')[j] \in asking
    <2> HIDE DEF asking
    <2>1. queue' \in Seq(asking)
      BY <1>5
    <2>2. \A j \in DOMAIN queue' : (queue')[j] \in asking
      BY ONLY <2>1
    <2>3. Len(queue') \in Nat /\ (queue' # <<>> => 0 < Len(queue'))
      BY ONLY <2>1
    <2>4. queue' \in Seq(1..n)
      <3> DEFINE U == 1..n
      <3>1. asking \subseteq U
        BY <1>4
      <3> HIDE DEF U
      <3>2. queue' \in Seq(U)
        BY ONLY <2>1, <3>1
      <3> QED
        BY <3>2 DEF U
    <2> QED
      BY <2>2, <2>3, <2>4
  <1>7. WizardTypeOK'
    <2>1. wizardStep' \in WizardSteps
      BY <1>0 DEF WizardSteps
    <2>2. DOMAIN authEnv' = 1..n /\ \A i \in DOMAIN authEnv' : (authEnv')[i] \in Names \cup {Given, NoEnv}
      BY <1>0
    <2>3. asked' \in 0..Len(queue')
      BY <1>0, <1>1, <1>6
    <2>4. queue' \in Seq(1..Len(selectedFindings'))
      BY <1>6 DEF n
    <2>5. DOMAIN authEnv' = 1..Len(selectedFindings')
      BY <2>2 DEF n
    <2> HIDE DEF asking
    <2> QED
      BY <1>0, <1>1, <1>2, <2>1, <2>2, <2>3, <2>4, <2>5 DEF WizardTypeOK
  <1>8. NothingYet' /\ SelectionOK'
    <2>1. wizardStep' \notin BeforeCommit
      BY <1>0 DEF BeforeCommit
    <2>2. Kept(ticked)' = Kept(ticked)
      BY <1>0 DEF Kept
    <2>3. ToSet(selectedFindings)' = ToSet(selectedFindings')
      BY DEF ToSet
    <2> QED
      BY <1>2, <2>1, <2>2, <2>3 DEF NothingYet, SelectionOK
  <1>9. QueueOK'
    <2>1. \A j \in DOMAIN queue' : NeedsAnswer(selectedFindings'[(queue')[j]])
      BY <1>6
    <2>2. wizardStep' = "credentials" => asked' < Len(queue')
      BY <1>0, <1>1, <1>6
    <2> QED
      BY <1>5, <2>1, <2>2 DEF QueueOK, NeedsAnswer
  <1>10. AnswersOK' /\ BoxOwn' /\ HintsNumbered'
    BY <1>0, <1>1 DEF AnswersOK, BoxOwn, HintsNumbered
  <1>11. ConfigIsWritten' /\ FilesAsAnswered'
    <2>1. ToSet(authEnv') \cap Names = {}
      BY <1>0, WizardConstants DEF ToSet
    <2>2. wizardStep' # "done" /\ ~saveErr' /\ configFile' = Untouched
      BY <1>0, <1>1
    <2>3. ConfigIsWritten'
      BY <2>2 DEF ConfigIsWritten, Untouched
    <2>4. SecretIsItsOwn'
      <3>1. (ToSet(authEnv) \cap Names)' = {}
        BY <2>1 DEF ToSet, Names, Generated
      <3> QED
        BY <3>1 DEF SecretIsItsOwn
    <2>5. DryRunWritesNothing'
      BY <1>0, <1>1 DEF FilesAsAnswered, DryRunWritesNothing
    <2>6. SavedTogether'
      BY <2>2 DEF SavedTogether, Untouched
    <2> QED
      BY <2>3, <2>4, <2>5, <2>6 DEF FilesAsAnswered
  <1> QED
    BY <1>7, <1>8, <1>9, <1>10, <1>11 DEF WizardInv

-----------------------------------------------------------------------------
(***************************************************************************)
(* The credentials.                                                        *)
(***************************************************************************)

LEMMA Asking ==
  ASSUME WizardInv, wizardStep = "credentials"
  PROVE  /\ asked \in Nat /\ asked + 1 \in DOMAIN queue /\ DOMAIN queue = 1..Len(queue) /\ Len(queue) \in Nat
         /\ DOMAIN selectedFindings = 1..Len(selectedFindings)
         /\ \A j \in DOMAIN queue : queue[j] \in DOMAIN selectedFindings
         /\ Current \in Findings /\ DOMAIN authEnv = DOMAIN selectedFindings
  <1>1. /\ selectedFindings \in Seq(Findings) /\ queue \in Seq(1..Len(selectedFindings))
        /\ asked \in 0..Len(queue) /\ asked < Len(queue) /\ DOMAIN authEnv = 1..Len(selectedFindings)
    BY DEF WizardInv, WizardTypeOK, QueueOK
  <1>2. DOMAIN selectedFindings = 1..Len(selectedFindings) /\ \A i \in DOMAIN selectedFindings : selectedFindings[i] \in Findings
    BY <1>1
  <1>3. DOMAIN queue = 1..Len(queue) /\ Len(queue) \in Nat /\ \A j \in DOMAIN queue : queue[j] \in 1..Len(selectedFindings)
    BY <1>1
  <1> QED
    BY <1>1, <1>2, <1>3 DEF Current

\* The box changes, and nothing else.
LEMMA BoxChanges ==
  ASSUME WizardInv, wizardStep = "credentials", box' \in Seq(Pieces),
         tidy => Len(box') <= 1 /\ \A i \in DOMAIN box' : (box')[i].of = Current,
         UNCHANGED <<wizardStep, dryRun, auto, tidy, aborted, saveErr, chosen, queue, credAnswered, authEnv,
                     asked, form, files>>
  PROVE  WizardInv'
  <1>0. UNCHANGED <<picked, found, ticked, selectedFindings, hints, lines, focused, allow, vault, profile, configFile>>
    BY DEF chosen, form, files
  <1>1. WizardTypeOK'
    BY <1>0 DEF WizardInv, WizardTypeOK
  <1>2. NothingYet' /\ SelectionOK' /\ QueueOK' /\ AnswersOK' /\ HintsNumbered'
    <2>1. NothingYet'
      BY <1>0 DEF WizardInv, NothingYet, BeforeCommit
    <2>2. SelectionOK'
      BY <1>0 DEF WizardInv, SelectionOK, BeforeCommit, Kept, ToSet
    <2>3. QueueOK'
      BY <1>0 DEF WizardInv, QueueOK, NeedsAnswer
    <2>4. AnswersOK'
      BY <1>0 DEF WizardInv, AnswersOK, NeedsAnswer
    <2>5. HintsNumbered'
      BY <1>0 DEF WizardInv, HintsNumbered
    <2> QED
      BY <2>1, <2>2, <2>3, <2>4, <2>5
  <1>3. BoxOwn'
    <2>1. Current' = Current
      BY <1>0 DEF Current
    <2> QED
      BY <2>1 DEF BoxOwn
  <1>4. ConfigIsWritten' /\ FilesAsAnswered'
    BY <1>0 DEF WizardInv, ConfigIsWritten, FilesAsAnswered, SecretIsItsOwn, DryRunWritesNothing,
                SavedTogether, ToSet
  <1> QED
    BY <1>1, <1>2, <1>3, <1>4 DEF WizardInv

\* What the step after an answer or a skip leaves alone.
LEMMA CredentialStep ==
  ASSUME WizardInv, wizardStep = "credentials", AdvanceCredOrHints, tidy => box' = <<>>,
         UNCHANGED <<dryRun, auto, tidy, aborted, saveErr, chosen, queue, form, profile, configFile>>,
         box' \in Seq(Pieces), vault' \in [Names -> Seq(Pieces)],
         credAnswered' \in Seq([finding : Findings, env : Names \cup {Given}]),
         DOMAIN authEnv' = DOMAIN authEnv,
         \A i \in DOMAIN authEnv' : (authEnv')[i] \in Names \cup {Given, NoEnv},
         AnswersOK', SecretIsItsOwn', dryRun => vault' = vault
  PROVE  WizardInv'
  <1>0. UNCHANGED <<picked, found, ticked, selectedFindings, hints, lines, focused, allow>>
    BY DEF chosen, form
  <1>1. /\ asked \in Nat /\ asked < Len(queue) /\ Len(queue) \in Nat
        /\ asked' = asked + 1 /\ wizardStep' = IF asked' = Len(queue) THEN "hints" ELSE "credentials"
    BY Asking DEF AdvanceCredOrHints, WizardInv, QueueOK
  <1>2. WizardTypeOK'
    <2>1. asked' \in 0..Len(queue) /\ wizardStep' \in WizardSteps
      BY <1>1 DEF WizardSteps
    <2> QED
      BY <1>0, <2>1 DEF WizardInv, WizardTypeOK
  <1>3. wizardStep' \notin BeforeCommit /\ wizardStep' # "done" /\ wizardStep \notin BeforeCommit
    BY <1>1 DEF BeforeCommit
  <1>4. NothingYet' /\ SelectionOK'
    BY <1>0, <1>3 DEF WizardInv, NothingYet, SelectionOK, Kept, ToSet
  <1>5. QueueOK'
    <2>1. wizardStep' = "credentials" => asked' < Len(queue)
      BY <1>1
    <2> QED
      BY <1>0, <2>1 DEF WizardInv, QueueOK, NeedsAnswer
  <1>6. BoxOwn' /\ HintsNumbered'
    <2>1. BoxOwn'
      BY DEF BoxOwn
    <2>2. HintsNumbered'
      BY <1>0 DEF WizardInv, HintsNumbered
    <2> QED
      BY <2>1, <2>2
  <1>7. configFile' = Untouched /\ ~saveErr'
    BY DEF WizardInv, ConfigIsWritten
  <1>8. ConfigIsWritten'
    BY <1>7 DEF ConfigIsWritten, Untouched
  <1>9. DryRunWritesNothing' /\ SavedTogether'
    BY <1>3, <1>7 DEF WizardInv, FilesAsAnswered, DryRunWritesNothing, SavedTogether, Untouched
  <1> QED
    BY <1>2, <1>4, <1>5, <1>6, <1>8, <1>9 DEF WizardInv, FilesAsAnswered

LEMMA SkipStep ==
  ASSUME WizardInv, SkipCredential, UNCHANGED <<dryRun, auto, tidy, aborted, saveErr>>
  PROVE  WizardInv'
  <1>0. /\ wizardStep = "credentials" /\ AdvanceCredOrHints /\ (tidy => box' = <<>>)
        /\ UNCHANGED <<dryRun, auto, tidy, aborted, saveErr, chosen, queue, credAnswered, authEnv, box, form,
                       vault, profile, configFile>>
    BY DEF SkipCredential, files
  <1>1. /\ box \in Seq(Pieces) /\ vault \in [Names -> Seq(Pieces)]
        /\ credAnswered \in Seq([finding : Findings, env : Names \cup {Given}])
        /\ \A i \in DOMAIN authEnv : authEnv[i] \in Names \cup {Given, NoEnv}
    BY DEF WizardInv, WizardTypeOK
  <1>2. AnswersOK'
    <2>1. asked \in Nat /\ asked' = asked + 1 /\ selectedFindings' = selectedFindings
      BY <1>0, Asking DEF AdvanceCredOrHints, chosen
    <2>2. 1..asked \subseteq 1..asked'
      BY <2>1
    <2> QED
      BY <1>0, <2>1, <2>2 DEF WizardInv, AnswersOK, NeedsAnswer
  <1>3. SecretIsItsOwn'
    BY <1>0 DEF WizardInv, FilesAsAnswered, SecretIsItsOwn, ToSet
  <1> QED
    BY <1>0, <1>1, <1>2, <1>3, CredentialStep

\* An answer: the variable stands at the place that was asked for.
LEMMA AcceptStep ==
  ASSUME WizardInv, wizardStep = "credentials", box # <<>>, NEW answer, Accept(answer),
         \/ answer = Given /\ vault' = vault
         \/ answer = Generated(Current) /\ vault' = VaultWith(answer),
         UNCHANGED <<dryRun, auto, tidy, aborted, saveErr>>
  PROVE  WizardInv'
  <1> DEFINE k == queue[asked + 1]
             n == Len(credAnswered)
  <1>0. /\ authEnv' = [authEnv EXCEPT ![k] = answer]
        /\ credAnswered' = Append(credAnswered, [finding |-> Current, env |-> answer])
        /\ box' = <<>> /\ AdvanceCredOrHints /\ asked' = asked + 1
        /\ UNCHANGED <<chosen, queue, form, profile, configFile, selectedFindings>>
    BY DEF Accept, BoxAfter, AdvanceCredOrHints, chosen
  <1>1. /\ box \in Seq(Pieces) /\ vault \in [Names -> Seq(Pieces)]
        /\ credAnswered \in Seq([finding : Findings, env : Names \cup {Given}])
        /\ \A i \in DOMAIN authEnv : authEnv[i] \in Names \cup {Given, NoEnv}
    BY DEF WizardInv, WizardTypeOK
  <1>2. /\ asked \in Nat /\ asked + 1 \in DOMAIN queue /\ DOMAIN queue = 1..Len(queue) /\ Len(queue) \in Nat
        /\ \A j \in DOMAIN queue : queue[j] \in DOMAIN authEnv
        /\ k \in DOMAIN authEnv /\ Current = selectedFindings[k] /\ Current \in Findings
    BY Asking DEF Current
  <1>3. answer \in Names \cup {Given} /\ answer # NoEnv
    BY <1>2, WizardConstants
  <1>4. vault' \in [Names -> Seq(Pieces)] /\ (dryRun => vault' = vault)
    BY <1>1 DEF VaultWith
  <1> HIDE DEF k, n
  <1>5. /\ DOMAIN authEnv' = DOMAIN authEnv /\ (authEnv')[k] = answer
        /\ \A i \in DOMAIN authEnv : i # k => (authEnv')[i] = authEnv[i]
    BY <1>0, <1>2
  <1>6. n \in Nat /\ DOMAIN credAnswered = 1..n /\ DOMAIN credAnswered' = 1..n + 1
        /\ (\A a \in 1..n : (credAnswered')[a] = credAnswered[a])
        /\ (credAnswered')[n + 1] = [finding |-> Current, env |-> answer]
        /\ credAnswered' \in Seq([finding : Findings, env : Names \cup {Given}])
    <2> DEFINE R == [finding : Findings, env : Names \cup {Given}]
               r == [finding |-> Current, env |-> answer]
    <2>1. credAnswered \in Seq(R) /\ r \in R /\ credAnswered' = Append(credAnswered, r)
      BY <1>0, <1>1, <1>2, <1>3
    <2> HIDE DEF R, r
    <2>2. n \in Nat /\ DOMAIN credAnswered = 1..n
      BY <2>1 DEF n
    <2>3. /\ Append(credAnswered, r) \in Seq(R) /\ DOMAIN Append(credAnswered, r) = 1..n + 1
          /\ \A a \in 1..n : Append(credAnswered, r)[a] = credAnswered[a]
          /\ Append(credAnswered, r)[n + 1] = r
      BY <2>1 DEF n
    <2> QED
      BY <2>1, <2>2, <2>3 DEF R, r
  <1>7. AnswersOK'
    <2>1. ASSUME NEW a \in DOMAIN credAnswered'
          PROVE  \E j \in 1..asked' :
                   (credAnswered')[a] = [finding |-> selectedFindings[queue[j]], env |-> (authEnv')[queue[j]]]
      <3>1. CASE a \in 1..n
        <4>1. PICK j \in 1..asked :
                credAnswered[a] = [finding |-> selectedFindings[queue[j]], env |-> authEnv[queue[j]]]
          BY <1>6, <3>1 DEF WizardInv, AnswersOK
        <4>2. j \in DOMAIN queue /\ j # asked + 1 /\ j \in 1..asked'
          BY <1>0, <1>2, <4>1
        <4>3. queue[j] # k /\ queue[j] \in DOMAIN authEnv
          BY <1>2, <4>2 DEF WizardInv, QueueOK, k
        <4> QED
          BY <1>5, <1>6, <3>1, <4>1, <4>2, <4>3
      <3>2. CASE a = n + 1
        <4>1. asked + 1 \in 1..asked' /\ queue[asked + 1] = k
          BY <1>0, <1>2 DEF k
        <4> QED
          BY <1>2, <1>5, <1>6, <3>2, <4>1
      <3> QED
        BY <1>6, <3>1, <3>2
    <2>2. ASSUME NEW i \in DOMAIN authEnv', (authEnv')[i] # NoEnv
          PROVE  /\ NeedsAnswer(selectedFindings[i])
                 /\ \E a \in DOMAIN credAnswered' : (credAnswered')[a].finding = selectedFindings[i]
      <3>1. CASE i = k
        <4>1. NeedsAnswer(selectedFindings[k])
          BY <1>2 DEF WizardInv, QueueOK, k
        <4>2. n + 1 \in DOMAIN credAnswered' /\ (credAnswered')[n + 1].finding = selectedFindings[k]
          BY <1>2, <1>6
        <4> QED
          BY <3>1, <4>1, <4>2
      <3>2. CASE i # k
        <4>1. i \in DOMAIN authEnv /\ authEnv[i] # NoEnv
          BY <1>5, <2>2, <3>2
        <4>2. NeedsAnswer(selectedFindings[i]) /\ \E a \in 1..n : credAnswered[a].finding = selectedFindings[i]
          BY <1>6, <4>1 DEF WizardInv, AnswersOK
        <4>3. 1..n \subseteq DOMAIN credAnswered'
          BY <1>6
        <4> QED
          BY <1>6, <4>2, <4>3
      <3> QED
        BY <3>1, <3>2
    <2> QED
      BY <1>0, <2>1, <2>2 DEF AnswersOK, NeedsAnswer
  <1>8. SecretIsItsOwn'
    <2> SUFFICES ASSUME tidy, ~dryRun, NEW i \in DOMAIN authEnv, (authEnv')[i] \in Names
                 PROVE  LET e == (authEnv')[i]
                        IN  Len((vault')[e]) = 1 /\ Generated((vault')[e][1].of) = e
      BY <1>5 DEF SecretIsItsOwn, ToSet, Names, Generated
    <2> DEFINE e == (authEnv')[i]
    <2>1. CASE e = answer /\ answer = Generated(Current) /\ vault' = VaultWith(answer)
      <3>1. vault' = [vault EXCEPT ![answer] = box] /\ answer \in Names
        BY <1>2, <2>1, WizardConstants DEF VaultWith
      <3>2. (vault')[e] = box
        BY <1>1, <2>1, <3>1
      <3>3. Len(box) <= 1 /\ \A p \in DOMAIN box : box[p].of = Current
        BY DEF WizardInv, BoxOwn
      <3>4. Len(box) = 1 /\ 1 \in DOMAIN box
        <4>1. box \in Seq(Pieces) /\ box # <<>>
          BY <1>1
        <4>2. Len(box) \in Nat /\ Len(box) # 0 /\ DOMAIN box = 1..Len(box)
          BY ONLY <4>1
        <4> QED
          BY <3>3, <4>2
      <3> QED
        BY <2>1, <3>2, <3>3, <3>4
    <2>2. CASE ~(e = answer /\ answer = Generated(Current) /\ vault' = VaultWith(answer))
      <3>1. e # answer
        BY <2>2, WizardConstants
      <3>2. authEnv[i] = e
        BY <1>5, <3>1
      <3>3. (vault')[e] = vault[e]
        BY <1>1, <3>1 DEF VaultWith
      <3>4. e \in ToSet(authEnv) \cap Names
        BY <3>2 DEF ToSet
      <3>5. Len(vault[e]) = 1 /\ Generated(vault[e][1].of) = e
        BY <3>4 DEF WizardInv, FilesAsAnswered, SecretIsItsOwn
      <3> QED
        BY <3>3, <3>5
    <2> QED
      BY <2>1, <2>2
  <1>9. \A i \in DOMAIN authEnv' : (authEnv')[i] \in Names \cup {Given, NoEnv}
    BY <1>1, <1>3, <1>5
  <1>10. box' \in Seq(Pieces)
    BY <1>0
  <1> QED
    BY <1>0, <1>4, <1>5, <1>6, <1>7, <1>8, <1>9, <1>10, CredentialStep

-----------------------------------------------------------------------------
(***************************************************************************)
(* Hints and limits, and the files.                                        *)
(***************************************************************************)

LEMMA FormKeeps ==
  ASSUME WizardInv, wizardStep \in {"hints", "fillin", "skills"},
         wizardStep' \in {"hints", "fillin", "skills", "save"},
         UNCHANGED <<dryRun, auto, tidy, aborted, saveErr, chosen, credentials, files>>,
         lines' \in 0..MaxHints, focused' \in 1..4, allow' \in BOOLEAN,
         hints' \in Seq([kind : HintLines \cap HintKinds, name : (Nat \ {0}) \X HintKinds]),
         HintsNumbered'
  PROVE  WizardInv'
  <1>0. UNCHANGED <<picked, found, ticked, selectedFindings, queue, credAnswered, authEnv, box, asked,
                    vault, profile, configFile>>
    BY DEF chosen, credentials, files
  <1>1. WizardTypeOK'
    <2>1. wizardStep' \in WizardSteps
      BY DEF WizardSteps
    <2> QED
      BY <1>0, <2>1 DEF WizardInv, WizardTypeOK
  <1>2. wizardStep' \notin BeforeCommit /\ wizardStep' # "done" /\ wizardStep \notin BeforeCommit
        /\ wizardStep' # "credentials" /\ wizardStep # "done"
    BY DEF BeforeCommit
  <1>3. NothingYet' /\ SelectionOK'
    BY <1>0, <1>2 DEF WizardInv, NothingYet, SelectionOK, Kept, ToSet
  <1>4. QueueOK'
    BY <1>0, <1>2 DEF WizardInv, QueueOK, NeedsAnswer
  <1>5. AnswersOK'
    BY <1>0 DEF WizardInv, AnswersOK, NeedsAnswer
  <1>6. BoxOwn'
    BY <1>2 DEF BoxOwn
  <1>7. configFile' = Untouched /\ ~saveErr'
    BY <1>0, <1>2 DEF WizardInv, ConfigIsWritten
  <1>8. ConfigIsWritten'
    BY <1>7 DEF ConfigIsWritten, Untouched
  <1>9. SecretIsItsOwn'
    BY <1>0 DEF WizardInv, FilesAsAnswered, SecretIsItsOwn, ToSet
  <1>10. DryRunWritesNothing' /\ SavedTogether'
    BY <1>0, <1>2, <1>7 DEF WizardInv, FilesAsAnswered, DryRunWritesNothing, SavedTogether, Untouched
  <1> QED
    BY <1>1, <1>3, <1>4, <1>5, <1>6, <1>8, <1>9, <1>10, HintsNumbered' DEF WizardInv, FilesAsAnswered

\* A new hint has the next number of its kind.
LEMMA HintStep ==
  ASSUME WizardInv, NEW k \in HintLines, AddHint(k), UNCHANGED <<dryRun, auto, tidy, aborted, saveErr>>
  PROVE  WizardInv'
  <1> DEFINE R == [kind : HintLines \cap HintKinds, name : (Nat \ {0}) \X HintKinds]
             h == [kind |-> k, name |-> HintName(k)]
             n == Len(hints)
  <1>0. /\ wizardStep = "hints" /\ wizardStep' = "hints" /\ lines < MaxHints /\ lines' = lines + 1
        /\ hints' = IF Understood(k) THEN Append(hints, h) ELSE hints
        /\ UNCHANGED <<dryRun, auto, tidy, aborted, saveErr, chosen, credentials, focused, allow, files>>
    BY DEF AddHint
  <1>1. /\ hints \in Seq(R) /\ lines \in 0..MaxHints /\ focused \in 1..4 /\ allow \in BOOLEAN
        /\ MaxHints \in Nat
    BY WizardAssumption DEF WizardInv, WizardTypeOK
  <1>2. lines' \in 0..MaxHints
    BY <1>0, <1>1
  <1>3. n \in Nat /\ DOMAIN hints = 1..n
    <2> HIDE DEF R
    <2> QED
      BY <1>1
  <1>4. CASE ~Understood(k)
    <2>1. hints' = hints
      BY <1>0, <1>4
    <2>2. HintsNumbered'
      BY <2>1 DEF WizardInv, HintsNumbered
    <2> QED
      BY <1>0, <1>1, <1>2, <2>1, <2>2, FormKeeps
  <1>5. CASE Understood(k)
    <2> DEFINE same == {j \in DOMAIN hints : hints[j].kind = k}
    <2>1. IsFiniteSet(same) /\ Cardinality(same) \in Nat /\ n + 1 \notin same
      <3>1. same \subseteq 1..n /\ IsFiniteSet(1..n)
        BY <1>3, FS_Interval
      <3> QED
        BY <1>3, <3>1, FS_Subset, FS_CardinalityType
    <2>2. HintName(k) = <<Cardinality(same) + 1, k>>
      BY DEF HintName, Count
    <2>3. h \in R
      BY <1>5, <2>1, <2>2 DEF Understood
    <2>4. hints' = Append(hints, h)
      BY <1>0, <1>5
    <2> HIDE DEF R, h
    <2>5. /\ hints' \in Seq(R) /\ DOMAIN hints' = 1..n + 1
          /\ (\A i \in 1..n : (hints')[i] = hints[i]) /\ (hints')[n + 1] = h
      BY <1>1, <2>3, <2>4
    <2>6. h.kind = k /\ h.name = <<Cardinality(same) + 1, k>>
      BY <2>2 DEF h
    <2> HIDE DEF n
    <2>7. ASSUME NEW i \in DOMAIN hints'
          PROVE  (hints')[i].name
                   = <<Cardinality({j \in 1..i : (hints')[j].kind = (hints')[i].kind}), (hints')[i].kind>>
      <3>1. CASE i \in 1..n
        <4>1. {j \in 1..i : (hints')[j].kind = (hints')[i].kind} = {j \in 1..i : hints[j].kind = hints[i].kind}
          <5>1. \A j \in 1..i : j \in 1..n
            BY <1>3, <3>1
          <5> QED
            BY <2>5, <3>1, <5>1
        <4> QED
          BY <1>3, <2>5, <3>1, <4>1 DEF WizardInv, HintsNumbered
      <3>2. CASE i = n + 1
        <4>1. {j \in 1..i : (hints')[j].kind = (hints')[i].kind} = same \cup {n + 1}
          <5>1. 1..i = 1..n \cup {n + 1}
            BY <1>3, <3>2
          <5>2. (hints')[i].kind = k /\ (hints')[n + 1].kind = k
            BY <2>5, <2>6, <3>2
          <5>3. same = {j \in 1..n : (hints')[j].kind = k}
            BY <1>3, <2>5
          <5> QED
            BY <5>1, <5>2, <5>3
        <4>2. Cardinality(same \cup {n + 1}) = Cardinality(same) + 1
          BY <2>1, FS_AddElement
        <4> QED
          BY <2>5, <2>6, <3>2, <4>1, <4>2
      <3> QED
        BY <1>3, <2>5, <3>1, <3>2
    <2>8. HintsNumbered'
      BY <2>7 DEF HintsNumbered
    <2> QED
      BY <1>0, <1>1, <1>2, <2>5, <2>8, FormKeeps DEF R
  <1> QED
    BY <1>4, <1>5

\* The end: the profile, then the config.
LEMMA SaveStep ==
  ASSUME WizardInv, Persist \/ \E half \in BOOLEAN : PersistFails(half),
         UNCHANGED <<dryRun, auto, tidy, aborted>>, Persist => saveErr' = saveErr
  PROVE  WizardInv'
  <1>0. /\ wizardStep = "save" /\ wizardStep' = "done"
        /\ UNCHANGED <<chosen, credentials, form, vault>>
        /\ UNCHANGED <<picked, found, ticked, selectedFindings, queue, credAnswered, authEnv, box, asked,
                       hints, lines, focused, allow, vault, dryRun, auto, tidy, aborted>>
    BY DEF Persist, PersistFails, chosen, credentials, form
  <1>1. configFile = Untouched /\ ~saveErr
    BY <1>0 DEF WizardInv, ConfigIsWritten
  <1>2. \/ /\ dryRun /\ profile' = profile /\ configFile' = configFile /\ saveErr' = saveErr
        \/ /\ ~dryRun /\ profile' = "new" /\ configFile' = Written /\ saveErr' = saveErr
        \/ /\ ~dryRun /\ profile' \in {"new", profile} /\ configFile' = configFile /\ saveErr' = TRUE
    BY DEF Persist, PersistFails
  <1>3. WizardTypeOK'
    BY <1>0, <1>1, <1>2 DEF WizardInv, WizardTypeOK, WizardSteps
  <1>4. NothingYet' /\ SelectionOK'
    BY <1>0 DEF WizardInv, NothingYet, SelectionOK, Kept, ToSet, BeforeCommit
  <1>5. QueueOK'
    BY <1>0 DEF WizardInv, QueueOK, NeedsAnswer
  <1>6. AnswersOK'
    BY <1>0 DEF WizardInv, AnswersOK, NeedsAnswer
  <1>7. BoxOwn'
    BY <1>0 DEF BoxOwn
  <1>8. HintsNumbered'
    BY <1>0 DEF WizardInv, HintsNumbered
  <1>9. ConfigIsWritten'
    <2>1. Written' = Written
      BY <1>0 DEF Written, ConvertFindings, ConvertHints, Via, Applied, EnvOf, Prefix
    <2> QED
      BY <1>0, <1>1, <1>2, <2>1 DEF ConfigIsWritten
  <1>10. SecretIsItsOwn'
    BY <1>0 DEF WizardInv, FilesAsAnswered, SecretIsItsOwn, ToSet
  <1>11. DryRunWritesNothing' /\ SavedTogether'
    BY <1>0, <1>1, <1>2 DEF WizardInv, FilesAsAnswered, DryRunWritesNothing, SavedTogether, Untouched, Written
  <1> QED
    BY <1>3, <1>4, <1>5, <1>6, <1>7, <1>8, <1>9, <1>10, <1>11 DEF WizardInv, FilesAsAnswered

\* Nothing changes but that the operator may have quit.
LEMMA QuitStep ==
  ASSUME WizardInv, aborted' \in BOOLEAN,
         UNCHANGED <<wizardStep, dryRun, auto, tidy, saveErr, chosen, credentials, form, files>>
  PROVE  WizardInv'
  <1>0. UNCHANGED <<picked, found, ticked, selectedFindings, queue, credAnswered, authEnv, box, asked,
                    hints, lines, focused, allow, vault, profile, configFile>>
    BY DEF chosen, credentials, form, files
  <1>1. WizardTypeOK'
    BY <1>0 DEF WizardInv, WizardTypeOK
  <1>2. NothingYet' /\ SelectionOK'
    BY <1>0 DEF WizardInv, NothingYet, SelectionOK, Kept, ToSet, BeforeCommit
  <1>3. QueueOK'
    BY <1>0 DEF WizardInv, QueueOK, NeedsAnswer
  <1>4. AnswersOK'
    BY <1>0 DEF WizardInv, AnswersOK, NeedsAnswer
  <1>5. BoxOwn'
    BY <1>0 DEF WizardInv, BoxOwn, Current
  <1>6. HintsNumbered'
    BY <1>0 DEF WizardInv, HintsNumbered
  <1>7. ConfigIsWritten'
    <2>1. Written' = Written
      BY <1>0 DEF Written, ConvertFindings, ConvertHints, Via, Applied, EnvOf, Prefix
    <2> QED
      BY <1>0, <2>1 DEF WizardInv, ConfigIsWritten
  <1>8. FilesAsAnswered'
    BY <1>0 DEF WizardInv, FilesAsAnswered, SecretIsItsOwn, DryRunWritesNothing, SavedTogether, ToSet
  <1> QED
    BY <1>1, <1>2, <1>3, <1>4, <1>5, <1>6, <1>7, <1>8 DEF WizardInv

LEMMA WizardStepKeeps == WizardInv /\ [WizardNext]_wizardVars => WizardInv'
  <1> SUFFICES ASSUME WizardInv, [WizardNext]_wizardVars PROVE WizardInv'
    OBVIOUS
  <1>0. /\ picked \in Seq(Contexts) /\ found \in Seq(Findings) /\ ticked \subseteq Kinds /\ box \in Seq(Pieces)
        /\ lines \in 0..MaxHints /\ focused \in 1..4 /\ allow \in BOOLEAN /\ aborted \in BOOLEAN
        /\ hints \in Seq([kind : HintLines \cap HintKinds, name : (Nat \ {0}) \X HintKinds])
        /\ HintsNumbered
    BY DEF WizardInv, WizardTypeOK
  <1>1. CASE Quit
    BY <1>1, QuitStep DEF Quit
  <1>2. CASE Key
    <2>0. UNCHANGED <<dryRun, auto, tidy, aborted, saveErr>>
      BY <1>2 DEF Key
    <2>1. ASSUME NEW c \in Contexts, PickContext(c) PROVE WizardInv'
      <3>1. picked' \in Seq(Contexts)
        <4>1. CASE picked' = Append(picked, c)
          BY <1>0, <4>1
        <4>2. CASE \E i \in DOMAIN picked : picked' = RemoveAt(picked, i)
          BY <1>0, <4>2, RemoveAtIsSeq
        <4> QED
          BY <2>1, <4>1, <4>2 DEF PickContext
      <3> QED
        BY <1>0, <2>0, <2>1, <3>1, BeforeCommitKeeps DEF PickContext, BeforeCommit
    <2>2. CASE PickAll
      <3>1. picked' \in Seq(Contexts)
        <4>1. [Contexts -> Contexts] \subseteq Seq(Contexts)
          BY WizardConstants DEF Contexts
        <4>2. <<>> \in Seq(Contexts)
          OBVIOUS
        <4> QED
          BY <2>2, <4>1, <4>2 DEF PickAll
      <3> QED
        BY <1>0, <2>0, <2>2, <3>1, BeforeCommitKeeps DEF PickAll, BeforeCommit
    <2>3. CASE StartScan
      BY <1>0, <2>0, <2>3, BeforeCommitKeeps DEF StartScan, BeforeCommit, chosen
    <2>4. ASSUME NEW k \in Kinds, TickKind(k) PROVE WizardInv'
      <3>1. ticked' \subseteq Kinds
        BY <1>0, <2>4 DEF TickKind, SymDiff
      <3> QED
        BY <1>0, <2>0, <2>4, <3>1, BeforeCommitKeeps DEF TickKind, BeforeCommit
    <2>5. CASE CommitFindings
      BY <2>0, <2>5, CommitStep
    <2>6. ASSUME NEW f \in Forms, TypeAnswer(f) PROVE WizardInv'
      <3> DEFINE p == [of |-> Current, form |-> f]
      <3>1. /\ wizardStep = "credentials" /\ box' = Append(box, p)
            /\ \A i \in DOMAIN box : box[i].of # Current
            /\ UNCHANGED <<wizardStep, chosen, queue, credAnswered, authEnv, asked, form, files>>
        BY <2>6 DEF TypeAnswer
      <3>2. p \in Pieces /\ p.of = Current
        BY <3>1, Asking DEF Pieces
      <3> HIDE DEF p
      <3>3. /\ box' \in Seq(Pieces) /\ DOMAIN box = 1..Len(box) /\ Len(box) \in Nat
            /\ Len(box') = Len(box) + 1 /\ DOMAIN box' = 1..Len(box) + 1 /\ (box')[Len(box) + 1] = p
        <4>1. box' = Append(box, p) /\ box \in Seq(Pieces) /\ p \in Pieces
          BY <1>0, <3>1, <3>2
        <4> QED
          BY ONLY <4>1
      <3>4. tidy => Len(box) = 0
        BY <3>1, <3>3 DEF WizardInv, BoxOwn
      <3>5. tidy => Len(box') <= 1 /\ \A i \in DOMAIN box' : (box')[i].of = Current
        <4> SUFFICES ASSUME tidy PROVE Len(box') <= 1 /\ \A i \in DOMAIN box' : (box')[i].of = Current
          OBVIOUS
        <4>1. Len(box) = 0 /\ DOMAIN box' = {1}
          BY <3>3, <3>4
        <4> QED
          BY <3>2, <3>3, <4>1
      <3> QED
        BY <2>0, <3>1, <3>3, <3>5, BoxChanges
    <2>7. CASE EmptyBox
      <3>1. box' = <<>> /\ box' \in Seq(Pieces) /\ Len(box') <= 1 /\ DOMAIN box' = {}
        BY <2>7 DEF EmptyBox
      <3> QED
        BY <2>0, <2>7, <3>1, BoxChanges DEF EmptyBox
    <2>8. CASE SkipCredential
      BY <2>0, <2>8, SkipStep
    <2>9. CASE AnswerReference
      BY <2>0, <2>9, AcceptStep DEF AnswerReference
    <2>10. CASE AnswerLiteral
      BY <2>0, <2>10, AcceptStep DEF AnswerLiteral
    <2>11. CASE AnswerRefused
      BY <1>0, <2>0, <2>11, QuitStep DEF AnswerRefused
    <2>12. ASSUME NEW k \in HintLines, AddHint(k) PROVE WizardInv'
      BY <2>0, <2>12, HintStep
    <2>13. CASE HintsDone
      <3>1. hints' = hints /\ lines' = lines /\ HintsNumbered'
        BY <1>0, <2>13 DEF HintsDone, HintsNumbered
      <3>2. focused' \in 1..4 /\ allow' \in BOOLEAN
        <4>1. focused' = 1 /\ allow' = FALSE
          BY <2>13 DEF HintsDone
        <4>2. 1 \in 1..4 /\ FALSE \in BOOLEAN
          OBVIOUS
        <4> QED
          BY <4>1, <4>2, Zenon
      <3> QED
        BY <1>0, <2>0, <2>13, <3>1, <3>2, FormKeeps DEF HintsDone
    <2>14. CASE MoveFocus
      <3>1. hints' = hints /\ HintsNumbered' /\ focused' \in 1..4
        <4>1. \A x \in 1..4 : (x % 4) + 1 \in 1..4 /\ ((x + 2) % 4) + 1 \in 1..4
          OBVIOUS
        <4>2. focused' \in 1..4
          BY <1>0, <2>14, <4>1 DEF MoveFocus
        <4> QED
          BY <1>0, <2>14, <4>2 DEF MoveFocus, HintsNumbered
      <3> QED
        BY <1>0, <2>0, <2>14, <3>1, FormKeeps DEF MoveFocus
    <2>15. CASE TypeAllow
      <3>1. hints' = hints /\ HintsNumbered' /\ allow' \in BOOLEAN
        BY <1>0, <2>15 DEF TypeAllow, HintsNumbered
      <3> QED
        BY <1>0, <2>0, <2>15, <3>1, FormKeeps DEF TypeAllow
    <2>16. CASE EnterInput
      <3>1. hints' = hints /\ HintsNumbered' /\ focused' \in 1..4 /\ wizardStep' \in {"fillin", "skills"}
        <4>1. focused' \in 1..4 /\ wizardStep' \in {"fillin", "skills"}
          BY <1>0, <2>16 DEF EnterInput
        <4> QED
          BY <1>0, <2>16, <4>1 DEF EnterInput, HintsNumbered
      <3> QED
        BY <1>0, <2>0, <2>16, <3>1, FormKeeps DEF EnterInput
    <2>17. CASE SkillsDone
      <3>1. UNCHANGED <<hints, lines, focused, allow>> /\ HintsNumbered'
        BY <1>0, <2>17 DEF SkillsDone, HintsNumbered, form
      <3> QED
        BY <1>0, <2>0, <2>17, <3>1, FormKeeps DEF SkillsDone
    <2> QED
      BY <1>2, <2>1, <2>2, <2>3, <2>4, <2>5, <2>6, <2>7, <2>8, <2>9, <2>10, <2>11, <2>12, <2>13, <2>14,
         <2>15, <2>16, <2>17 DEF Key
  <1>3. CASE Message
    <2>0. UNCHANGED <<dryRun, auto, tidy, aborted>>
      BY <1>3 DEF Message
    <2>1. ASSUME NEW heard \in SUBSET (Kinds \X Contexts), NEW proxied \in BOOLEAN,
                 ScanFinished(heard, proxied), saveErr' = saveErr
          PROVE  WizardInv'
      <3> DEFINE S == Reached(heard, proxied)
      <3>1. S \in SUBSET (1..Len(Services)) /\ Len(Services) \in Nat
        BY WizardConstants DEF Reached
      <3>2. Rising(S) \in Seq(Findings)
        <4> HIDE DEF S
        <4>1. Rising(S) \in Seq(S) /\ S \subseteq Findings
          BY <3>1, RisingFacts, WizardConstants
        <4> QED
          BY ONLY <4>1
      <3>3. found' \in Seq(Findings) /\ ticked' \subseteq Kinds
        BY <2>1, <3>1, <3>2, WizardConstants DEF ScanFinished
      <3> QED
        BY <1>0, <2>0, <2>1, <3>3, BeforeCommitKeeps DEF ScanFinished, BeforeCommit
    <2>2. CASE AutoScanDone /\ saveErr' = saveErr
      BY <1>0, <2>0, <2>2, BeforeCommitKeeps DEF AutoScanDone, BeforeCommit, chosen
    <2>3. CASE Persist
      <3>1. saveErr' = saveErr
        BY <2>3 DEF Persist
      <3> QED
        BY <2>0, <2>3, <3>1, SaveStep
    <2>4. ASSUME NEW half \in BOOLEAN, PersistFails(half) PROVE WizardInv'
      <3>1. ~Persist \/ saveErr' = saveErr
        BY DEF Persist
      <3> QED
        BY <2>0, <2>4, <3>1, SaveStep
    <2> QED
      BY <1>3, <2>1, <2>2, <2>3, <2>4 DEF Message
  <1>4. CASE UNCHANGED wizardVars
    BY <1>0, <1>4, QuitStep DEF wizardVars
  <1> QED
    BY <1>1, <1>2, <1>3, <1>4 DEF WizardNext

-----------------------------------------------------------------------------
(***************************************************************************)
(* What stands in the config.                                              *)
(***************************************************************************)

\* Places with the same mark are counted upwards.
LEMMA CountsGrow ==
  ASSUME NEW K, NEW i \in Nat, NEW j \in Nat, 1 <= i, i < j, K[i] = K[j]
  PROVE  Cardinality({l \in 1..i : K[l] = K[i]}) # Cardinality({l \in 1..j : K[l] = K[j]})
  <1> DEFINE A == {l \in 1..i : K[l] = K[i]}
             B == {l \in 1..j : K[l] = K[j]}
  <1>1. IsFiniteSet(1..i) /\ IsFiniteSet(1..j)
    BY FS_Interval
  <1>2. IsFiniteSet(A) /\ IsFiniteSet(B) /\ Cardinality(A) \in Nat /\ Cardinality(B) \in Nat
    <2>1. A \in SUBSET (1..i) /\ B \in SUBSET (1..j)
      OBVIOUS
    <2> HIDE DEF A, B
    <2> QED
      BY <1>1, <2>1, FS_Subset, FS_CardinalityType
  <1>3. A \cup {j} \in SUBSET B /\ j \notin A
    OBVIOUS
  <1> HIDE DEF A, B
  <1>4. Cardinality(A \cup {j}) = Cardinality(A) + 1 /\ Cardinality(A \cup {j}) <= Cardinality(B)
    BY <1>2, <1>3, FS_AddElement, FS_Subset
  <1> QED
    BY <1>2, <1>4 DEF A, B

\* The endpoints: first those of the findings, then those of the hints.
LEMMA EndpointsWritten ==
  ASSUME WizardInv, configFile.fresh
  PROVE  /\ Len(selectedFindings) \in Nat /\ Len(hints) \in Nat
         /\ DOMAIN configFile.endpoints = 1..Len(selectedFindings) + Len(hints)
         /\ DOMAIN selectedFindings = 1..Len(selectedFindings) /\ DOMAIN hints = 1..Len(hints)
         /\ \A i \in 1..Len(selectedFindings) : configFile.endpoints[i] = ConvertFindings[i]
         /\ \A i \in 1..Len(hints) :
              configFile.endpoints[Len(selectedFindings) + i] = ConvertHints[i]
         /\ wizardStep = "done"
  <1> DEFINE n == Len(selectedFindings)
             m == Len(hints)
             E == configFile.endpoints
  <1>1. configFile = Written /\ wizardStep = "done"
    BY DEF WizardInv, ConfigIsWritten, Untouched
  <1>2. n \in Nat /\ m \in Nat /\ DOMAIN selectedFindings = 1..n /\ DOMAIN hints = 1..m
    <2> DEFINE R == [kind : HintLines \cap HintKinds, name : (Nat \ {0}) \X HintKinds]
    <2>1. selectedFindings \in Seq(Findings) /\ hints \in Seq(R)
      BY DEF WizardInv, WizardTypeOK
    <2> HIDE DEF R
    <2> QED
      BY <2>1
  <1> DEFINE a == ConvertFindings
             b == ConvertHints
             S == {a[i] : i \in 1..n} \cup {b[i] : i \in 1..m}
  <1>3. E = a \o b
    BY <1>1 DEF Written
  <1> HIDE DEF n, m, E
  <1>4. DOMAIN a = 1..n /\ DOMAIN b = 1..m /\ a = [i \in 1..n |-> a[i]] /\ b = [i \in 1..m |-> b[i]]
    BY <1>2 DEF ConvertFindings, ConvertHints
  <1> HIDE DEF a, b
  <1>5. a \in Seq(S) /\ b \in Seq(S) /\ Len(a) = n /\ Len(b) = m
    <2>1. a \in [1..n -> S] /\ b \in [1..m -> S]
      BY <1>4
    <2> HIDE DEF S
    <2> QED
      BY <1>2, <2>1
  <1> HIDE DEF S
  <1>6. /\ a \o b \in Seq(S) /\ Len(a \o b) = Len(a) + Len(b)
        /\ \A i \in 1..Len(a) + Len(b) : (a \o b)[i] = IF i <= Len(a) THEN a[i] ELSE b[i - Len(a)]
    BY <1>5, ConcatProperties
  <1>7. E \in Seq(S) /\ Len(E) = n + m /\ \A i \in 1..n + m : E[i] = IF i <= n THEN a[i] ELSE b[i - n]
    BY <1>3, <1>5, <1>6
  <1>8. DOMAIN E = 1..n + m
    BY <1>7
  <1>9. \A i \in 1..n : E[i] = a[i]
    BY <1>2, <1>7
  <1>10. \A i \in 1..m : E[n + i] = b[i]
    <2> TAKE i \in 1..m
    <2> DEFINE k == n + i
    <2>1. k \in 1..n + m /\ ~(k <= n) /\ k - n = i
      BY <1>2
    <2> HIDE DEF k
    <2>2. E[k] = IF k <= n THEN a[k] ELSE b[k - n]
      BY <1>7, <2>1
    <2>3. E[k] = b[i]
      BY <2>1, <2>2
    <2> QED
      BY <2>3 DEF k
  <1> QED
    BY <1>1, <1>2, <1>8, <1>9, <1>10 DEF a, b, n, m, E

LEMMA FoundAreWritten ==
  ASSUME WizardInv, configFile.fresh, NEW n, n = Len(selectedFindings)
  PROVE  /\ n \in Nat /\ DOMAIN selectedFindings = 1..n /\ DOMAIN authEnv = 1..n
         /\ FoundEndpoints = {ConvertFindings[i] : i \in 1..n}
         /\ \A i \in 1..n : /\ ConvertFindings[i].of = selectedFindings[i]
                            /\ ConvertFindings[i].env = Applied(selectedFindings[i], authEnv[i])
                            /\ selectedFindings[i] \in Findings
  <1> DEFINE E == configFile.endpoints
             m == Len(hints)
  <1>1. /\ n \in Nat /\ m \in Nat /\ DOMAIN E = 1..n + m
        /\ DOMAIN selectedFindings = 1..n /\ DOMAIN hints = 1..m
        /\ \A i \in 1..n : E[i] = ConvertFindings[i]
        /\ \A i \in 1..m : E[n + i] = ConvertHints[i]
    BY EndpointsWritten
  <1>2. \A i \in 1..n : /\ ConvertFindings[i].origin = "found" /\ ConvertFindings[i].of = selectedFindings[i]
                        /\ ConvertFindings[i].env = Applied(selectedFindings[i], authEnv[i])
    BY <1>1 DEF ConvertFindings, EnvOf
  <1>3. \A i \in 1..m : ConvertHints[i].origin = "hinted"
    BY <1>1 DEF ConvertHints
  <1> HIDE DEF E, m
  <1>4. FoundEndpoints = {e \in {E[i] : i \in 1..n + m} : e.origin = "found"}
    BY <1>1 DEF FoundEndpoints, ToSet, E
  <1>5. ASSUME NEW i \in 1..n + m PROVE i \in 1..n \/ (i - n \in 1..m /\ n + (i - n) = i)
    BY <1>1
  <1>6. ASSUME NEW i \in 1..n + m, E[i].origin = "found" PROVE i \in 1..n
    <2> SUFFICES ASSUME i - n \in 1..m, n + (i - n) = i PROVE FALSE
      BY <1>5
    <2>1. E[n + (i - n)] = ConvertHints[i - n]
      BY <1>1
    <2> QED
      BY <1>3, <1>6, <2>1
  <1>7. 1..n \subseteq 1..n + m
    BY <1>1
  <1>8. FoundEndpoints = {ConvertFindings[i] : i \in 1..n}
    BY <1>1, <1>2, <1>4, <1>6, <1>7
  <1>9. DOMAIN authEnv = 1..n /\ \A i \in 1..n : selectedFindings[i] \in Findings
    <2>1. selectedFindings \in Seq(Findings) /\ DOMAIN authEnv = 1..n
      BY DEF WizardInv, WizardTypeOK
    <2> QED
      BY <1>1, <2>1
  <1> QED
    BY <1>1, <1>2, <1>8, <1>9

LEMMA ChoiceIsSaved == WizardInv => ChoiceSaved
  <1> SUFFICES ASSUME WizardInv, configFile.fresh, ~auto
               PROVE  /\ {e.of : e \in FoundEndpoints} = {s \in ToSet(found) : Services[s].kind \in ticked}
                      /\ Cardinality(FoundEndpoints) = Len(selectedFindings)
    BY DEF ChoiceSaved
  <1> DEFINE n == Len(selectedFindings)
             c == ConvertFindings
  <1>1. /\ n \in Nat /\ DOMAIN selectedFindings = 1..n /\ FoundEndpoints = {c[i] : i \in 1..n}
        /\ \A i \in 1..n : c[i].of = selectedFindings[i]
    BY FoundAreWritten
  <1>2. wizardStep \notin BeforeCommit
    BY EndpointsWritten DEF BeforeCommit
  <1>3. /\ ToSet(selectedFindings) = {s \in ToSet(found) : Services[s].kind \in ticked}
        /\ \A i, j \in 1..n : i # j => selectedFindings[i] # selectedFindings[j]
    BY <1>1, <1>2 DEF WizardInv, SelectionOK, Kept
  <1>4. {e.of : e \in FoundEndpoints} = ToSet(selectedFindings)
    BY <1>1 DEF ToSet
  <1>5. Cardinality(FoundEndpoints) = n
    <2> DEFINE f == [i \in 1..n |-> c[i]]
               T == {c[i] : i \in 1..n}
    <2> HIDE DEF c, n
    <2>1. f \in Bijection(1..n, T)
      <3>1. \A i, j \in 1..n : c[i] = c[j] => i = j
        BY <1>1, <1>3
      <3>2. f \in [1..n -> T] /\ \A t \in T : \E i \in 1..n : f[i] = t
        OBVIOUS
      <3>3. \A i, j \in 1..n : f[i] = f[j] => i = j
        BY <3>1
      <3> HIDE DEF f, T
      <3> QED
        BY <3>2, <3>3 DEF Bijection, Injection, Surjection, IsInjective
    <2>2. ExistsBijection(1..n, T)
      BY <2>1 DEF ExistsBijection
    <2>3. IsFiniteSet(1..n) /\ Cardinality(1..n) = n
      <3>1. \A q \in Nat : IsFiniteSet(1..q) /\ Cardinality(1..q) = q
        BY FS_Interval
      <3> QED
        BY <1>1, <3>1
    <2> HIDE DEF T
    <2>4. Cardinality(T) = Cardinality(1..n)
      BY <2>2, <2>3, FS_Bijection
    <2> QED
      BY <1>1, <2>3, <2>4 DEF T
  <1> QED
    BY <1>3, <1>4, <1>5

LEMMA AnswersAreFollowed == WizardInv => AuthFollowsAnswers
  <1> SUFFICES ASSUME WizardInv, configFile.fresh, NEW e \in FoundEndpoints
               PROVE  e.env = AnswerOf(e.of)
    BY DEF AuthFollowsAnswers
  <1> DEFINE n == Len(selectedFindings)
  <1>1. /\ n \in Nat /\ DOMAIN selectedFindings = 1..n /\ DOMAIN authEnv = 1..n
        /\ FoundEndpoints = {ConvertFindings[i] : i \in 1..n}
        /\ \A i \in 1..n : /\ ConvertFindings[i].of = selectedFindings[i]
                           /\ ConvertFindings[i].env = Applied(selectedFindings[i], authEnv[i])
                           /\ selectedFindings[i] \in Findings
    BY FoundAreWritten
  <1> HIDE DEF n
  <1>2. PICK i \in 1..n : e = ConvertFindings[i]
    BY <1>1
  <1> DEFINE s == selectedFindings[i]
  <1>3. e.of = s /\ e.env = Applied(s, authEnv[i]) /\ s \in Findings
    BY <1>1, <1>2
  <1>4. Applied(s, authEnv[i]) = authEnv[i]
    <2>1. CASE authEnv[i] = NoEnv
      BY <2>1 DEF Applied
    <2>2. CASE authEnv[i] # NoEnv
      <3>1. NeedsAnswer(s)
        BY <1>1, <2>2 DEF WizardInv, AnswersOK
      <3>2. Services[s].auth \in Auths /\ (Services[s].auth = "password" => Services[s].kind \in DbKinds)
        BY <1>3, WizardConstants
      <3> HIDE DEF s
      <3> QED
        BY <3>1, <3>2 DEF Applied, NeedsAnswer, Auths
    <2> QED
      BY <2>1, <2>2
  <1>5. ASSUME NEW a \in DOMAIN credAnswered, credAnswered[a].finding = s
        PROVE  credAnswered[a].env = authEnv[i]
    <2>1. PICK j \in 1..asked :
            credAnswered[a] = [finding |-> selectedFindings[queue[j]], env |-> authEnv[queue[j]]]
      BY DEF WizardInv, AnswersOK
    <2>2. j \in DOMAIN queue /\ queue[j] \in 1..n
      <3>1. queue \in Seq(1..n) /\ asked \in 0..Len(queue)
        BY DEF WizardInv, WizardTypeOK, n
      <3>2. DOMAIN queue = 1..Len(queue) /\ Len(queue) \in Nat /\ \A q \in DOMAIN queue : queue[q] \in 1..n
        <4> DEFINE U == 1..n
        <4>1. queue \in Seq(U)
          BY <3>1
        <4> HIDE DEF U
        <4>2. DOMAIN queue = 1..Len(queue) /\ Len(queue) \in Nat /\ \A q \in DOMAIN queue : queue[q] \in U
          BY ONLY <4>1
        <4> QED
          BY <4>2 DEF U
      <3>3. j \in DOMAIN queue
        BY <3>1, <3>2
      <3> QED
        BY <3>2, <3>3
    <2>3. selectedFindings[queue[j]] = selectedFindings[i]
      BY <1>5, <2>1
    <2>4. queue[j] = i
      BY <1>1, <2>2, <2>3 DEF WizardInv, SelectionOK
    <2> QED
      BY <2>1, <2>4
  <1>6. CASE \E a \in ToSet(credAnswered) : a.finding = s
    <2> DEFINE x == CHOOSE a \in ToSet(credAnswered) : a.finding = s
    <2>1. x \in ToSet(credAnswered) /\ x.finding = s
      BY <1>6
    <2>2. PICK a \in DOMAIN credAnswered : x = credAnswered[a]
      BY <2>1 DEF ToSet
    <2>3. x.env = authEnv[i]
      BY <1>5, <2>1, <2>2
    <2>4. AnswerOf(s) = x.env
      BY <1>6 DEF AnswerOf
    <2> QED
      BY <1>3, <1>4, <2>3, <2>4
  <1>7. CASE ~\E a \in ToSet(credAnswered) : a.finding = s
    <2>1. \A a \in DOMAIN credAnswered : credAnswered[a].finding # s
      BY <1>7 DEF ToSet
    <2>2. authEnv[i] = NoEnv
      BY <1>1, <2>1 DEF WizardInv, AnswersOK
    <2>3. AnswerOf(s) = NoEnv
      BY <1>7 DEF AnswerOf
    <2> QED
      BY <1>3, <1>4, <2>2, <2>3
  <1> QED
    BY <1>6, <1>7

LEMMA NamesAreApart == WizardInv => NamesApart
  <1> DEFINE E == configFile.endpoints
             n == Len(selectedFindings)
             m == Len(hints)
  <1> SUFFICES ASSUME WizardInv, NEW i \in DOMAIN E, NEW j \in DOMAIN E, i # j, E[i].name = E[j].name
               PROVE  E[i].origin # E[j].origin
    BY DEF NamesApart
  <1>1. configFile.fresh
    <2>1. configFile # Untouched
      BY DEF Untouched
    <2> QED
      BY <2>1 DEF WizardInv, ConfigIsWritten, Written
  <1>2. /\ n \in Nat /\ m \in Nat /\ DOMAIN E = 1..n + m
        /\ DOMAIN selectedFindings = 1..n /\ DOMAIN hints = 1..m
        /\ \A k \in 1..n : E[k] = ConvertFindings[k]
        /\ \A k \in 1..m : E[n + k] = ConvertHints[k]
    BY <1>1, EndpointsWritten
  <1> DEFINE K == [k \in 1..n |-> Services[selectedFindings[k]].kind]
             H == [k \in 1..m |-> hints[k].kind]
             N(F, k) == Cardinality({l \in 1..k : F[l] = F[k]})
  <1>3. ASSUME NEW k \in 1..n
        PROVE  E[k].origin = "found" /\ E[k].name = <<N(K, k), Prefix(K[k])>>
    <2>1. {l \in 1..k : Services[selectedFindings[l]].kind = Services[selectedFindings[k]].kind}
            = {l \in 1..k : K[l] = K[k]}
      <3>1. \A l \in 1..k : l \in 1..n
        BY <1>2
      <3> QED
        BY <3>1
    <2>2. ConvertFindings[k].origin = "found"
          /\ ConvertFindings[k].name
               = <<Cardinality({l \in 1..k : Services[selectedFindings[l]].kind
                                               = Services[selectedFindings[k]].kind}),
                   Prefix(Services[selectedFindings[k]].kind)>>
      BY <1>2 DEF ConvertFindings
    <2> QED
      BY <1>2, <2>1, <2>2
  <1>4. ASSUME NEW k \in 1..m
        PROVE  E[n + k].origin = "hinted" /\ E[n + k].name = <<N(H, k), H[k]>>
    <2>1. {l \in 1..k : hints[l].kind = hints[k].kind} = {l \in 1..k : H[l] = H[k]}
      <3>1. \A l \in 1..k : l \in 1..m
        BY <1>2
      <3> QED
        BY <3>1
    <2>2. hints[k].name = <<Cardinality({l \in 1..k : hints[l].kind = hints[k].kind}), hints[k].kind>>
      BY <1>2 DEF WizardInv, HintsNumbered
    <2>3. ConvertHints[k].origin = "hinted" /\ ConvertHints[k].name = hints[k].name
      BY <1>2 DEF ConvertHints
    <2> QED
      BY <1>2, <2>1, <2>2, <2>3
  <1>5. \A k \in 1..n : K[k] \in DbKinds \cup HttpKinds
    BY <1>1, FoundAreWritten, WizardConstants
  <1>6. \A k, l \in 1..n : Prefix(K[k]) = Prefix(K[l]) => K[k] = K[l]
    BY <1>5 DEF Prefix, DbKinds, HttpKinds
  <1> HIDE DEF E, n, m, K, H
  <1>7. ASSUME NEW F, NEW k \in Nat \ {0}, NEW l \in Nat \ {0}, k # l, F[k] = F[l]
        PROVE  N(F, k) # N(F, l)
    <2>1. CASE k < l
      BY <1>7, <2>1, CountsGrow
    <2>2. CASE l < k
      BY <1>7, <2>2, CountsGrow
    <2> QED
      BY <1>7, <2>1, <2>2
  <1> HIDE DEF N
  <1>8. ASSUME NEW k \in 1..n + m PROVE k \in 1..n \/ (k - n \in 1..m /\ n + (k - n) = k)
    BY <1>2
  <1>9. CASE i \in 1..n /\ j \in 1..n
    <2>1. N(K, i) = N(K, j) /\ Prefix(K[i]) = Prefix(K[j])
      BY <1>3, <1>9
    <2>2. K[i] = K[j] /\ i \in Nat \ {0} /\ j \in Nat \ {0}
      BY <1>2, <1>6, <1>9, <2>1
    <2> QED
      BY <1>7, <2>1, <2>2
  <1>10. CASE i - n \in 1..m /\ j - n \in 1..m /\ n + (i - n) = i /\ n + (j - n) = j
    <2> DEFINE k == i - n
               l == j - n
    <2>1. /\ k \in 1..m /\ l \in 1..m /\ k # l /\ n + k = i /\ n + l = j
          /\ k \in Nat \ {0} /\ l \in Nat \ {0}
      BY <1>2, <1>10
    <2> HIDE DEF k, l
    <2>2. N(H, k) = N(H, l) /\ H[k] = H[l]
      BY <1>4, <2>1
    <2> QED
      BY <1>7, <2>1, <2>2
  <1>11. CASE i \in 1..n /\ j - n \in 1..m /\ n + (j - n) = j
    <2>1. E[i].origin = "found" /\ E[j].origin = "hinted"
      BY <1>3, <1>4, <1>11
    <2> QED
      BY <2>1
  <1>12. CASE j \in 1..n /\ i - n \in 1..m /\ n + (i - n) = i
    <2>1. E[j].origin = "found" /\ E[i].origin = "hinted"
      BY <1>3, <1>4, <1>12
    <2> QED
      BY <2>1
  <1>13. i \in 1..n + m /\ j \in 1..n + m
    BY <1>2 DEF E
  <1> QED
    BY <1>8, <1>9, <1>10, <1>11, <1>12, <1>13

\* For any number of contexts, of services and of wanted, of questions and of
\* hints, and whatever the operator picks, skips, types and quits: every
\* endpoint that is saved belongs to a group that was kept, has a name of its
\* own and the credential that was given for it, and the files are written
\* together or not at all.
THEOREM WizardKeepsItsWord == WizardSpec => []WizardAsTold
  <1>1. WizardInv => WizardAsTold
    BY ChoiceIsSaved, AnswersAreFollowed, NamesAreApart DEF WizardAsTold, EndpointsAsChosen, WizardInv
  <1> QED
    BY <1>1, WizardInitially, WizardStepKeeps, PTL DEF WizardSpec
=============================================================================
