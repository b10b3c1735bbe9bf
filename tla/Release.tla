------------------------------ MODULE Release ------------------------------
(***************************************************************************)
(* The release of the two packages (scripts/release-candidate.mjs,         *)
(* check-release-candidate.mjs, publish-release-candidate.mjs,             *)
(* verify-published-release.mjs and .github/workflows/release.yml).        *)
(*                                                                         *)
(* Continuous integration packs one candidate of a commit: the tarballs of *)
(* `smocket` and `smocket-client` and a manifest with their digests.  A    *)
(* release run takes that candidate through five jobs, each on a machine   *)
(* of its own that downloads it again.  A job may stop at any point, also  *)
(* after the registry has accepted what it sent, and failed jobs may be    *)
(* run again.  The npm registry is external: it accepts a version of a     *)
(* package once, and shows it some time after.                             *)
(***************************************************************************)
EXTENDS Naturals, FiniteSets

CONSTANTS
  Commits, Versions, Runs,
  SourceOf,         \* the versions in the package manifests of each commit
  Nobody, Damaged,  \* no tarball; a tarball other than the one that was packed
  Checks,           \* bound: how many checks a candidate goes through
  Attempts,         \* --attempts of the verification
  MaxReruns,        \* bound: how often jobs are run again
  MaxFaults         \* bound: downloads that damage, machines that stop

ASSUME ReleaseAssumption ==
  /\ SourceOf \in [Commits -> [root : Versions, client : Versions, peer : Versions]]
  /\ Nobody \notin Commits /\ Damaged \notin Commits \cup {Nobody}
  /\ {Checks, MaxReruns, MaxFaults} \subseteq Nat /\ Attempts \in Nat \ {0}

Packages == {"smocket", "smocket-client"}
Tarballs == Commits \cup {Nobody, Damaged}

VARIABLES
  ci,               \* the stage of the `package` job of each commit, and its outcome
  checked,          \* how many checks its candidate has gone through
  candidate,        \* its tarballs, on disk and then in its artifact
  commit, version,  \* what each run was started for
  job,              \* the jobs of each run
  copy,             \* the tarballs that the job now running has downloaded
  attempt, pending, \* the loop of verifyRegistryVisibility
  registry,         \* the tarball of each package and version
  visible,          \* the packages and versions that lookups find
  certified,        \* history: the commits whose release was verified
  reruns, faults

ciVars == <<ci, checked, candidate>>
runVars == <<commit, version, job, copy, attempt, pending>>
registryVars == <<registry, visible>>
vars == <<ciVars, runVars, registryVars, certified, reruns, faults>>

Jobs == {"certify-ci", "preflight", "publish-root", "publish-client", "verify-published"}
NeedsOnlyTheCandidate == [j \in Jobs |->   \* mutant of Needs: the client does not wait for the root
            CASE j = "certify-ci" -> {}
              [] j = "preflight" -> {"certify-ci"}
              [] j \in {"publish-root", "publish-client"} -> {"preflight"}
              [] j = "verify-published" -> {"publish-client"}]
Needs == [j \in Jobs |->
            CASE j = "certify-ci" -> {}
              [] j = "preflight" -> {"certify-ci"}
              [] j = "publish-root" -> {"preflight"}
              [] j = "publish-client" -> {"publish-root"}
              [] j = "verify-published" -> {"publish-client"}]
PackageOf(j) == IF j = "publish-root" THEN "smocket" ELSE "smocket-client"
Stages == {"waiting", "downloaded", "loaded", "allowed", "accepted", "seen", "looking", "done", "failed"}

TypeOK ==
  /\ ci \in [Commits -> {"none", "checking", "success", "failure"}]
  /\ checked \in [Commits -> 0..Checks]
  /\ candidate \in [Commits -> [Packages -> Tarballs]]
  /\ commit \in [Runs -> Commits \cup {Nobody}] /\ version \in [Runs -> Versions \cup {Nobody}]
  /\ job \in [Runs -> [Jobs -> Stages]]
  /\ copy \in [Runs -> [Packages -> Tarballs]]
  /\ attempt \in [Runs -> 0..Attempts] /\ pending \in [Runs -> SUBSET Packages]
  /\ registry \in [Packages \X Versions -> Tarballs] /\ visible \subseteq Packages \X Versions
  /\ certified \subseteq Commits /\ reruns \in 0..MaxReruns /\ faults \in 0..MaxFaults

NoTarballs == [p \in Packages |-> Nobody]

Init ==
  /\ ci = [c \in Commits |-> "none"] /\ checked = [c \in Commits |-> 0]
  /\ candidate = [c \in Commits |-> NoTarballs]
  /\ commit = [r \in Runs |-> Nobody] /\ version = [r \in Runs |-> Nobody]
  /\ job = [r \in Runs |-> [j \in Jobs |-> "waiting"]]
  /\ copy = [r \in Runs |-> NoTarballs]
  /\ attempt = [r \in Runs |-> 0] /\ pending = [r \in Runs |-> {}]
  /\ registry = [e \in Packages \X Versions |-> Nobody] /\ visible = {}
  /\ certified = {} /\ reruns = 0 /\ faults = 0

-----------------------------------------------------------------------------
(* Continuous integration.                                                 *)

\* validateManifestShape() and loadReleaseCandidate(): both tarballs are those of the
\* manifest, by size and digest.
Loads(tarballs, c) == tarballs = [p \in Packages |-> c]

Fault == faults < MaxFaults /\ faults' = faults + 1

\* createReleaseCandidate(): one version for both packages and an exact peer, or nothing.
CreateCandidate(c) ==
  /\ ci[c] = "none"
  /\ \/ /\ SourceOf[c].client = SourceOf[c].root /\ SourceOf[c].peer = SourceOf[c].root
        /\ candidate' = [candidate EXCEPT ![c] = [p \in Packages |-> c]]
        /\ ci' = [ci EXCEPT ![c] = "checking"]
     \/ /\ ~(SourceOf[c].client = SourceOf[c].root /\ SourceOf[c].peer = SourceOf[c].root)
        /\ ci' = [ci EXCEPT ![c] = "failure"]
        /\ UNCHANGED candidate
  /\ UNCHANGED <<checked, runVars, registryVars, certified, reruns, faults>>

\* One check of check-release-candidate.mjs, which verifies the candidate first; the
\* tool it runs is not trusted to leave the tarballs alone.
CheckCandidate(c) ==
  /\ ci[c] = "checking" /\ checked[c] < Checks
  /\ IF ~Loads(candidate[c], c)
     THEN ci' = [ci EXCEPT ![c] = "failure"] /\ UNCHANGED <<checked, candidate, faults>>
     ELSE \/ ci' = [ci EXCEPT ![c] = "failure"] /\ UNCHANGED <<checked, candidate, faults>>
          \/ /\ checked' = [checked EXCEPT ![c] = @ + 1]
             /\ \/ UNCHANGED <<candidate, faults>>
                \/ Fault /\ \E p \in Packages : candidate' = [candidate EXCEPT ![c][p] = Damaged]
             /\ UNCHANGED ci
  /\ UNCHANGED <<runVars, registryVars, certified, reruns>>

ConcludeUnverified(c) ==   \* mutant of ConcludeChecks: the last check is trusted
  /\ ci[c] = "checking" /\ checked[c] = Checks
  /\ ci' = [ci EXCEPT ![c] = "success"]
  /\ UNCHANGED <<checked, candidate, runVars, registryVars, certified, reruns, faults>>

\* After the last check it is verified once more, and uploaded.
ConcludeChecks(c) ==
  /\ ci[c] = "checking" /\ checked[c] = Checks
  /\ ci' = [ci EXCEPT ![c] = IF Loads(candidate[c], c) THEN "success" ELSE "failure"]
  /\ UNCHANGED <<checked, candidate, runVars, registryVars, certified, reruns, faults>>

-----------------------------------------------------------------------------
(* The release workflow.                                                   *)

SetJob(r, j, stage) == job' = [job EXCEPT ![r][j] = stage]
Started(r) == commit[r] # Nobody
Failed(r) == \E j \in Jobs : job[r][j] = "failed"
Complete(r) == job[r]["verify-published"] = "done"
InProgress(r) == Started(r) /\ ~Failed(r) /\ ~Complete(r)

\* The concurrency group admits one run at a time.
GroupIsFree == \A r \in Runs : ~InProgress(r)

Dispatch(r, c, v) ==
  /\ ~Started(r) /\ GroupIsFree
  /\ commit' = [commit EXCEPT ![r] = c] /\ version' = [version EXCEPT ![r] = v]
  /\ UNCHANGED <<ciVars, job, copy, attempt, pending, registryVars, certified, reruns, faults>>

\* "Re-run failed jobs", and those that wait for them; or "Re-run all jobs".
Rerun(r) ==
  /\ Failed(r) \/ Complete(r)
  /\ GroupIsFree /\ reruns < MaxReruns
  /\ reruns' = reruns + 1
  /\ job' = [job EXCEPT ![r] =
               [j \in Jobs |-> IF job[r][j] = "failed" THEN "waiting" ELSE job[r][j]]]
        \/ job' = [job EXCEPT ![r] = [j \in Jobs |-> "waiting"]]
  /\ UNCHANGED <<ciVars, commit, version, copy, attempt, pending, registryVars, certified, faults>>

Ready(r, j) ==
  /\ InProgress(r) /\ job[r][j] = "waiting"
  /\ \A k \in Needs[j] : job[r][k] = "done"

\* certify-ci: a successful run of the very commit.
CertifyCi(r) ==
  /\ Ready(r, "certify-ci")
  /\ SetJob(r, "certify-ci", IF ci[commit[r]] = "success" THEN "done" ELSE "failed")
  /\ UNCHANGED <<ciVars, commit, version, copy, attempt, pending, registryVars, certified, reruns, faults>>

\* A job of the candidate starts by downloading it.  (The publications download the copy
\* that preflight has verified and uploaded again, the same bytes unless damaged on the way.)
Download(r, j) ==
  /\ j \in {"preflight", "publish-root", "publish-client"} /\ Ready(r, j)
  /\ \/ copy' = [copy EXCEPT ![r] = candidate[commit[r]]] /\ UNCHANGED faults
     \/ Fault /\ \E p \in Packages :
          copy' = [copy EXCEPT ![r] = [candidate[commit[r]] EXCEPT ![p] = Damaged]]
  /\ SetJob(r, j, "downloaded")
  /\ UNCHANGED <<ciVars, commit, version, attempt, pending, registryVars, certified, reruns>>

\* executePublication(): the candidate loads and has the requested version.
LoadCandidate(r, j) ==
  /\ job[r][j] = "downloaded"
  /\ LET good == Loads(copy[r], commit[r]) /\ SourceOf[commit[r]].root = version[r]
     IN  SetJob(r, j, CASE ~good -> "failed"
                        [] good /\ j = "preflight" -> "done"
                        [] good /\ j = "publish-root" -> "allowed"
                        [] good /\ j = "publish-client" -> "loaded")
  /\ UNCHANGED <<ciVars, commit, version, copy, attempt, pending, registryVars, certified, reruns, faults>>

\* The client requires that the registry shows the root of its version.
LookUpRoot(r) ==
  /\ job[r]["publish-client"] = "loaded"
  /\ SetJob(r, "publish-client", IF <<"smocket", version[r]>> \in visible THEN "allowed" ELSE "failed")
  /\ UNCHANGED <<ciVars, commit, version, copy, attempt, pending, registryVars, certified, reruns, faults>>

\* `npm publish` of the tarball: the registry refuses a version that it has.
Publish(r, j) ==
  /\ job[r][j] = "allowed"
  /\ LET entry == <<PackageOf(j), SourceOf[commit[r]].root>>
     IN  IF registry[entry] = Nobody
         THEN /\ registry' = [registry EXCEPT ![entry] = copy[r][PackageOf(j)]]
              /\ SetJob(r, j, "accepted")
         ELSE SetJob(r, j, "failed") /\ UNCHANGED registry
  /\ UNCHANGED <<ciVars, commit, version, copy, attempt, pending, visible, certified, reruns, faults>>

EndPublication(r, j) ==
  /\ job[r][j] = "accepted"
  /\ SetJob(r, j, "done")
  /\ UNCHANGED <<ciVars, commit, version, copy, attempt, pending, registryVars, certified, reruns, faults>>

\* verify-published: both packages are looked up, in `attempts` rounds at most.
StartVerification(r) ==
  /\ Ready(r, "verify-published")
  /\ SetJob(r, "verify-published", "looking")
  /\ attempt' = [attempt EXCEPT ![r] = 1] /\ pending' = [pending EXCEPT ![r] = Packages]
  /\ UNCHANGED <<ciVars, commit, version, copy, registryVars, certified, reruns, faults>>

LookUpForever(r) ==   \* mutant of LookUpRound: until both packages show
  /\ job[r]["verify-published"] = "looking"
  /\ \E found \in SUBSET {p \in pending[r] : <<p, version[r]>> \in visible} :
       /\ pending' = [pending EXCEPT ![r] = @ \ found]
       /\ IF pending[r] \ found = {} THEN SetJob(r, "verify-published", "seen") ELSE UNCHANGED job
  /\ UNCHANGED <<ciVars, commit, version, copy, attempt, registryVars, certified, reruns, faults>>

\* The packages a lookup finds; one that fails finds nothing.
LookUpRound(r) ==
  /\ job[r]["verify-published"] = "looking"
  /\ \E found \in SUBSET {p \in pending[r] : <<p, version[r]>> \in visible} :
       /\ pending' = [pending EXCEPT ![r] = @ \ found]
       /\ CASE pending[r] \ found = {} -> SetJob(r, "verify-published", "seen") /\ UNCHANGED attempt
            [] pending[r] \ found # {} /\ attempt[r] < Attempts ->
                 attempt' = [attempt EXCEPT ![r] = @ + 1] /\ UNCHANGED job
            [] pending[r] \ found # {} /\ attempt[r] = Attempts ->
                 SetJob(r, "verify-published", "failed") /\ UNCHANGED attempt
  /\ UNCHANGED <<ciVars, commit, version, copy, registryVars, certified, reruns, faults>>

\* assertInstalledIdentity(): what npm installed has the version that was asked for, and
\* the client has it as its peer.
InstalledIdentity(v) ==
  LET client == registry[<<"smocket-client", v>>]
  IN /\ registry[<<"smocket", v>>] # Nobody
     /\ client \in Commits /\ SourceOf[client].client = v /\ SourceOf[client].peer = v

\* run-clean-adoption.mjs installs the exact pair and exercises it, or fails.
Adopt(r) ==
  /\ job[r]["verify-published"] = "seen"
  /\ \/ /\ InstalledIdentity(version[r])
        /\ SetJob(r, "verify-published", "done") /\ certified' = certified \cup {commit[r]}
     \/ SetJob(r, "verify-published", "failed") /\ UNCHANGED certified
  /\ UNCHANGED <<ciVars, commit, version, copy, attempt, pending, registryVars, reruns, faults>>

\* The machine of a job stops, before or after the registry has its tarball.
Stop(r, j) ==
  /\ job[r][j] \notin {"waiting", "done", "failed"}
  /\ Fault
  /\ SetJob(r, j, "failed")
  /\ UNCHANGED <<ciVars, commit, version, copy, attempt, pending, registryVars, certified, reruns>>

\* External: what the registry has accepted shows some time.
Show(p, v) ==
  /\ registry[<<p, v>>] # Nobody /\ <<p, v>> \notin visible
  /\ visible' = visible \cup {<<p, v>>}
  /\ UNCHANGED <<ciVars, runVars, registry, certified, reruns, faults>>

-----------------------------------------------------------------------------

CiNext == \E c \in Commits : CreateCandidate(c) \/ CheckCandidate(c) \/ ConcludeChecks(c)

JobStep(r) ==
  \/ CertifyCi(r) \/ LookUpRoot(r) \/ StartVerification(r) \/ LookUpRound(r) \/ Adopt(r)
  \/ \E j \in Jobs : Download(r, j) \/ LoadCandidate(r, j) \/ Publish(r, j) \/ EndPublication(r, j)

Next ==
  \/ CiNext
  \/ \E r \in Runs : \/ \E c \in Commits, v \in Versions : Dispatch(r, c, v)
                     \/ Rerun(r) \/ JobStep(r) \/ \E j \in Jobs : Stop(r, j)
  \/ \E p \in Packages, v \in Versions : Show(p, v)

Spec == Init /\ [][Next]_vars

\* A job that was started goes on; nobody has to start a run or to run it again, and
\* nothing makes the registry show a version in time.
FairSpec == Spec /\ \A r \in Runs : WF_vars(JobStep(r))

-----------------------------------------------------------------------------
(* Properties.                                                             *)

\* What a commit's continuous integration certified, and every publication since, are
\* the bytes that it packed: check-release-candidate.mjs verifies the candidate before
\* and after each tool, and each job again after its download, so that a tarball that
\* changed in between reaches neither the artifact nor the registry.
OnlyPackedBytes ==
  /\ \A c \in Commits : ci[c] = "success" => Loads(candidate[c], c)
  /\ \A e \in DOMAIN registry : registry[e] # Damaged

\* What a release promises (ReleaseLedger), whatever jobs stop or are run again, with
\* two commits that claim one version: the client follows the root that was built from
\* its own commit, and a release certifies only the complete pair of its own commit.
Ledger == INSTANCE ReleaseLedger WITH
  VersionOf <- [c \in Commits |-> SourceOf[c].root],
  passed <- {c \in Commits : ci[c] = "success"},
  root <- [v \in Versions |-> registry[<<"smocket", v>>]],
  client <- [v \in Versions |-> registry[<<"smocket-client", v>>]]
LedgerSpec == Ledger!Spec

ReleaseInv == TypeOK /\ OnlyPackedBytes

\* A release that was started completes or fails, however late the registry is: the
\* lookups of verify-published-release.mjs are bounded.
ReleasesSettle == \A r \in Runs : []<>~InProgress(r)

=============================================================================
