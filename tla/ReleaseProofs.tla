--------------------------- MODULE ReleaseProofs ---------------------------
(***************************************************************************)
(* That a release keeps the promise of ReleaseLedger, for any number of    *)
(* commits, versions and runs, and whatever machines stop, downloads are   *)
(* damaged and jobs are run again.  The argument: the jobs of a run take   *)
(* their turns in the order of Needs, so that only one of them is under    *)
(* way and its copy of the candidate is the one it has loaded; what a job  *)
(* has verified of the candidate and of the registry cannot be undone.     *)
(***************************************************************************)
EXTENDS Release, TLAPS

\* The stages that each job goes through.
JobStages(r) ==
  /\ job[r]["certify-ci"] \in {"waiting", "done", "failed"}
  /\ job[r]["preflight"] \in {"waiting", "downloaded", "done", "failed"}
  /\ job[r]["publish-root"] \in {"waiting", "downloaded", "allowed", "accepted", "done", "failed"}
  /\ job[r]["publish-client"] \in
       {"waiting", "downloaded", "loaded", "allowed", "accepted", "done", "failed"}
  /\ job[r]["verify-published"] \in {"waiting", "looking", "seen", "done", "failed"}

\* A job has begun only after the one that it needs is done.
JobOrder(r) ==
  /\ job[r]["certify-ci"] # "waiting" => commit[r] \in Commits
  /\ job[r]["preflight"] # "waiting" => job[r]["certify-ci"] = "done"
  /\ job[r]["publish-root"] # "waiting" => job[r]["preflight"] = "done"
  /\ job[r]["publish-client"] # "waiting" => job[r]["publish-root"] = "done"
  /\ job[r]["verify-published"] # "waiting" => job[r]["publish-client"] = "done"

\* What the jobs have verified: the commit's integration, and the copy that they publish.
JobVerified(r) ==
  /\ job[r]["certify-ci"] = "done" => ci[commit[r]] = "success"
  /\ job[r]["publish-root"] = "allowed" => Loads(copy[r], commit[r])
  /\ job[r]["publish-client"] \in {"loaded", "allowed"} => Loads(copy[r], commit[r])

Entry(p, r) == <<p, SourceOf[commit[r]].root>>

\* What they have published is in the registry.
JobPublished(r) ==
  /\ job[r]["publish-root"] \in {"accepted", "done"} => registry[Entry("smocket", r)] = commit[r]
  /\ job[r]["publish-client"] \in {"accepted", "done"} =>
       registry[Entry("smocket-client", r)] = commit[r]

RunInv(r) == JobStages(r) /\ JobOrder(r) /\ JobVerified(r) /\ JobPublished(r)
IInv == TypeOK /\ OnlyPackedBytes /\ \A r \in Runs : RunInv(r)

-----------------------------------------------------------------------------
(* Types.                                                                  *)

LEMMA InitIInv == Init => IInv
BY ReleaseAssumption
   DEF Init, IInv, TypeOK, OnlyPackedBytes, RunInv, JobStages, JobOrder, JobVerified,
       JobPublished, Loads, Tarballs, NoTarballs, Jobs, Stages, Packages

\* A run of which any job has begun has its commit.
LEMMA BegunHasCommit ==
  ASSUME IInv, NEW r \in Runs, NEW j \in Jobs, job[r][j] # "waiting"
  PROVE  commit[r] \in Commits
BY DEF IInv, RunInv, JobOrder, Jobs

LEMMA SetJobType ==
  ASSUME TypeOK, NEW r \in Runs, NEW j \in Jobs, NEW stage \in Stages, SetJob(r, j, stage)
  PROVE  job' \in [Runs -> [Jobs -> Stages]]
BY DEF TypeOK, SetJob

\* A step that changes only the stage of a job.
LEMMA OnlyJobType ==
  ASSUME TypeOK, job' \in [Runs -> [Jobs -> Stages]],
         UNCHANGED <<ci, checked, candidate, commit, version, copy, attempt, pending,
                     registry, visible>>,
         certified' \subseteq Commits, reruns' \in 0..MaxReruns, faults' \in 0..MaxFaults
  PROVE  TypeOK'
BY DEF TypeOK

\* Every step keeps the types; the bounds of the counters are in their guards.
LEMMA NextType == IInv /\ [Next]_vars => TypeOK'
<1> SUFFICES ASSUME IInv, TypeOK, [Next]_vars PROVE TypeOK'
  BY DEF IInv
<1> USE ReleaseAssumption DEF ciVars, runVars, registryVars
<1>0. /\ certified \subseteq Commits /\ reruns \in 0..MaxReruns /\ faults \in 0..MaxFaults
      /\ Fault => faults' \in 0..MaxFaults
  BY DEF TypeOK, Fault
<1>1. ASSUME NEW c \in Commits, CreateCandidate(c) PROVE TypeOK'
  <2>1. /\ candidate' \in [Commits -> [Packages -> Tarballs]]
        /\ ci' \in [Commits -> {"none", "checking", "success", "failure"}]
    <3>1. [p \in Packages |-> c] \in [Packages -> Tarballs]
      BY DEF Tarballs
    <3> QED
      <4>1. \/ UNCHANGED candidate
            \/ \E f \in [Packages -> Tarballs] : candidate' = [candidate EXCEPT ![c] = f]
        BY <1>1, <3>1 DEF CreateCandidate
      <4>2. \E s \in {"checking", "failure"} : ci' = [ci EXCEPT ![c] = s]
        BY <1>1 DEF CreateCandidate
      <4> QED
        BY <4>1, <4>2 DEF TypeOK
  <2> QED
    BY <1>1, <2>1 DEF CreateCandidate, TypeOK
<1>2. ASSUME NEW c \in Commits, CheckCandidate(c) PROVE TypeOK'
  <2>1. /\ candidate' \in [Commits -> [Packages -> Tarballs]]
        /\ ci' \in [Commits -> {"none", "checking", "success", "failure"}]
    <3>1. \A p \in Packages : [candidate[c] EXCEPT ![p] = Damaged] \in [Packages -> Tarballs]
      BY DEF TypeOK, Tarballs
    <3>2. CASE UNCHANGED candidate
      BY <1>2, <3>2 DEF CheckCandidate, TypeOK
    <3>3. ASSUME NEW p \in Packages, candidate' = [candidate EXCEPT ![c][p] = Damaged]
          PROVE  candidate' \in [Commits -> [Packages -> Tarballs]]
      BY <3>1, <3>3 DEF TypeOK
    <3>4. ci' \in [Commits -> {"none", "checking", "success", "failure"}]
      BY <1>2 DEF CheckCandidate, TypeOK
    <3> QED
      BY <1>2, <3>2, <3>3, <3>4 DEF CheckCandidate
  <2>2. checked' \in [Commits -> 0..Checks] /\ faults' \in 0..MaxFaults
    BY <1>0, <1>2 DEF CheckCandidate, TypeOK
  <2> QED
    BY <1>2, <2>1, <2>2 DEF CheckCandidate, TypeOK
<1>3. ASSUME NEW c \in Commits, ConcludeChecks(c) PROVE TypeOK'
  BY <1>3 DEF ConcludeChecks, TypeOK
<1>4. ASSUME NEW r \in Runs, NEW c \in Commits, NEW v \in Versions, Dispatch(r, c, v)
      PROVE TypeOK'
  BY <1>4 DEF Dispatch, TypeOK
<1>5. ASSUME NEW r \in Runs, Rerun(r) PROVE TypeOK'
  <2>1. job' \in [Runs -> [Jobs -> Stages]]
    <3>1. "waiting" \in Stages /\ \A j \in Jobs : job[r][j] \in Stages
      BY DEF Stages, TypeOK
    <3>2. PICK f \in [Jobs -> Stages] : job' = [job EXCEPT ![r] = f]
      <4>1. CASE job' = [job EXCEPT ![r] = [j \in Jobs |-> "waiting"]]
        BY <3>1, <4>1
      <4>2. CASE job' = [job EXCEPT ![r] =
                           [j \in Jobs |-> IF job[r][j] = "failed" THEN "waiting" ELSE job[r][j]]]
        BY <3>1, <4>2
      <4> QED
        BY <1>5, <4>1, <4>2 DEF Rerun
    <3> QED
      BY <3>2 DEF TypeOK
  <2>2. reruns' \in 0..MaxReruns
    BY <1>5 DEF Rerun, TypeOK
  <2> QED
    BY <1>0, <1>5, <2>1, <2>2, OnlyJobType DEF Rerun
<1>6. ASSUME NEW r \in Runs, JobStep(r) PROVE TypeOK'
  <2>0. {"certify-ci", "preflight", "publish-root", "publish-client", "verify-published"} = Jobs
    BY DEF Jobs
  <2>1. CASE CertifyCi(r)
    <3>1. PICK s \in Stages : SetJob(r, "certify-ci", s)
      BY <2>1 DEF CertifyCi, Stages
    <3> QED
      BY <1>0, <2>0, <2>1, <3>1, SetJobType, OnlyJobType DEF CertifyCi
  <2>2. CASE LookUpRoot(r)
    <3>1. PICK s \in Stages : SetJob(r, "publish-client", s)
      BY <2>2 DEF LookUpRoot, Stages
    <3> QED
      BY <1>0, <2>0, <2>2, <3>1, SetJobType, OnlyJobType DEF LookUpRoot
  <2>3. CASE StartVerification(r)
    <3>1. job' \in [Runs -> [Jobs -> Stages]]
      BY <2>0, <2>3, SetJobType DEF StartVerification, Stages
    <3>2. attempt' \in [Runs -> 0..Attempts] /\ pending' \in [Runs -> SUBSET Packages]
      <4>1. attempt' = [attempt EXCEPT ![r] = 1] /\ 1 \in 0..Attempts
        BY <2>3 DEF StartVerification
      <4>2. pending' = [pending EXCEPT ![r] = Packages]
        BY <2>3 DEF StartVerification
      <4> QED
        BY <4>1, <4>2 DEF TypeOK
    <3> QED
      BY <2>3, <3>1, <3>2 DEF StartVerification, TypeOK
  <2>4. CASE LookUpRound(r)
    <3>0. PICK found \in SUBSET {p \in pending[r] : <<p, version[r]>> \in visible} :
            /\ pending' = [pending EXCEPT ![r] = @ \ found]
            /\ \/ SetJob(r, "verify-published", "seen") /\ UNCHANGED attempt
               \/ /\ attempt[r] < Attempts
                  /\ attempt' = [attempt EXCEPT ![r] = @ + 1] /\ UNCHANGED job
               \/ SetJob(r, "verify-published", "failed") /\ UNCHANGED attempt
      <4>1. PICK found \in SUBSET {p \in pending[r] : <<p, version[r]>> \in visible} :
              LookUpRound(r)!2!(found)
        BY <2>4 DEF LookUpRound
      <4>2. attempt[r] \in 0..Attempts
        BY DEF TypeOK
      <4>3. attempt[r] < Attempts \/ attempt[r] = Attempts
        BY <4>2
      <4> QED
        BY <4>1, <4>3
    <3>1. job' \in [Runs -> [Jobs -> Stages]]
      <4>1. {"seen", "failed"} \subseteq Stages
        BY DEF Stages
      <4>2. \/ \E s \in {"seen", "failed"} : SetJob(r, "verify-published", s)
            \/ UNCHANGED job
        BY <3>0
      <4> QED
        BY <2>0, <4>1, <4>2, SetJobType DEF TypeOK
    <3>2. attempt' \in [Runs -> 0..Attempts] /\ pending' \in [Runs -> SUBSET Packages]
      <4>1. attempt[r] \in 0..Attempts /\ pending[r] \ found \in SUBSET Packages
        BY DEF TypeOK
      <4>2. \/ UNCHANGED attempt
            \/ attempt[r] + 1 \in 0..Attempts /\ attempt' = [attempt EXCEPT ![r] = attempt[r] + 1]
        BY <3>0, <4>1
      <4>3. pending' = [pending EXCEPT ![r] = pending[r] \ found]
        BY <3>0
      <4> QED
        BY <4>1, <4>2, <4>3 DEF TypeOK
    <3> QED
      BY <2>4, <3>1, <3>2 DEF LookUpRound, TypeOK
  <2>5. CASE Adopt(r)
    <3>1. PICK s \in Stages : SetJob(r, "verify-published", s)
      BY <2>5 DEF Adopt, Stages
    <3>2. certified' \subseteq Commits
      <4>1. commit[r] \in Commits
        BY <2>0, <2>5, BegunHasCommit DEF Adopt
      <4> QED
        BY <1>0, <2>5, <4>1 DEF Adopt
    <3> QED
      BY <1>0, <2>0, <2>5, <3>1, <3>2, SetJobType, OnlyJobType DEF Adopt
  <2>6. ASSUME NEW j \in Jobs, Download(r, j) PROVE TypeOK'
    <3>1. job' \in [Runs -> [Jobs -> Stages]]
      BY <2>6, SetJobType DEF Download, Stages
    <3>2. commit[r] \in Commits
      BY <2>6 DEF Download, Ready, InProgress, Started, TypeOK
    <3>3. candidate[commit[r]] \in [Packages -> Tarballs] /\ Damaged \in Tarballs
      BY <3>2 DEF TypeOK, Tarballs
    <3>4. copy' \in [Runs -> [Packages -> Tarballs]] /\ faults' \in 0..MaxFaults
      <4>1. \A p \in Packages :
              [candidate[commit[r]] EXCEPT ![p] = Damaged] \in [Packages -> Tarballs]
        BY <3>3
      <4>2. PICK f \in [Packages -> Tarballs] : copy' = [copy EXCEPT ![r] = f]
        BY <2>6, <3>3, <4>1 DEF Download
      <4> QED
        BY <1>0, <2>6, <4>2 DEF Download, TypeOK
    <3> QED
      BY <2>6, <3>1, <3>4 DEF Download, TypeOK
  <2>7. ASSUME NEW j \in Jobs, LoadCandidate(r, j) PROVE TypeOK'
    <3>1. j \in {"preflight", "publish-root", "publish-client"}
      BY <2>7 DEF LoadCandidate, IInv, RunInv, JobStages, Jobs
    <3>2. \E s \in {"failed", "done", "allowed", "loaded"} : SetJob(r, j, s)
      BY <2>7, <3>1 DEF LoadCandidate
    <3>3. {"failed", "done", "allowed", "loaded"} \subseteq Stages
      BY DEF Stages
    <3> QED
      BY <1>0, <2>7, <3>2, <3>3, SetJobType, OnlyJobType DEF LoadCandidate
  <2>8. ASSUME NEW j \in Jobs, Publish(r, j) PROVE TypeOK'
    <3>1. job' \in [Runs -> [Jobs -> Stages]]
      <4>1. {"accepted", "failed"} \subseteq Stages
        BY DEF Stages
      <4>2. \E s \in {"accepted", "failed"} : SetJob(r, j, s)
        BY <2>8 DEF Publish
      <4> QED
        BY <4>1, <4>2, SetJobType
    <3>2. registry' \in [Packages \X Versions -> Tarballs]
      <4>1. PackageOf(j) \in Packages /\ copy[r][PackageOf(j)] \in Tarballs
        BY DEF PackageOf, Packages, TypeOK
      <4> QED
        BY <2>8, <4>1 DEF Publish, TypeOK
    <3> QED
      BY <2>8, <3>1, <3>2 DEF Publish, TypeOK
  <2>9. ASSUME NEW j \in Jobs, EndPublication(r, j) PROVE TypeOK'
    BY <1>0, <2>9, SetJobType, OnlyJobType DEF EndPublication, Stages
  <2> QED
    BY <1>6, <2>1, <2>2, <2>3, <2>4, <2>5, <2>6, <2>7, <2>8, <2>9 DEF JobStep
<1>7. ASSUME NEW r \in Runs, NEW j \in Jobs, Stop(r, j) PROVE TypeOK'
  BY <1>0, <1>7, SetJobType, OnlyJobType DEF Stop, Stages
<1>8. ASSUME NEW p \in Packages, NEW v \in Versions, Show(p, v) PROVE TypeOK'
  BY <1>8 DEF Show, TypeOK
<1>9. CASE UNCHANGED vars
  BY <1>9 DEF vars, TypeOK
<1> QED
  BY <1>1, <1>2, <1>3, <1>4, <1>5, <1>6, <1>7, <1>8, <1>9 DEF Next, CiNext

-----------------------------------------------------------------------------
(* The inductive invariant.                                                *)

LEMMA SetJobValues ==
  ASSUME TypeOK, NEW r \in Runs, NEW j \in Jobs, NEW stage, SetJob(r, j, stage)
  PROVE  /\ \A s \in Runs : s # r => job'[s] = job[s]
         /\ \A k \in Jobs : job'[r][k] = IF k = j THEN stage ELSE job[r][k]
BY DEF TypeOK, SetJob

\* What was verified or published before stays so.
Stays ==
  /\ \A c \in Commits : ci[c] = "success" => ci'[c] = "success"
  /\ \A e : registry[e] \in Commits => registry'[e] = registry[e]

\* A run that takes no step keeps its part of the invariant, and so does one that only
\* downloads while no job holds a copy it has verified.
LEMMA RunKept ==
  ASSUME NEW s \in Runs, RunInv(s), Stays,
         job'[s] = job[s], commit'[s] = commit[s], copy'[s] = copy[s]
  PROVE  RunInv(s)'
<1>1. \A j \in Jobs : job[s][j] # "waiting" => commit[s] \in Commits
  BY DEF RunInv, JobOrder, Jobs
<1>2. JobStages(s)' /\ JobOrder(s)'
  BY DEF RunInv, JobStages, JobOrder
<1>3. JobVerified(s)'
  BY <1>1 DEF RunInv, JobVerified, Stays, Loads, Jobs
<1>4. JobPublished(s)'
  BY <1>1 DEF RunInv, JobPublished, Stays, Entry, Jobs
<1> QED
  BY <1>2, <1>3, <1>4 DEF RunInv

\* Continuous integration, and the registry as it shows what it has.
LEMMA RunsKept ==
  ASSUME IInv, Stays, UNCHANGED runVars
  PROVE  \A s \in Runs : RunInv(s)'
BY RunKept DEF IInv, runVars

\* A step of one run, which changes the stage of one of its jobs.
LEMMA OtherRunsKept ==
  ASSUME IInv, Stays, NEW r \in Runs, NEW j \in Jobs, NEW stage, SetJob(r, j, stage),
         UNCHANGED commit, \A s \in Runs : s # r => copy'[s] = copy[s],
         RunInv(r)'
  PROVE  \A s \in Runs : RunInv(s)'
BY RunKept, SetJobValues DEF IInv

LEMMA CiStep ==
  ASSUME IInv, NEW c \in Commits, CreateCandidate(c) \/ CheckCandidate(c) \/ ConcludeChecks(c)
  PROVE  IInv'
<1>1. TypeOK'
  BY NextType DEF Next, CiNext
<1>2. UNCHANGED <<runVars, registryVars>>
  BY DEF CreateCandidate, CheckCandidate, ConcludeChecks
<1>3. \A d \in Commits : d # c => ci'[d] = ci[d] /\ candidate'[d] = candidate[d]
  <2>1. CASE CreateCandidate(c)
    BY <2>1 DEF CreateCandidate, IInv, TypeOK
  <2>2. CASE CheckCandidate(c)
    BY <2>2 DEF CheckCandidate, IInv, TypeOK
  <2>3. CASE ConcludeChecks(c)
    BY <2>3 DEF ConcludeChecks, IInv, TypeOK
  <2> QED
    BY <2>1, <2>2, <2>3
<1>4. ci[c] # "success" /\ (ci'[c] = "success" => Loads(candidate'[c], c))
  <2>1. CASE CreateCandidate(c)
    BY <2>1 DEF CreateCandidate, IInv, TypeOK
  <2>2. CASE CheckCandidate(c)
    BY <2>2 DEF CheckCandidate, IInv, TypeOK
  <2>3. CASE ConcludeChecks(c)
    BY <2>3 DEF ConcludeChecks, IInv, TypeOK
  <2> QED
    BY <2>1, <2>2, <2>3
<1>5. OnlyPackedBytes'
  BY <1>2, <1>3, <1>4 DEF IInv, OnlyPackedBytes, registryVars, Loads
<1>6. Stays
  BY <1>2, <1>3, <1>4 DEF Stays, registryVars
<1> QED
  BY <1>1, <1>2, <1>5, <1>6, RunsKept DEF IInv

\* A step that leaves continuous integration and the registry alone, and one job of one run
\* with a stage it may have.
LEMMA QuietStep ==
  ASSUME IInv, TypeOK', NEW r \in Runs, NEW j \in Jobs, NEW stage, SetJob(r, j, stage),
         UNCHANGED <<ciVars, commit, registry>>,
         \A s \in Runs : s # r => copy'[s] = copy[s],
         RunInv(r)'
  PROVE  IInv'
<1>1. Stays
  BY DEF Stays, ciVars
<1>2. OnlyPackedBytes'
  BY DEF IInv, OnlyPackedBytes, ciVars, Loads
<1> QED
  BY <1>1, <1>2, OtherRunsKept DEF IInv

LEMMA CertifyCiStep == ASSUME IInv, NEW r \in Runs, CertifyCi(r) PROVE IInv'
<1>1. PICK stage \in {"done", "failed"} :
        /\ SetJob(r, "certify-ci", stage)
        /\ stage = "done" => ci[commit[r]] = "success"
  BY DEF CertifyCi
<1>2. /\ job[r]["certify-ci"] = "waiting" /\ commit[r] \in Commits
      /\ "certify-ci" \in Jobs /\ TypeOK
  BY DEF CertifyCi, Ready, InProgress, Started, IInv, TypeOK, Jobs
<1>3. RunInv(r)'
  BY <1>1, <1>2, SetJobValues
     DEF CertifyCi, IInv, RunInv, JobStages, JobOrder, JobVerified, JobPublished, Entry, Jobs,
         Loads, ciVars, registryVars
<1> QED
  BY <1>1, <1>2, <1>3, NextType, QuietStep DEF CertifyCi, Next, JobStep, ciVars, registryVars

LEMMA LookUpRootStep == ASSUME IInv, NEW r \in Runs, LookUpRoot(r) PROVE IInv'
<1>1. PICK stage \in {"allowed", "failed"} : SetJob(r, "publish-client", stage)
  BY DEF LookUpRoot
<1>2. job[r]["publish-client"] = "loaded" /\ "publish-client" \in Jobs /\ TypeOK
  BY DEF LookUpRoot, IInv, Jobs
<1>3. RunInv(r)'
  BY <1>1, <1>2, SetJobValues
     DEF LookUpRoot, IInv, RunInv, JobStages, JobOrder, JobVerified, JobPublished, Entry, Jobs,
         ciVars, registryVars
<1> QED
  BY <1>1, <1>2, <1>3, NextType, QuietStep DEF LookUpRoot, Next, JobStep, ciVars, registryVars

\* The steps of the verification, which nothing waits for.
LEMMA VerificationStep ==
  ASSUME IInv, NEW r \in Runs, StartVerification(r) \/ LookUpRound(r) \/ Adopt(r)
  PROVE  IInv'
<1>1. /\ "verify-published" \in Jobs /\ TypeOK
      /\ job[r]["publish-client"] = "done"
  <2>1. CASE StartVerification(r)
    BY <2>1 DEF StartVerification, Ready, Needs, Jobs, IInv
  <2>2. CASE LookUpRound(r) \/ Adopt(r)
    BY <2>2 DEF LookUpRound, Adopt, IInv, RunInv, JobOrder, Jobs
  <2> QED
    BY <2>1, <2>2
<1>2. UNCHANGED <<ciVars, commit, registry, copy>>
  BY DEF StartVerification, LookUpRound, Adopt, registryVars
<1>3. \E stage \in {"looking", "seen", "done", "failed"} :
        SetJob(r, "verify-published", stage) \/ UNCHANGED job
  <2>1. CASE LookUpRound(r)
    <3>1. attempt[r] < Attempts \/ attempt[r] = Attempts
      <4>1. attempt[r] \in 0..Attempts
        BY <1>1 DEF TypeOK
      <4> QED
        BY <4>1, ReleaseAssumption
    <3> QED
      BY <2>1, <3>1 DEF LookUpRound
  <2> QED
    BY <2>1 DEF StartVerification, Adopt
<1>4. TypeOK'
  BY NextType DEF Next, JobStep
<1>5. CASE UNCHANGED job
  <2>1. Stays /\ OnlyPackedBytes'
    BY <1>2 DEF Stays, IInv, OnlyPackedBytes, Loads, ciVars
  <2> QED
    BY <1>2, <1>4, <1>5, <2>1, RunKept DEF IInv
<1>6. ASSUME NEW stage \in {"looking", "seen", "done", "failed"},
             SetJob(r, "verify-published", stage)
      PROVE  IInv'
  <2>1. RunInv(r)'
    BY <1>1, <1>2, <1>6, SetJobValues
       DEF IInv, RunInv, JobStages, JobOrder, JobVerified, JobPublished, Entry, Jobs,
           Loads, ciVars
  <2> QED
    BY <1>1, <1>2, <1>4, <1>6, <2>1, QuietStep
<1> QED
  BY <1>3, <1>5, <1>6

\* Nothing else of the run is under way when a job downloads the candidate.
LEMMA DownloadStep == ASSUME IInv, NEW r \in Runs, NEW j \in Jobs, Download(r, j) PROVE IInv'
<1>1. /\ j \in {"preflight", "publish-root", "publish-client"} /\ TypeOK
      /\ job[r][j] = "waiting" /\ \A k \in Needs[j] : job[r][k] = "done"
      /\ SetJob(r, j, "downloaded")
      /\ UNCHANGED <<ciVars, commit, registry>>
  BY DEF Download, Ready, IInv, registryVars
<1>2. \A s \in Runs : s # r => copy'[s] = copy[s]
  BY <1>1 DEF Download, TypeOK
<1>3. commit[r] \in Commits
  BY DEF Download, Ready, InProgress, Started, IInv, TypeOK
<1>4. RunInv(r)'
  <2>1. CASE j = "preflight"
    BY <1>1, <2>1, SetJobValues
       DEF IInv, RunInv, JobStages, JobOrder, JobVerified, JobPublished, Entry, Jobs, Needs, ciVars
  <2>2. CASE j = "publish-root"
    BY <1>1, <2>2, SetJobValues
       DEF IInv, RunInv, JobStages, JobOrder, JobVerified, JobPublished, Entry, Jobs, Needs, ciVars
  <2>3. CASE j = "publish-client"
    BY <1>1, <2>3, SetJobValues
       DEF IInv, RunInv, JobStages, JobOrder, JobVerified, JobPublished, Entry, Jobs, Needs, ciVars
  <2> QED
    BY <1>1, <2>1, <2>2, <2>3
<1> QED
  BY <1>1, <1>2, <1>4, NextType, QuietStep DEF Next, JobStep

LEMMA LoadStep == ASSUME IInv, NEW r \in Runs, NEW j \in Jobs, LoadCandidate(r, j) PROVE IInv'
<1>1. /\ j \in {"preflight", "publish-root", "publish-client"} /\ TypeOK
      /\ job[r][j] = "downloaded"
      /\ UNCHANGED <<ciVars, commit, copy, registry>>
  BY DEF LoadCandidate, IInv, RunInv, JobStages, Jobs, registryVars
<1>2. PICK stage : /\ SetJob(r, j, stage)
                   /\ \/ stage = "failed"
                      \/ /\ Loads(copy[r], commit[r])
                         /\ stage = CASE j = "preflight" -> "done"
                                      [] j = "publish-root" -> "allowed"
                                      [] j = "publish-client" -> "loaded"
  <2>1. CASE Loads(copy[r], commit[r]) /\ SourceOf[commit[r]].root = version[r]
    BY <1>1, <2>1 DEF LoadCandidate
  <2>2. CASE ~(Loads(copy[r], commit[r]) /\ SourceOf[commit[r]].root = version[r])
    BY <1>1, <2>2 DEF LoadCandidate
  <2> QED
    BY <2>1, <2>2
<1>3. RunInv(r)'
  <2>1. CASE j = "preflight"
    BY <1>1, <1>2, <2>1, SetJobValues
       DEF IInv, RunInv, JobStages, JobOrder, JobVerified, JobPublished, Entry, Jobs, ciVars
  <2>2. CASE j = "publish-root"
    BY <1>1, <1>2, <2>2, SetJobValues
       DEF IInv, RunInv, JobStages, JobOrder, JobVerified, JobPublished, Entry, Jobs, ciVars
  <2>3. CASE j = "publish-client"
    BY <1>1, <1>2, <2>3, SetJobValues
       DEF IInv, RunInv, JobStages, JobOrder, JobVerified, JobPublished, Entry, Jobs, ciVars
  <2> QED
    BY <1>1, <2>1, <2>2, <2>3
<1> QED
  BY <1>1, <1>2, <1>3, NextType, QuietStep DEF Next, JobStep

\* Only the two publications reach the registry.
LEMMA PublishingJob ==
  ASSUME IInv, NEW r \in Runs, NEW j \in Jobs, job[r][j] \in {"allowed", "accepted"}
  PROVE  /\ j \in {"publish-root", "publish-client"}
         /\ PackageOf(j) \in Packages /\ commit[r] \in Commits
         /\ <<PackageOf(j), SourceOf[commit[r]].root>> \in Packages \X Versions
         /\ job[r][j] = "allowed" => Loads(copy[r], commit[r])
<1>1. commit[r] \in Commits
  BY BegunHasCommit
<1>2. j \in {"publish-root", "publish-client"}
  BY DEF IInv, RunInv, JobStages, Jobs
<1>3. SourceOf[commit[r]].root \in Versions
  BY <1>1, ReleaseAssumption
<1> QED
  BY <1>1, <1>2, <1>3 DEF IInv, RunInv, JobVerified, PackageOf, Packages

LEMMA PublishStep == ASSUME IInv, NEW r \in Runs, NEW j \in Jobs, Publish(r, j) PROVE IInv'
<1> DEFINE entry == <<PackageOf(j), SourceOf[commit[r]].root>>
<1>1. /\ j \in {"publish-root", "publish-client"} /\ TypeOK
      /\ job[r][j] = "allowed" /\ commit[r] \in Commits
      /\ entry \in Packages \X Versions
      /\ UNCHANGED <<ciVars, commit, copy>>
      /\ copy[r][PackageOf(j)] = commit[r]
  <2>1. job[r][j] = "allowed" /\ TypeOK /\ UNCHANGED <<ciVars, commit, copy>>
    BY DEF Publish, IInv
  <2>2. /\ j \in {"publish-root", "publish-client"} /\ commit[r] \in Commits
        /\ PackageOf(j) \in Packages /\ entry \in Packages \X Versions
        /\ Loads(copy[r], commit[r])
    BY <2>1, PublishingJob
  <2>3. copy[r][PackageOf(j)] = commit[r]
    BY <2>2 DEF Loads
  <2> QED
    BY <2>1, <2>2, <2>3
<1>2. CASE registry[entry] = Nobody
  <2>1. /\ SetJob(r, j, "accepted")
        /\ registry' = [registry EXCEPT ![entry] = commit[r]]
    BY <1>1, <1>2 DEF Publish
  <2>2. registry'[entry] = commit[r] /\ \A e : e # entry => registry'[e] = registry[e]
    BY <1>1, <2>1 DEF TypeOK
  <2>3. Stays
    BY <1>1, <1>2, <2>2, ReleaseAssumption DEF Stays, ciVars
  <2>4. OnlyPackedBytes'
    <3>1. commit[r] # Damaged
      BY <1>1, ReleaseAssumption
    <3> QED
      BY <1>1, <2>1, <2>2, <3>1 DEF IInv, OnlyPackedBytes, ciVars, Loads, TypeOK
  <2>5. RunInv(r)'
    <3>1. CASE j = "publish-root"
      BY <1>1, <2>1, <2>2, <3>1, SetJobValues
         DEF IInv, RunInv, JobStages, JobOrder, JobVerified, JobPublished, Entry, Jobs, ciVars,
             PackageOf
    <3>2. CASE j = "publish-client"
      BY <1>1, <2>1, <2>2, <3>2, SetJobValues
         DEF IInv, RunInv, JobStages, JobOrder, JobVerified, JobPublished, Entry, Jobs, ciVars,
             PackageOf
    <3> QED
      BY <1>1, <3>1, <3>2
  <2>6. TypeOK' /\ UNCHANGED <<commit, copy>>
    BY <1>1, NextType DEF Next, JobStep
  <2> QED
    BY <2>1, <2>3, <2>4, <2>5, <2>6, OtherRunsKept DEF IInv
<1>3. CASE registry[entry] # Nobody
  <2>1. SetJob(r, j, "failed") /\ UNCHANGED registry
    BY <1>3 DEF Publish
  <2>2. RunInv(r)'
    BY <1>1, <2>1, SetJobValues
       DEF IInv, RunInv, JobStages, JobOrder, JobVerified, JobPublished, Entry, Jobs, ciVars
  <2> QED
    BY <1>1, <2>1, <2>2, NextType, QuietStep DEF Next, JobStep
<1> QED
  BY <1>2, <1>3

LEMMA EndPublicationStep ==
  ASSUME IInv, NEW r \in Runs, NEW j \in Jobs, EndPublication(r, j)
  PROVE  IInv'
<1>1. /\ j \in {"publish-root", "publish-client"} /\ TypeOK
      /\ job[r][j] = "accepted" /\ SetJob(r, j, "done")
      /\ UNCHANGED <<ciVars, commit, copy, registry>>
  BY PublishingJob DEF EndPublication, IInv, registryVars
<1>2. RunInv(r)'
  BY <1>1, SetJobValues
     DEF IInv, RunInv, JobStages, JobOrder, JobVerified, JobPublished, Entry, Jobs, ciVars
<1> QED
  BY <1>1, <1>2, NextType, QuietStep DEF Next, JobStep

LEMMA StopStep == ASSUME IInv, NEW r \in Runs, NEW j \in Jobs, Stop(r, j) PROVE IInv'
<1>1. /\ job[r][j] \notin {"waiting", "done"} /\ SetJob(r, j, "failed") /\ TypeOK
      /\ UNCHANGED <<ciVars, commit, copy, registry>>
  BY DEF Stop, IInv, registryVars
<1>2. RunInv(r)'
  <2>1. \A k \in Jobs : job'[r][k] = IF k = j THEN "failed" ELSE job[r][k]
    BY <1>1, SetJobValues
  <2>2. JobStages(r)'
    BY <2>1 DEF IInv, RunInv, JobStages, Jobs
  <2>3. JobOrder(r)'
    BY <1>1, <2>1 DEF IInv, RunInv, JobOrder, Jobs
  <2>4. JobVerified(r)' /\ JobPublished(r)'
    BY <1>1, <2>1 DEF IInv, RunInv, JobVerified, JobPublished, Entry, Jobs, ciVars
  <2> QED
    BY <2>2, <2>3, <2>4 DEF RunInv
<1> QED
  BY <1>1, <1>2, NextType, QuietStep DEF Next

LEMMA DispatchStep ==
  ASSUME IInv, NEW r \in Runs, NEW c \in Commits, NEW v \in Versions, Dispatch(r, c, v)
  PROVE  IInv'
<1>1. /\ UNCHANGED <<ciVars, job, copy, registry>> /\ TypeOK /\ TypeOK'
      /\ \A s \in Runs : s # r => commit'[s] = commit[s]
      /\ commit[r] \notin Commits
  BY NextType, ReleaseAssumption DEF Dispatch, Next, Started, IInv, TypeOK, registryVars
<1>2. Stays /\ OnlyPackedBytes'
  BY <1>1 DEF Stays, IInv, OnlyPackedBytes, Loads, ciVars
<1>3. \A j \in Jobs : job[r][j] = "waiting"
  BY <1>1, BegunHasCommit
<1>4. RunInv(r)'
  BY <1>1, <1>3 DEF RunInv, JobStages, JobOrder, JobVerified, JobPublished, Jobs
<1>5. \A s \in Runs : s # r => RunInv(s)'
  BY <1>1, <1>2, RunKept DEF IInv
<1> QED
  BY <1>1, <1>2, <1>4, <1>5 DEF IInv

\* Jobs that are run again go back to waiting; those that are done stay so, and with them
\* those that they need, unless all of them are run again.
LEMMA RerunStep == ASSUME IInv, NEW r \in Runs, Rerun(r) PROVE IInv'
<1>1. /\ UNCHANGED <<ciVars, commit, copy, registry>> /\ TypeOK /\ TypeOK'
      /\ \A s \in Runs : s # r => job'[s] = job[s]
  BY NextType DEF Rerun, Next, IInv, TypeOK, registryVars
<1>2. Stays /\ OnlyPackedBytes'
  BY <1>1 DEF Stays, IInv, OnlyPackedBytes, Loads, ciVars
<1>3. \/ \A j \in Jobs : job'[r][j] = "waiting"
      \/ \A j \in Jobs : job'[r][j] = IF job[r][j] = "failed" THEN "waiting" ELSE job[r][j]
  BY <1>1 DEF Rerun, TypeOK
<1>4. RunInv(r)'
  <2>1. CASE \A j \in Jobs : job'[r][j] = "waiting"
    BY <2>1 DEF RunInv, JobStages, JobOrder, JobVerified, JobPublished, Jobs
  <2>2. CASE \A j \in Jobs :
               job'[r][j] = IF job[r][j] = "failed" THEN "waiting" ELSE job[r][j]
    <3>1. JobStages(r)' /\ JobOrder(r)'
      BY <1>1, <2>2 DEF IInv, RunInv, JobStages, JobOrder, Jobs
    <3>2. JobVerified(r)' /\ JobPublished(r)'
      BY <1>1, <2>2 DEF IInv, RunInv, JobVerified, JobPublished, Entry, Jobs, ciVars
    <3> QED
      BY <3>1, <3>2 DEF RunInv
  <2> QED
    BY <1>3, <2>1, <2>2
<1>5. \A s \in Runs : s # r => RunInv(s)'
  BY <1>1, <1>2, RunKept DEF IInv
<1> QED
  BY <1>1, <1>2, <1>4, <1>5 DEF IInv

LEMMA NextIInv == IInv /\ [Next]_vars => IInv'
<1> SUFFICES ASSUME IInv, [Next]_vars PROVE IInv'
  OBVIOUS
<1>1. CASE CiNext
  BY <1>1, CiStep DEF CiNext
<1>2. ASSUME NEW r \in Runs, JobStep(r) PROVE IInv'
  BY <1>2, CertifyCiStep, LookUpRootStep, VerificationStep, DownloadStep, LoadStep, PublishStep,
     EndPublicationStep DEF JobStep
<1>3. ASSUME NEW p \in Packages, NEW v \in Versions, Show(p, v) PROVE IInv'
  <2>1. UNCHANGED <<ciVars, runVars, registry>> /\ TypeOK'
    BY <1>3, NextType DEF Show, Next
  <2>2. Stays /\ OnlyPackedBytes'
    BY <2>1 DEF Stays, IInv, OnlyPackedBytes, Loads, ciVars
  <2> QED
    BY <2>1, <2>2, RunsKept DEF IInv
<1>4. CASE UNCHANGED vars
  <2>1. UNCHANGED <<ciVars, runVars, registry>> /\ TypeOK'
    BY <1>4, NextType DEF vars, registryVars
  <2>2. Stays /\ OnlyPackedBytes'
    BY <2>1 DEF Stays, IInv, OnlyPackedBytes, Loads, ciVars
  <2> QED
    BY <2>1, <2>2, RunsKept DEF IInv
<1> QED
  BY <1>1, <1>2, <1>3, <1>4, DispatchStep, RerunStep, StopStep DEF Next

LEMMA Invariant == Spec => []IInv
BY InitIInv, NextIInv, PTL DEF Spec

\* The types, and the bytes: whatever a tool of the checks or a download changes, neither a
\* certified candidate nor the registry has it.
THEOREM OnlyPackedBytesArePublished == Spec => []ReleaseInv
BY Invariant, PTL DEF IInv, ReleaseInv

-----------------------------------------------------------------------------
(* Refinement.                                                             *)

VersionOfCommit == [c \in Commits |-> SourceOf[c].root]
Passed == {c \in Commits : ci[c] = "success"}
Roots == [v \in Versions |-> registry[<<"smocket", v>>]]
Clients == [v \in Versions |-> registry[<<"smocket-client", v>>]]

\* A step that changes nothing of the ledger.
LEMMA LedgerStutters ==
  ASSUME Passed' = Passed, UNCHANGED <<registry, certified>>
  PROVE  UNCHANGED Ledger!ledgerVars
BY DEF Ledger!ledgerVars, Passed

\* A publication enters its package, and no other, in the ledger.
LEMMA LedgerPublishes ==
  ASSUME TypeOK, NEW c \in Commits, NEW p \in Packages, NEW w \in Versions,
         registry' = [registry EXCEPT ![<<p, w>>] = c]
  PROVE  /\ Roots' = IF p = "smocket" THEN [Roots EXCEPT ![w] = c] ELSE Roots
         /\ Clients' = IF p = "smocket-client" THEN [Clients EXCEPT ![w] = c] ELSE Clients
<1>1. \A v \in Versions : <<"smocket", v>> \in Packages \X Versions
                          /\ <<"smocket-client", v>> \in Packages \X Versions
  BY DEF Packages
<1>2. \A v \in Versions : registry'[<<"smocket", v>>] =
                            IF p = "smocket" /\ v = w THEN c ELSE registry[<<"smocket", v>>]
  BY <1>1 DEF TypeOK
<1>3. \A v \in Versions : registry'[<<"smocket-client", v>>] =
                            IF p = "smocket-client" /\ v = w THEN c
                            ELSE registry[<<"smocket-client", v>>]
  BY <1>1 DEF TypeOK
<1>4. Roots' = IF p = "smocket" THEN [Roots EXCEPT ![w] = c] ELSE Roots
  BY <1>2 DEF Roots
<1>5. Clients' = IF p = "smocket-client" THEN [Clients EXCEPT ![w] = c] ELSE Clients
  BY <1>3 DEF Clients
<1> QED
  BY <1>4, <1>5

\* The release jobs implement the ledger: the client follows the root of its own commit, and
\* a release certifies only the complete pair of its own commit.
THEOREM ImplementsLedger == Spec => LedgerSpec
<1>1. Init => Ledger!Init
  BY DEF Init, Ledger!Init, Packages
<1>2. IInv /\ [Next]_vars => [Ledger!Next]_Ledger!ledgerVars
  <2> SUFFICES ASSUME IInv, TypeOK, [Next]_vars PROVE [Ledger!Next]_Ledger!ledgerVars
    BY DEF IInv
  <2>0. ASSUME UNCHANGED <<ci, registry, certified>> PROVE UNCHANGED Ledger!ledgerVars
    BY <2>0, LedgerStutters DEF Passed
  <2>1. ASSUME NEW c \in Commits, CreateCandidate(c) \/ CheckCandidate(c)
        PROVE  UNCHANGED Ledger!ledgerVars
    <3>1. /\ ci[c] # "success" /\ ci'[c] # "success" /\ UNCHANGED <<registry, certified>>
          /\ \A d \in Commits : d # c => ci'[d] = ci[d]
      BY <2>1 DEF CreateCandidate, CheckCandidate, TypeOK, registryVars
    <3> QED
      BY <3>1, LedgerStutters DEF Passed
  <2>2. ASSUME NEW c \in Commits, ConcludeChecks(c)
        PROVE  [Ledger!Next]_Ledger!ledgerVars
    <3>1. /\ ci[c] = "checking" /\ ci'[c] \in {"success", "failure"}
          /\ UNCHANGED <<registry, certified>>
          /\ \A d \in Commits : d # c => ci'[d] = ci[d]
      BY <2>2 DEF ConcludeChecks, TypeOK, registryVars
    <3>2. CASE ci'[c] = "success"
      <4>1. Passed' = Passed \cup {c}
        BY <3>1, <3>2 DEF Passed
      <4>2. Ledger!Pass(c)
        BY <3>1, <4>1 DEF Ledger!Pass, Passed
      <4> QED
        BY <4>2 DEF Ledger!Next
    <3>3. CASE ci'[c] = "failure"
      BY <3>1, <3>3, LedgerStutters DEF Passed
    <3> QED
      BY <3>1, <3>2, <3>3
  <2>3. ASSUME NEW r \in Runs, NEW j \in Jobs, Publish(r, j)
        PROVE  [Ledger!Next]_Ledger!ledgerVars
    <3>0. PICK c \in {commit[r]} : TRUE
      OBVIOUS
    <3> DEFINE w == SourceOf[c].root
    <3>1. /\ job[r][j] = "allowed" /\ UNCHANGED <<ci, certified>>
      BY <2>3 DEF Publish, ciVars
    <3>2. /\ j \in {"publish-root", "publish-client"} /\ c \in Commits
          /\ PackageOf(j) \in Packages /\ w \in Versions /\ VersionOfCommit[c] = w
          /\ copy[r][PackageOf(j)] = c
      <4>1. /\ j \in {"publish-root", "publish-client"} /\ c \in Commits
            /\ PackageOf(j) \in Packages /\ Loads(copy[r], c)
        BY <3>0, <3>1, PublishingJob
      <4>2. w \in Versions /\ VersionOfCommit[c] = w
        BY <4>1, ReleaseAssumption DEF VersionOfCommit
      <4> QED
        BY <4>1, <4>2 DEF Loads
    <3>3. CASE registry[<<PackageOf(j), w>>] # Nobody
      BY <2>0, <2>3, <3>0, <3>1, <3>3 DEF Publish
    <3>4. CASE registry[<<PackageOf(j), w>>] = Nobody
      <4>1. registry' = [registry EXCEPT ![<<PackageOf(j), w>>] = c]
        BY <2>3, <3>0, <3>2, <3>4 DEF Publish
      <4>2. /\ Roots' = IF PackageOf(j) = "smocket" THEN [Roots EXCEPT ![w] = c] ELSE Roots
            /\ Clients' = IF PackageOf(j) = "smocket-client"
                          THEN [Clients EXCEPT ![w] = c] ELSE Clients
        BY <3>2, <4>1, LedgerPublishes
      <4>3. Passed' = Passed
        BY <3>1 DEF Passed
      <4>4. CASE j = "publish-root"
        <5>1. c \in Passed
          BY <3>0, <3>1, <3>2, <4>4 DEF IInv, RunInv, JobOrder, JobVerified, Passed
        <5>2. Roots[w] = Nobody /\ Roots' = [Roots EXCEPT ![w] = c] /\ Clients' = Clients
          BY <3>2, <3>4, <4>2, <4>4 DEF PackageOf, Roots
        <5>3. Ledger!PublishRoot(c)
          BY <3>1, <3>2, <4>3, <5>1, <5>2
             DEF Ledger!PublishRoot, Passed, Roots, Clients, VersionOfCommit
        <5> QED
          BY <3>2, <5>3 DEF Ledger!Next
      <4>5. CASE j = "publish-client"
        <5>1. Roots[w] = c
          BY <3>0, <3>1, <3>2, <4>5 DEF IInv, RunInv, JobOrder, JobPublished, Entry, Roots
        <5>2. Clients[w] = Nobody /\ Clients' = [Clients EXCEPT ![w] = c] /\ Roots' = Roots
          BY <3>2, <3>4, <4>2, <4>5 DEF PackageOf, Clients
        <5>3. Ledger!PublishClient(c)
          BY <3>1, <3>2, <4>3, <5>1, <5>2
             DEF Ledger!PublishClient, Passed, Roots, Clients, VersionOfCommit
        <5> QED
          BY <3>2, <5>3 DEF Ledger!Next
      <4> QED
        BY <3>2, <4>4, <4>5
    <3> QED
      BY <3>3, <3>4
  <2>4. ASSUME NEW r \in Runs, Adopt(r) PROVE [Ledger!Next]_Ledger!ledgerVars
    <3>1. UNCHANGED <<ci, registry>> /\ job[r]["verify-published"] = "seen"
      BY <2>4 DEF Adopt, ciVars, registryVars
    <3>2. CASE UNCHANGED certified
      BY <2>0, <3>1, <3>2
    <3>3. CASE certified' = certified \cup {commit[r]}
      <4>1. commit[r] \in Commits
        BY <3>1, BegunHasCommit DEF Jobs
      <4>2. SourceOf[commit[r]].root \in Versions
        BY <4>1, ReleaseAssumption
      <4>3. Clients[VersionOfCommit[commit[r]]] = commit[r]
        BY <3>1, <4>1, <4>2
           DEF IInv, RunInv, JobOrder, JobPublished, Entry, Clients, VersionOfCommit
      <4>4. Ledger!Certify(commit[r])
        BY <3>1, <3>3, <4>1, <4>3 DEF Ledger!Certify, Clients, VersionOfCommit
      <4> QED
        BY <4>1, <4>4 DEF Ledger!Next
    <3> QED
      BY <2>4, <3>2, <3>3 DEF Adopt
  <2>5. ASSUME NEW r \in Runs, NEW j \in Jobs,
               \/ CertifyCi(r) \/ LookUpRoot(r) \/ StartVerification(r) \/ LookUpRound(r)
               \/ Download(r, j) \/ LoadCandidate(r, j) \/ EndPublication(r, j)
               \/ Rerun(r) \/ Stop(r, j)
        PROVE  UNCHANGED Ledger!ledgerVars
    <3>1. UNCHANGED <<ci, registry, certified>>
      BY <2>5 DEF CertifyCi, LookUpRoot, StartVerification, LookUpRound, Download, LoadCandidate,
                  EndPublication, Rerun, Stop, ciVars, registryVars
    <3> QED
      BY <2>0, <3>1
  <2>6. ASSUME NEW r \in Runs, NEW c \in Commits, NEW v \in Versions, Dispatch(r, c, v)
        PROVE  UNCHANGED Ledger!ledgerVars
    BY <2>0, <2>6 DEF Dispatch, ciVars, registryVars
  <2>7. ASSUME NEW p \in Packages, NEW v \in Versions, Show(p, v)
        PROVE  UNCHANGED Ledger!ledgerVars
    BY <2>0, <2>7 DEF Show, ciVars
  <2>8. CASE UNCHANGED vars
    BY <2>0, <2>8 DEF vars, ciVars, registryVars
  <2>9. "certify-ci" \in Jobs
    BY DEF Jobs
  <2> QED
    BY <2>1, <2>2, <2>3, <2>4, <2>5, <2>6, <2>7, <2>8, <2>9 DEF Next, CiNext, JobStep
<1> QED
  BY <1>1, <1>2, Invariant, PTL DEF Spec, LedgerSpec, Ledger!Spec

=============================================================================
