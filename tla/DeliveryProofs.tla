--------------------------- MODULE DeliveryProofs ---------------------------
(***************************************************************************)
(* What the company delivers: the evidence its tools store and report, and *)
(* the results its owner accepts, for any operations and any plan.         *)
(*                                                                         *)
(* Tools.  Only a save writes evidence.  It writes over none but its own,  *)
(* and what a death leaves of it is never what was reported, so the        *)
(* property is inductive once the snapshots are known to be a table over   *)
(* operations.  A result is made of the call that waited for it: a handler *)
(* that has not waited has done nothing elsewhere, one that waits on ssh   *)
(* runs a remote tool, and one that waits for a page waits for a public    *)
(* address (Waiting).                                                      *)
(*                                                                         *)
(* Plans.  A complete proposal is only made of steps that are all complete *)
(* and of no open gap, and what a proposal was made of only grows: files,  *)
(* revisions and delivered steps (ProposalOK).  So a proposal that is up   *)
(* to date when it is accepted speaks of delivered steps.  That they are   *)
(* still complete needs more: while the goal waits for the decision, no    *)
(* step has moved since a complete proposal was made, unless the owner was *)
(* handed a proposal of before (PendingIsComplete).                        *)
(***************************************************************************)
EXTENDS ToolCalls, TaskPlans, TLAPS

(* ---- the tools ----------------------------------------------------------- *)

EvidenceIInv ==
  /\ snaps = [o \in Ops |-> snaps[o]] /\ told = [o \in Ops |-> told[o]]
  /\ EvidenceStands

(* A save writes over no other evidence, and reports the first it wrote.    *)
LEMMA SaveKeeps ==
  ASSUME EvidenceIInv, NEW c, c.op \in Ops, NEW evidence \in BOOLEAN, Save(c, evidence)
  PROVE  EvidenceIInv'
<1>1. CASE evidence /\ Snapshot(c.op, c.content)
  <2>1. /\ snaps' = [snaps EXCEPT ![c.op] = c.content]
        /\ told' = IF told[c.op] = "none" THEN [told EXCEPT ![c.op] = c.content] ELSE told
    BY <1>1 DEF Save
  <2>2. told[c.op] # "none" => snaps[c.op] = told[c.op]
    BY DEF EvidenceIInv, EvidenceStands
  <2>3. snaps[c.op] \in {"none", c.content}
    BY <1>1 DEF Snapshot
  <2>4. told[c.op] # "none" => c.content = told[c.op]
    BY <2>2, <2>3
  <2>5. ASSUME NEW o \in Ops PROVE told'[o] # "none" => snaps'[o] = told'[o]
    BY <2>1, <2>4 DEF EvidenceIInv, EvidenceStands
  <2>6. snaps' = [o \in Ops |-> snaps'[o]] /\ told' = [o \in Ops |-> told'[o]]
    BY <2>1 DEF EvidenceIInv
  <2> QED
    BY <2>5, <2>6 DEF EvidenceIInv, EvidenceStands
<1>2. CASE ~(evidence /\ Snapshot(c.op, c.content))
  <2>1. snaps' = snaps /\ told' = told
    BY <1>2 DEF Save, diskVars
  <2> QED
    BY <2>1 DEF EvidenceIInv, EvidenceStands
<1> QED
  BY <1>1, <1>2

(* A death inside a save leaves half a snapshot only where none was.        *)
LEMMA DeathKeeps ==
  ASSUME EvidenceIInv, NEW c, c.op \in Ops, SaveDies(c)
  PROVE  EvidenceIInv'
<1>1. told' = told
  BY DEF SaveDies
<1>2. PICK half : snaps' = [snaps EXCEPT ![c.op] = half]
  BY DEF SaveDies
<1>3. told[c.op] # "none" => half = told[c.op] \/ snaps[c.op] = "none"
  <2>1. CASE snaps[c.op] = "none"
    BY <2>1
  <2>2. CASE Snapshot(c.op, c.content) /\ snaps' = [snaps EXCEPT ![c.op] = c.content]
    <3>1. snaps[c.op] = c.content \/ snaps[c.op] = "none"
      BY <2>2 DEF Snapshot
    <3>2. half = c.content
      BY <1>2, <2>2 DEF EvidenceIInv
    <3>3. told[c.op] # "none" => snaps[c.op] = told[c.op]
      BY DEF EvidenceIInv, EvidenceStands
    <3> QED
      BY <3>1, <3>2, <3>3
  <2> QED
    BY <2>1, <2>2 DEF SaveDies
<1>4. told[c.op] # "none" => half = told[c.op]
  BY <1>3 DEF EvidenceIInv, EvidenceStands
<1>5. ASSUME NEW o \in Ops PROVE told'[o] # "none" => snaps'[o] = told'[o]
  BY <1>1, <1>2, <1>4 DEF EvidenceIInv, EvidenceStands
<1>6. snaps' = [o \in Ops |-> snaps'[o]] /\ told' = [o \in Ops |-> told'[o]]
  BY <1>1, <1>2 DEF EvidenceIInv
<1> QED
  BY <1>5, <1>6 DEF EvidenceIInv, EvidenceStands

(* Every other handler leaves the evidence alone.                           *)
LEMMA OthersKeep ==
  ASSUME NEW o \in Ops, NEW t \in Tools, NEW p \in Pixels, NEW f \in Files, Execute(o, t, p, f)
  PROVE  UNCHANGED <<snaps, told>> \/ SaveArtifact(Called(o, t, p, f))
<1> DEFINE c == Called(o, t, p, f)
<1> HIDE DEF c
<1> USE DEF Refused, Answer, diskVars
<1>1. Gate(c) => UNCHANGED <<snaps, told>>
  BY DEF Gate
<1>2. ReadArtifact(c) \/ ListArtifacts(c) => UNCHANGED <<snaps, told>>
  BY DEF ReadArtifact, ListArtifacts
<1>3. TransferArtifact(c) => UNCHANGED <<snaps, told>>
  BY DEF TransferArtifact, Transfer
<1>4. ListPrivateFiles(c) \/ ReadPrivateFile(c) \/ InspectPrivateImage(c) => UNCHANGED <<snaps, told>>
  BY DEF ListPrivateFiles, ReadPrivateFile, InspectPrivateImage
<1>5. WebFetch(c) \/ GithubRepo(c) => UNCHANGED <<snaps, told>>
  BY DEF WebFetch, GithubRepo, Asks
<1>6. VpsExec(c) \/ VpsListFiles(c) \/ VpsReadFile(c) \/ VpsDownloadFile(c) => UNCHANGED <<snaps, told>>
  BY DEF VpsExec, VpsListFiles, VpsReadFile, VpsDownloadFile, Spawn
<1>7. VpsWriteFile(c) \/ VpsUploadFile(c) => UNCHANGED <<snaps, told>>
  BY DEF VpsWriteFile, VpsUploadFile, Spawn
<1> QED
  BY <1>1, <1>2, <1>3, <1>4, <1>5, <1>6, <1>7 DEF Execute, c

(* Evidence is kept by every step of the tools, the runtime and the network. *)
LEMMA ToolStepKeeps == ASSUME EvidenceIInv, [ToolNext]_toolVars PROVE EvidenceIInv'
<1>1. ASSUME NEW o \in Ops, NEW t \in Tools, NEW p \in Pixels, NEW f \in Files, Execute(o, t, p, f)
      PROVE  EvidenceIInv'
  <2>1. CASE UNCHANGED <<snaps, told>>
    BY <2>1 DEF EvidenceIInv, EvidenceStands
  <2>2. ASSUME NEW content \in Contents PROVE With(Called(o, t, p, f), content).op = o
    BY DEF With, Called
  <2>3. CASE SaveArtifact(Called(o, t, p, f))
    <3>1. CASE Refused(Called(o, t, p, f), {"arguments"})
      BY <2>1, <3>1 DEF Refused, Answer, diskVars
    <3>2. ASSUME NEW content \in Contents, SaveDies(With(Called(o, t, p, f), content)) PROVE EvidenceIInv'
      BY <2>2, <3>2, DeathKeeps
    <3>3. ASSUME NEW content \in Contents, NEW evidence \in BOOLEAN,
                 Save(With(Called(o, t, p, f), content), evidence)
          PROVE  EvidenceIInv'
      BY <2>2, <3>3, SaveKeeps
    <3> QED
      BY <2>3, <3>1, <3>2, <3>3 DEF SaveArtifact
  <2> QED
    BY <1>1, <2>1, <2>3, OthersKeep
<1>2. CASE Returns \/ RemoteStep \/ SshTimer \/ Close \/ Drift \/ Resolve \/ Response
  <2>1. UNCHANGED <<snaps, told>>
    BY <1>2 DEF Returns, RemoteStep, SshTimer, Close, Drift, Resolve, Response, diskVars
  <2> QED
    BY <2>1 DEF EvidenceIInv, EvidenceStands
<1>3. CASE Abort("TIMEOUT") \/ Abort("USER_STOPPED") \/ ServerDies \/ UNCHANGED toolVars
  <2>1. UNCHANGED <<snaps, told>>
    BY <1>3 DEF Abort, ServerDies, diskVars, toolVars
  <2> QED
    BY <2>1 DEF EvidenceIInv, EvidenceStands
<1> QED
  BY <1>1, <1>2, <1>3 DEF ToolNext

(* The evidence of an operation that was reported saved stays what was      *)
(* reported (snapshotArtifact() in artifacts.ts), for any operations,       *)
(* contents, deaths and repeated executions.                                *)
THEOREM EvidenceKept == ToolSpec => []EvidenceStands
<1>1. ToolInit => EvidenceIInv
  BY DEF ToolInit, EvidenceIInv, EvidenceStands
<1>2. EvidenceIInv /\ [ToolNext]_toolVars => EvidenceIInv'
  BY ToolStepKeeps
<1>3. EvidenceIInv => EvidenceStands
  BY DEF EvidenceIInv
<1> QED
  BY <1>1, <1>2, <1>3, PTL DEF ToolSpec

-----------------------------------------------------------------------------
(* Results are true.                                                        *)

(* A call as the handlers pass it on, and what is known of one that waits:  *)
(* on ssh for the remote host, on a name or a page for the web.             *)
IsCall(c) ==
  c = [pc |-> c.pc, op |-> c.op, tool |-> c.tool, pixel |-> c.pixel, file |-> c.file,
       content |-> c.content, overwrite |-> c.overwrite, effect |-> c.effect, abort |-> c.abort,
       late |-> c.late, hops |-> c.hops]
Fresh(c) == IsCall(c) /\ c.effect = "none" /\ c.abort = "no" /\ c.late = FALSE

Waiting ==
  call.pc # "idle" =>
    /\ IsCall(call) /\ call.late \in BOOLEAN /\ call.abort \in {"no", "TIMEOUT", "USER_STOPPED"}
    /\ \/ call.pc = "ssh" /\ call.tool \in Remote
       \/ call.pc = "dns" /\ call.tool \in Web
       \/ call.pc = "http" /\ call.tool \in Web /\ call.content = "public"

ReportIInv == Waiting /\ ReportsAreTrue

(* What a handler says that refuses before it has done anything.            *)
Harmless == {"gate", "arguments", "scope", "target", "credentials", "io", "missing", "protected",
             "conflict", "size"}

(* A refusal is true: nothing was done.                                     *)
LEMMA Refusals ==
  ASSUME NEW c, Fresh(c), NEW code \in Harmless, Tell(c, code)
  PROVE  ReportIInv'
<1>1. call'.pc = "idle" /\ last'.code = code /\ last'.effect = "none"
  BY DEF Tell, Idle, Fresh
<1>2. code \notin {"SUCCESS", "EXIT", "USER_STOPPED"}
  BY DEF Harmless
<1> QED
  BY <1>1, <1>2 DEF ReportIInv, Waiting, ReportsAreTrue

(* What a local handler did is no claim about the web or the remote host.   *)
LEMMA LocalSuccess ==
  ASSUME NEW c, c.tool \in Local, Tell(c, "SUCCESS")
  PROVE  ReportIInv'
<1>1. call'.pc = "idle" /\ last'.code = "SUCCESS" /\ last'.kind = "local"
  BY DEF Tell, Idle, Kind, Local, Web, Remote, RemoteReads, RemoteWrites
<1> QED
  BY <1>1 DEF ReportIInv, Waiting, ReportsAreTrue

(* The handlers of artifacts and private files.                             *)
LEMMA LocalHandlers ==
  ASSUME NEW c, Fresh(c), c.tool \in Local,
         \/ SaveArtifact(c) \/ ReadArtifact(c) \/ ListArtifacts(c) \/ TransferArtifact(c)
         \/ ListPrivateFiles(c) \/ ReadPrivateFile(c) \/ InspectPrivateImage(c)
  PROVE  ReportIInv'
<1>0. \A codes : Refused(c, codes) => \E code \in codes : Tell(c, code)
  BY DEF Refused, Answer
<1>1. CASE SaveArtifact(c)
  <2>1. CASE Refused(c, {"arguments"})
    BY <1>0, <2>1, Refusals DEF Harmless
  <2>2. ASSUME NEW content \in Contents, SaveDies(With(c, content)) PROVE ReportIInv'
    <3>1. call'.pc = "idle" /\ last'.code = "none"
      BY <2>2 DEF SaveDies, Idle, Unsaid
    <3> QED
      BY <3>1 DEF ReportIInv, Waiting, ReportsAreTrue
  <2>3. ASSUME NEW content \in Contents, NEW evidence \in BOOLEAN, Save(With(c, content), evidence)
        PROVE  ReportIInv'
    <3> DEFINE d == With(c, content)
    <3>1. Fresh(d) /\ d.tool \in Local /\ [d EXCEPT !.effect = "whole"].tool \in Local
      BY DEF With, Fresh, IsCall
    <3>2. Tell(d, "io") \/ Tell([d EXCEPT !.effect = "whole"], "SUCCESS")
      BY <2>3 DEF Save
    <3> HIDE DEF d
    <3> QED
      BY <3>1, <3>2, Refusals, LocalSuccess DEF Harmless
  <2> QED
    BY <1>1, <2>1, <2>2, <2>3 DEF SaveArtifact
<1>2. CASE ReadArtifact(c)
  <2>1. \/ \E code \in {"arguments", "scope", "io", "missing"} : Tell(c, code)
        \/ Tell(c, "SUCCESS")
    BY <1>0, <1>2 DEF ReadArtifact, Answer
  <2> QED
    BY <2>1, Refusals, LocalSuccess DEF Harmless
<1>3. CASE ListArtifacts(c)
  <2>1. (\E code \in {"arguments", "scope", "io"} : Tell(c, code)) \/ Tell(c, "SUCCESS")
    BY <1>0, <1>3 DEF ListArtifacts, Answer
  <2> QED
    BY <2>1, Refusals, LocalSuccess DEF Harmless
<1>4. CASE TransferArtifact(c)
  <2>1. CASE Refused(c, {"arguments", "scope", "target", "io"})
    BY <1>0, <2>1, Refusals DEF Harmless
  <2>2. ASSUME NEW target \in Pixels, Transfer(c, target) PROVE ReportIInv'
    <3>1. [c EXCEPT !.effect = "whole"].tool \in Local
      BY DEF Fresh, IsCall
    <3>2. \/ \E code \in {"arguments", "target", "missing", "conflict"} : Tell(c, code)
          \/ Tell([c EXCEPT !.effect = "whole"], "SUCCESS")
      BY <2>2 DEF Transfer
    <3> QED
      BY <3>1, <3>2, Refusals, LocalSuccess DEF Harmless
  <2> QED
    BY <1>4, <2>1, <2>2 DEF TransferArtifact
<1>5. CASE ListPrivateFiles(c) \/ InspectPrivateImage(c)
  <2>1. (\E code \in {"scope", "missing", "io"} : Tell(c, code)) \/ Tell(c, "SUCCESS")
    BY <1>0, <1>5 DEF ListPrivateFiles, InspectPrivateImage, Answer
  <2> QED
    BY <2>1, Refusals, LocalSuccess DEF Harmless
<1>6. CASE ReadPrivateFile(c)
  <2>1. [c EXCEPT !.effect = "masked"].tool \in Local
    BY DEF Fresh, IsCall
  <2>2. \/ \E code \in {"scope", "missing", "protected", "io"} : Tell(c, code)
        \/ Tell(c, "SUCCESS") \/ Tell([c EXCEPT !.effect = "masked"], "SUCCESS")
    BY <1>0, <1>6 DEF ReadPrivateFile, Answer
  <2> QED
    BY <2>1, <2>2, Refusals, LocalSuccess DEF Harmless
<1> QED
  BY <1>1, <1>2, <1>3, <1>4, <1>5, <1>6

(* A handler that waits has said nothing yet.                               *)
LEMMA Waits ==
  ASSUME NEW c, Fresh(c), (c.tool \in Remote /\ Spawn(c)) \/ (c.tool \in Web /\ Asks(c))
  PROVE  ReportIInv'
<1>1. last'.code = "none"
  BY DEF Spawn, Asks, Unsaid
<1>2. CASE c.tool \in Remote /\ Spawn(c)
  <2>1. call' = [c EXCEPT !.pc = "ssh"]
    BY <1>2 DEF Spawn
  <2>2. /\ IsCall(call') /\ call'.pc = "ssh" /\ call'.tool \in Remote
        /\ call'.late = FALSE /\ call'.abort = "no"
    BY <1>2, <2>1 DEF Fresh, IsCall
  <2> QED
    BY <1>1, <2>2 DEF ReportIInv, Waiting, ReportsAreTrue
<1>3. CASE c.tool \in Web /\ Asks(c)
  <2>1. call' = [c EXCEPT !.pc = "dns"]
    BY <1>3 DEF Asks
  <2>2. /\ IsCall(call') /\ call'.pc = "dns" /\ call'.tool \in Web
        /\ call'.late = FALSE /\ call'.abort = "no"
    BY <1>3, <2>1 DEF Fresh, IsCall
  <2> QED
    BY <1>1, <2>2 DEF ReportIInv, Waiting, ReportsAreTrue
<1> QED
  BY <1>2, <1>3

(* The handlers of pages and of the remote host.                            *)
LEMMA OutsideHandlers ==
  ASSUME NEW c, Fresh(c),
         \/ c.tool \in Web /\ (WebFetch(c) \/ GithubRepo(c))
         \/ /\ c.tool \in Remote
            /\ \/ VpsExec(c) \/ VpsListFiles(c) \/ VpsReadFile(c) \/ VpsDownloadFile(c)
               \/ VpsWriteFile(c) \/ VpsUploadFile(c)
  PROVE  ReportIInv'
<1>0. \A codes : Refused(c, codes) => \E code \in codes : Tell(c, code)
  BY DEF Refused, Answer
<1>1. CASE c.tool \in Web /\ (WebFetch(c) \/ GithubRepo(c))
  <2>1. (\E code \in {"arguments"} : Tell(c, code)) \/ Asks(c)
    BY <1>0, <1>1 DEF WebFetch, GithubRepo
  <2> QED
    BY <1>1, <2>1, Refusals, Waits DEF Harmless
<1>2. CASE c.tool \in Remote /\ (VpsExec(c) \/ VpsListFiles(c) \/ VpsReadFile(c) \/ VpsDownloadFile(c))
  <2>1. (\E code \in {"arguments", "scope", "credentials"} : Tell(c, code)) \/ Spawn(c)
    BY <1>0, <1>2 DEF VpsExec, VpsListFiles, VpsReadFile, VpsDownloadFile, PathChecks, Prerequisites
  <2> QED
    BY <1>2, <2>1, Refusals, Waits DEF Harmless
<1>3. CASE c.tool \in Remote /\ VpsWriteFile(c)
  <2>1. CASE Refused(c, PathChecks \cup Prerequisites \cup {"size"})
    BY <1>0, <2>1, Refusals DEF Harmless, PathChecks, Prerequisites
  <2>2. ASSUME NEW content \in Contents, NEW over \in BOOLEAN,
               Spawn([With(c, content) EXCEPT !.overwrite = over])
        PROVE  ReportIInv'
    <3> DEFINE e == With(c, content)
               d == [e EXCEPT !.overwrite = over]
    <3>1. Spawn(d)
      BY <2>2
    <3>2. Fresh(e) /\ e.tool = c.tool
      BY DEF With, Fresh, IsCall
    <3> HIDE DEF e
    <3>3. Fresh(d) /\ d.tool = c.tool
      BY <3>2 DEF Fresh, IsCall
    <3> HIDE DEF d
    <3> QED
      BY <1>3, <3>1, <3>3, Waits
  <2> QED
    BY <1>3, <2>1, <2>2 DEF VpsWriteFile
<1>4. CASE c.tool \in Remote /\ VpsUploadFile(c)
  <2>1. CASE Refused(c, PathChecks \cup Prerequisites \cup {"size"})
    BY <1>0, <2>1, Refusals DEF Harmless, PathChecks, Prerequisites
  <2>2. CASE Answer(c, "missing")
    BY <2>2, Refusals DEF Harmless, Answer
  <2>3. CASE Spawn(With(c, files[c.pixel][c.file]))
    <3>1. Fresh(With(c, files[c.pixel][c.file])) /\ With(c, files[c.pixel][c.file]).tool \in Remote
      BY <1>4 DEF With, Fresh, IsCall
    <3> QED
      BY <2>3, <3>1, Waits
  <2> QED
    BY <1>4, <2>1, <2>2, <2>3 DEF VpsUploadFile
<1> QED
  BY <1>1, <1>2, <1>3, <1>4

(* A handler that is called reports what is true, or waits.                 *)
LEMMA HandlersReport ==
  ASSUME NEW o \in Ops, NEW t \in Tools, NEW p \in Pixels, NEW f \in Files, Execute(o, t, p, f)
  PROVE  ReportIInv'
<1> DEFINE c == Called(o, t, p, f)
<1>1. Fresh(c) /\ c.tool = t
  BY DEF Called, Fresh, IsCall
<1> HIDE DEF c
<1>2. CASE Gate(c)
  <2>1. Tell(c, "gate")
    BY <1>2 DEF Gate, Answer
  <2> QED
    BY <1>1, <2>1, Refusals DEF Harmless
<1>3. CASE \/ t = "save_artifact" /\ SaveArtifact(c)
           \/ t = "read_artifact" /\ ReadArtifact(c)
           \/ t = "list_artifacts" /\ ListArtifacts(c)
           \/ t = "transfer_artifact" /\ TransferArtifact(c)
           \/ t = "list_private_files" /\ ListPrivateFiles(c)
           \/ t = "read_private_file" /\ ReadPrivateFile(c)
           \/ t = "inspect_private_image" /\ InspectPrivateImage(c)
  <2>1. c.tool \in Local
    BY <1>1, <1>3 DEF Local
  <2> QED
    BY <1>1, <1>3, <2>1, LocalHandlers
<1>4. CASE (t = "webfetch" /\ WebFetch(c)) \/ (t = "github_repo" /\ GithubRepo(c))
  <2>1. c.tool \in Web
    BY <1>1, <1>4 DEF Web
  <2> QED
    BY <1>1, <1>4, <2>1, OutsideHandlers
<1>5. CASE \/ t = "vps_exec" /\ VpsExec(c)
           \/ t = "vps_list_files" /\ VpsListFiles(c)
           \/ t = "vps_read_file" /\ VpsReadFile(c)
           \/ t = "vps_write_file" /\ VpsWriteFile(c)
           \/ t = "vps_upload_file" /\ VpsUploadFile(c)
           \/ t = "vps_download_file" /\ VpsDownloadFile(c)
  <2>1. c.tool \in Remote
    BY <1>1, <1>5 DEF Remote, RemoteReads, RemoteWrites
  <2> QED
    BY <1>1, <1>5, <2>1, OutsideHandlers
<1> QED
  BY <1>2, <1>3, <1>4, <1>5 DEF Execute, c

(* How ssh ended decides: a command is a success only when the remote shell *)
(* ended by itself with code 0, having done everything; vps_exec passes any *)
(* other code on, but not when it was cut short here.                       *)
LEMMA CloseReports == ASSUME ReportIInv, Close PROVE ReportIInv'
<1>1. /\ call.pc = "ssh" /\ IsCall(call) /\ call.late \in BOOLEAN
      /\ call.abort \in {"no", "TIMEOUT", "USER_STOPPED"} /\ call.tool \in Remote
  BY DEF Close, At, ReportIInv, Waiting
<1>2. PICK exit \in {"zero", "failed", "lost", "spawn"} :
        /\ exit = "zero" => call.effect = "whole"
        /\ exit = "spawn" => call.effect = "none"
        /\ Tell(call, Outcome(call, exit)) \/ Tell(call, "size")
  BY DEF Close
<1>3. CASE Tell(call, "size")
  <2>1. call'.pc = "idle" /\ last'.code = "size"
    BY <1>3 DEF Tell, Idle
  <2> QED
    BY <2>1 DEF ReportIInv, Waiting, ReportsAreTrue
<1>4. CASE Tell(call, Outcome(call, exit))
  <2>1. /\ call'.pc = "idle" /\ last'.code = Outcome(call, exit) /\ last'.kind = "remote"
        /\ last'.effect = call.effect
        /\ last'.by = call.abort \/ (call.abort = "no" /\ call.late = TRUE)
    BY <1>1, <1>4 DEF Tell, Idle, Kind, Cause
  <2>2. CASE exit = "spawn"
    <3>1. last'.code = "spawn" /\ last'.effect = "none"
      BY <1>2, <2>1, <2>2 DEF Outcome, TransportFailure
    <3> QED
      BY <2>1, <3>1 DEF ReportIInv, Waiting, ReportsAreTrue
  <2>3. CASE exit # "spawn" /\ call.abort # "no"
    <3>1. \/ last'.code = "TIMEOUT"
          \/ last'.code = "USER_STOPPED" /\ call.abort = "USER_STOPPED"
      BY <1>1, <2>1, <2>3 DEF Outcome, TransportFailure, Stopped
    <3> QED
      BY <2>1, <3>1 DEF ReportIInv, Waiting, ReportsAreTrue
  <2>4. CASE exit # "spawn" /\ call.abort = "no" /\ call.late
    <3>1. last'.code = "TIMEOUT"
      BY <2>1, <2>4 DEF Outcome, TransportFailure, Stopped
    <3> QED
      BY <2>1, <3>1 DEF ReportIInv, Waiting, ReportsAreTrue
  <2>5. CASE exit # "spawn" /\ call.abort = "no" /\ ~call.late
    <3>1. ~Stopped(call) /\ TransportFailure(call, exit) = "none"
      BY <2>5 DEF Stopped, TransportFailure
    <3>2. \/ last'.code \in {"failed", "EXIT"} \/ exit = "spawn"
          \/ last'.code = "SUCCESS" /\ call.effect = "whole"
      BY <1>2, <2>1, <2>5, <3>1 DEF Outcome, Ended
    <3>3. last'.by = "no"
      BY <2>1, <2>5
    <3> QED
      BY <2>1, <2>2, <2>5, <3>2, <3>3 DEF ReportIInv, Waiting, ReportsAreTrue
  <2> QED
    BY <1>1, <2>2, <2>3, <2>4, <2>5
<1> QED
  BY <1>2, <1>3, <1>4

(* Only a public address is asked, and only its answer is a success.        *)
LEMMA WebReports == ASSUME ReportIInv, Resolve \/ Response PROVE ReportIInv'
<1>1. CASE Resolve
  <2>1. /\ IsCall(call) /\ call.late \in BOOLEAN /\ call.pc = "dns"
        /\ call.abort \in {"no", "TIMEOUT", "USER_STOPPED"} /\ call.tool \in Web
    BY <1>1 DEF Resolve, At, ReportIInv, Waiting
  <2>2. \/ \E code \in {"dns", "private"} : Tell(call, code)
        \/ /\ call' = [call EXCEPT !.pc = "http", !.content = "public"] /\ UNCHANGED last
    BY <1>1 DEF Resolve, PublicAddress
  <2>3. ASSUME NEW code \in {"dns", "private"}, Tell(call, code) PROVE ReportIInv'
    <3>1. call'.pc = "idle" /\ last'.code = code
      BY <2>3 DEF Tell, Idle
    <3> QED
      BY <3>1 DEF ReportIInv, Waiting, ReportsAreTrue
  <2>4. CASE call' = [call EXCEPT !.pc = "http", !.content = "public"] /\ UNCHANGED last
    <3>1. /\ IsCall(call') /\ call'.late = call.late /\ call'.abort = call.abort
          /\ call'.pc = "http" /\ call'.tool = call.tool /\ call'.content = "public"
      BY <2>1, <2>4 DEF IsCall
    <3> QED
      BY <2>1, <2>4, <3>1 DEF ReportIInv, Waiting, ReportsAreTrue
  <2> QED
    BY <2>2, <2>3, <2>4
<1>2. CASE Response
  <2>1. /\ IsCall(call) /\ call.late \in BOOLEAN /\ call.pc = "http" /\ call.content = "public"
        /\ call.abort \in {"no", "TIMEOUT", "USER_STOPPED"} /\ call.tool \in Web
    BY <1>2 DEF Response, At, ReportIInv, Waiting
  <2>2. \/ \E code \in {"ABORTED", "redirect", "status", "type", "TIMEOUT", "io"} : Tell(call, code)
        \/ call' = [call EXCEPT !.pc = "dns", !.hops = @ + 1] /\ UNCHANGED last
        \/ Tell([call EXCEPT !.effect = call.content], "SUCCESS")
    BY <1>2 DEF Response
  <2>3. ASSUME NEW code \in {"ABORTED", "redirect", "status", "type", "TIMEOUT", "io"}, Tell(call, code)
        PROVE  ReportIInv'
    <3>1. call'.pc = "idle" /\ last'.code = code
      BY <2>3 DEF Tell, Idle
    <3> QED
      BY <3>1 DEF ReportIInv, Waiting, ReportsAreTrue
  <2>4. CASE call' = [call EXCEPT !.pc = "dns", !.hops = @ + 1] /\ UNCHANGED last
    <3>1. /\ IsCall(call') /\ call'.late = call.late /\ call'.abort = call.abort
          /\ call'.pc = "dns" /\ call'.tool = call.tool
      BY <2>1, <2>4 DEF IsCall
    <3> QED
      BY <2>1, <2>4, <3>1 DEF ReportIInv, Waiting, ReportsAreTrue
  <2>5. CASE Tell([call EXCEPT !.effect = call.content], "SUCCESS")
    <3>1. /\ call'.pc = "idle" /\ last'.code = "SUCCESS" /\ last'.kind = "web"
          /\ last'.effect = "public"
      BY <2>1, <2>5 DEF Tell, Idle, IsCall, Kind, Web, Remote, RemoteReads, RemoteWrites
    <3> QED
      BY <3>1 DEF ReportIInv, Waiting, ReportsAreTrue
  <2> QED
    BY <2>2, <2>3, <2>4, <2>5
<1> QED
  BY <1>1, <1>2

(* Timers, stops, deaths and the remote shell only mark the call that waits.*)
LEMMA RestReports ==
  ASSUME ReportIInv,
         \/ Returns \/ RemoteStep \/ SshTimer \/ Drift \/ ServerDies
         \/ Abort("TIMEOUT") \/ Abort("USER_STOPPED") \/ UNCHANGED toolVars
  PROVE  ReportIInv'
<1>1. CASE Returns \/ Drift \/ UNCHANGED toolVars
  <2>1. call' = call /\ (last' = last \/ last'.code = "none")
    BY <1>1 DEF Returns, Drift, toolVars, Unsaid
  <2> QED
    BY <2>1 DEF ReportIInv, Waiting, ReportsAreTrue
<1>2. CASE ServerDies
  <2>1. call'.pc = "idle" /\ last' = last
    BY <1>2 DEF ServerDies, Idle
  <2> QED
    BY <2>1 DEF ReportIInv, Waiting, ReportsAreTrue
<1>3. CASE RemoteStep \/ SshTimer \/ Abort("TIMEOUT") \/ Abort("USER_STOPPED")
  <2>1. call.pc # "idle" /\ last' = last
    BY <1>3 DEF RemoteStep, SshTimer, Abort, At
  <2>2. IsCall(call) /\ call.late \in BOOLEAN /\ call.abort \in {"no", "TIMEOUT", "USER_STOPPED"}
    BY <2>1 DEF ReportIInv, Waiting
  <2>3. CASE RemoteStep
    <3>1. /\ IsCall(call') /\ call'.pc = call.pc /\ call'.tool = call.tool /\ call'.late = call.late
          /\ call'.abort = call.abort
      BY <2>2, <2>3 DEF RemoteStep, IsCall
    <3>2. call.pc = "ssh"
      BY <2>3 DEF RemoteStep, At
    <3> QED
      BY <2>1, <2>2, <3>1, <3>2 DEF ReportIInv, Waiting, ReportsAreTrue
  <2>4. CASE SshTimer
    <3>1. /\ IsCall(call') /\ call'.pc = call.pc /\ call'.tool = call.tool /\ call'.late = TRUE
          /\ call'.abort = call.abort /\ call'.content = call.content
      BY <2>2, <2>4 DEF SshTimer, IsCall
    <3> QED
      BY <2>1, <2>2, <3>1 DEF ReportIInv, Waiting, ReportsAreTrue
  <2>5. CASE Abort("TIMEOUT") \/ Abort("USER_STOPPED")
    <3>1. /\ IsCall(call') /\ call'.pc = call.pc /\ call'.tool = call.tool /\ call'.late = call.late
          /\ call'.abort \in {"TIMEOUT", "USER_STOPPED"} /\ call'.content = call.content
      BY <2>2, <2>5 DEF Abort, IsCall
    <3> QED
      BY <2>1, <2>2, <3>1 DEF ReportIInv, Waiting, ReportsAreTrue
  <2> QED
    BY <1>3, <2>3, <2>4, <2>5
<1> QED
  BY <1>1, <1>2, <1>3

(* Every step keeps results true.                                           *)
LEMMA ReportStepKeeps == ASSUME ReportIInv, [ToolNext]_toolVars PROVE ReportIInv'
  BY HandlersReport, CloseReports, WebReports, RestReports DEF ToolNext

(* What a tool reports is what happened: no success with code 0 of a remote *)
(* command that did not run to its end, no exit code passed on of a command *)
(* cut short here, no page from an address that is not public, no stop that *)
(* was not the cause, and no trace of a call refused before it began,       *)
(* whatever the timers, stops, deaths, links and the network do.            *)
THEOREM ReportsTrue == ToolSpec => []ReportsAreTrue
<1>1. ToolInit => ReportIInv
  BY DEF ToolInit, ReportIInv, Waiting, ReportsAreTrue, Idle, Unsaid
<1>2. ReportIInv /\ [ToolNext]_toolVars => ReportIInv'
  BY ReportStepKeeps
<1>3. ReportIInv => ReportsAreTrue
  BY DEF ReportIInv
<1> QED
  BY <1>1, <1>2, <1>3, PTL DEF ToolSpec

(* ---- the plans ----------------------------------------------------------- *)

Words == {"", "none", "open", "QUEUED", "RUNNING", "FINISHED", "CANCELLED", "BLOCKED", "BUDGET", "REPLIED",
          "STOPPED", "ENDED", "completed", "steps", "limit", "ordinary", "other", "empty", "poor", "part",
          "full", "WAITING", "COMPLETED", "PARTIAL", "DEFERRED", "SKIPPED", "RETRY", "NO_PROGRESS", "OPEN",
          "RESOLVED"}
Tasks == [node : Nodes, state : Words, task : Words, attempt : Words, why : Words, occ : Words,
          outcome : Words, saved : Words, called : BOOLEAN]
Steps == [state : Words, delivered : BOOLEAN]
Gaps == [tries : Seq(Words), limit : Nat, root : Words, facts : Words]
FieldsOK(f) ==
  /\ "node" \notin DOMAIN f /\ ("called" \in DOMAIN f => f["called"] \in BOOLEAN)
  /\ \A k \in DOMAIN f \ {"called"} : f[k] \in Words

PlanTyped ==
  /\ node \in [Nodes -> Steps] /\ job \in Seq(Tasks) /\ gap \in [Nodes -> Gaps]
  /\ plan \in [revision : Nat, approved : BOOLEAN, lacks : [Nodes -> SUBSET Nodes], shown : [Nodes -> Steps]]
  /\ proof \in [files : Nat, reports : SUBSET Nat]
  /\ sending \in {0} \cup DOMAIN job

ProposalOK(p) ==
  /\ p = [id |-> p.id, state |-> p.state]
  /\ p.id = [proof |-> p.id.proof, revision |-> p.id.revision, gaps |-> p.id.gaps, kind |-> p.id.kind]
  /\ p.id.proof.files \in Nat /\ p.id.proof.files <= proof.files
  /\ p.id.revision \in Nat /\ p.id.revision <= plan.revision
  /\ p.id.kind = "full" => p.id.gaps = {} /\ \A n \in Nodes : node[n].delivered
CompleteDelivered == \A n \in Nodes : node[n].state = "COMPLETED" => node[n].delivered
SentBackOnce == \E p \in closing : p.state = "REWORKED"
HasTwin(p) == \E q \in closing : q.id = [p.id EXCEPT !.kind = "partial"]
UpToDate(p) == p.id = [proof |-> proof, revision |-> plan.revision, gaps |-> OpenGaps(gap), kind |-> "full"]
PendingIsComplete ==
  goal.status = "WAITING_APPROVAL" =>
    \/ SentBackOnce \/ EveryStepComplete
    \/ \A p \in closing : p.state = "PENDING" /\ UpToDate(p) => HasTwin(p)

PlanIInv ==
  /\ PlanTyped /\ CompleteDelivered /\ \A p \in closing : ProposalOK(p)
  /\ PendingIsComplete /\ FullMeansDelivered

(* What a proposal was made of only grows.                                  *)
Grows ==
  /\ \A n \in Nodes : node[n].delivered => node'[n].delivered
  /\ proof.files <= proof'.files /\ plan.revision <= plan'.revision
Redecided == \A q \in closing' : \E p \in closing : q = [p EXCEPT !.state = q.state]

LEMMA ProposalsStay ==
  ASSUME PlanIInv, PlanTyped', Grows, Redecided
  PROVE  \A q \in closing' : ProposalOK(q)'
<1>1. SUFFICES ASSUME NEW q \in closing' PROVE ProposalOK(q)'
  OBVIOUS
<1>2. PICK p \in closing : q = [p EXCEPT !.state = q.state]
  BY DEF Redecided
<1>3. ProposalOK(p)
  BY DEF PlanIInv
<1>4. q.id = p.id /\ q = [id |-> q.id, state |-> q.state]
  BY <1>2, <1>3 DEF ProposalOK
<1>5. /\ proof.files \in Nat /\ proof'.files \in Nat
      /\ plan.revision \in Nat /\ plan'.revision \in Nat
  BY DEF PlanIInv, PlanTyped
<1> QED
  BY <1>3, <1>4, <1>5 DEF ProposalOK, Grows

(* A goal that waits for no approval, and is not complete.                  *)
LEMMA Elsewhere ==
  ASSUME PlanIInv, PlanTyped', CompleteDelivered', Grows, Redecided,
         goal'.status \notin {"WAITING_APPROVAL", "COMPLETED"}
  PROVE  PlanIInv'
<1>1. \A q \in closing' : ProposalOK(q)'
  BY ProposalsStay
<1> QED
  BY <1>1 DEF PlanIInv, PendingIsComplete, FullMeansDelivered

LEMMA SameProposals ==
  ASSUME PlanIInv, closing' = closing \/ closing' = Expired
  PROVE  Redecided
<1>1. \A p \in closing : p = [id |-> p.id, state |-> p.state]
  BY DEF PlanIInv, ProposalOK
<1>2. CASE closing' = closing
  BY <1>1, <1>2 DEF Redecided
<1>3. CASE closing' = Expired
  <2>1. SUFFICES ASSUME NEW q \in closing' PROVE \E p \in closing : q = [p EXCEPT !.state = q.state]
    BY DEF Redecided
  <2>2. PICK p \in closing : q = [p EXCEPT !.state = IF @ = "PENDING" THEN "EXPIRED" ELSE @]
    BY <1>3 DEF Expired
  <2> QED
    BY <1>1, <2>2
<1> QED
  BY <1>2, <1>3

LEMMA SameDecided ==
  ASSUME PlanIInv, NEW p \in closing, NEW s, Decide(p, s)
  PROVE  Redecided
<1>1. \A q \in closing : q = [id |-> q.id, state |-> q.state]
  BY DEF PlanIInv, ProposalOK
<1>2. SUFFICES ASSUME NEW q \in closing' PROVE \E r \in closing : q = [r EXCEPT !.state = q.state]
  BY DEF Redecided
<1>3. CASE q \in closing
  BY <1>1, <1>3
<1>4. CASE q = [p EXCEPT !.state = s]
  BY <1>1, <1>4
<1> QED
  BY <1>3, <1>4 DEF Decide

(* Steps, goal and proposals are left alone, and no proposal is up to date   *)
(* that was not.                                                             *)
LEMMA Unmoved ==
  ASSUME PlanIInv, PlanTyped', node' = node, goal' = goal, closing' = closing, Grows,
         \A p \in closing : UpToDate(p)' => UpToDate(p),
         goal.status = "COMPLETED" /\ NothingLive => NothingLive'
  PROVE  PlanIInv'
<1>1. Redecided
  BY SameProposals
<1>2. \A q \in closing' : ProposalOK(q)'
  BY <1>1, ProposalsStay
<1>3. CompleteDelivered' /\ EveryStepComplete' = EveryStepComplete /\ SentBackOnce' = SentBackOnce
  BY DEF PlanIInv, CompleteDelivered, EveryStepComplete, SentBackOnce
<1>4. PendingIsComplete'
  BY <1>3 DEF PlanIInv, PendingIsComplete, HasTwin
<1>5. FullMeansDelivered'
  BY <1>3 DEF PlanIInv, FullMeansDelivered, HandedBack
<1> QED
  BY <1>2, <1>3, <1>4, <1>5 DEF PlanIInv

(* A proposal to close is complete only when every step is.                  *)
LEMMA Whole ==
  ASSUME NEW jb, ~IsPartial(node', jb, gap')
  PROVE  EveryStepComplete' /\ OpenGaps(gap') = {}
  BY DEF IsPartial, EveryStepComplete

LEMMA Closes ==
  ASSUME PlanIInv, PlanTyped', CompleteDelivered', Grows, plan' = plan, NEW jb, NEW st,
         closing' = CloseProposal(node', jb, gap', proof', st), goal'.status = "WAITING_APPROVAL"
  PROVE  PlanIInv'
<1> DEFINE id == Identity(node', jb, gap', proof')
<1>0. /\ id.kind = "full" => EveryStepComplete' /\ OpenGaps(gap') = {}
      /\ id = [proof |-> proof', revision |-> plan'.revision, gaps |-> OpenGaps(gap'), kind |-> id.kind]
      /\ id.kind \in {"partial", "full"}
  BY Whole DEF Identity
<1> HIDE DEF id
<1>1. FullMeansDelivered'
  BY DEF FullMeansDelivered
<1>2. CASE closing' = closing
  <2>1. \A q \in closing' : ProposalOK(q)'
    BY <1>2, SameProposals, ProposalsStay
  <2> DEFINE same == \/ SentBack(node', jb, st) \/ \E p \in closing : p.id = id
                     \/ ~Proposed(node', jb, gap', proof', st)
  <2>2. same
    <3>1. closing' = IF same THEN closing ELSE Expired \cup {[id |-> id, state |-> "PENDING"]}
      BY DEF CloseProposal, id
    <3>2. CASE [id |-> id, state |-> "PENDING"] \in closing
      <4>1. [id |-> id, state |-> "PENDING"].id = id
        OBVIOUS
      <4> QED
        BY <3>2, <4>1
    <3> HIDE DEF same
    <3> QED
      BY <1>2, <3>1, <3>2
  <2>3. CASE SentBack(node', jb, st)
    <3>1. SentBackOnce'
      BY <1>2, <2>3 DEF SentBack, SentBackOnce
    <3> QED
      BY <1>1, <2>1, <3>1 DEF PlanIInv, PendingIsComplete
  <2>4. CASE \E p \in closing : p.id = id
    <3>1. CASE id.kind = "full"
      BY <1>0, <1>1, <2>1, <3>1 DEF PlanIInv, PendingIsComplete
    <3>2. CASE id.kind = "partial"
      <4>1. SUFFICES ASSUME NEW p \in closing', UpToDate(p)' PROVE HasTwin(p)'
        BY <1>1, <2>1 DEF PlanIInv, PendingIsComplete
      <4>2. [p.id EXCEPT !.kind = "partial"] = id
        BY <1>0, <3>2, <4>1 DEF UpToDate
      <4> QED
        BY <1>2, <2>4, <4>2 DEF HasTwin
    <3> QED
      BY <1>0, <3>1, <3>2
  <2>5. CASE ~Proposed(node', jb, gap', proof', st)
    <3>1. EveryStepComplete'
      BY <1>0, <2>5 DEF Proposed, id
    <3> QED
      BY <1>1, <2>1, <3>1 DEF PlanIInv, PendingIsComplete
  <2> QED
    BY <2>2, <2>3, <2>4, <2>5
<1>3. CASE closing' = Expired \cup {[id |-> id, state |-> "PENDING"]}
  <2>0. \A p \in closing : ProposalOK(p)
    BY DEF PlanIInv
  <2>1. /\ proof.files \in Nat /\ proof'.files \in Nat
        /\ plan.revision \in Nat /\ plan'.revision \in Nat
    BY DEF PlanIInv, PlanTyped
  <2>2. ASSUME NEW q \in Expired PROVE ProposalOK(q)' /\ q.state # "PENDING"
    <3>1. PICK p \in closing : q = [p EXCEPT !.state = IF @ = "PENDING" THEN "EXPIRED" ELSE @]
      BY <2>2 DEF Expired
    <3>2. p = [id |-> p.id, state |-> p.state]
      BY <2>0 DEF ProposalOK
    <3>3. q = [id |-> p.id, state |-> IF p.state = "PENDING" THEN "EXPIRED" ELSE p.state]
      BY <3>1, <3>2
    <3>4. q.id = p.id /\ q = [id |-> q.id, state |-> q.state] /\ q.state # "PENDING"
      BY <3>3
    <3>5. ProposalOK(p)
      BY <2>0
    <3>6. /\ p.id = [proof |-> p.id.proof, revision |-> p.id.revision, gaps |-> p.id.gaps, kind |-> p.id.kind]
          /\ p.id.proof.files \in Nat /\ p.id.proof.files <= proof'.files
          /\ p.id.revision \in Nat /\ p.id.revision <= plan'.revision
          /\ p.id.kind = "full" => p.id.gaps = {} /\ \A n \in Nodes : node'[n].delivered
      BY <2>1, <3>5 DEF ProposalOK, Grows
    <3> QED
      BY <3>4, <3>6 DEF ProposalOK
  <2>3. ASSUME NEW q, q = [id |-> id, state |-> "PENDING"] PROVE ProposalOK(q)'
    <3>1. id.proof = proof' /\ id.revision = plan'.revision /\ id.gaps = OpenGaps(gap')
      BY <1>0
    <3>2. id = [proof |-> id.proof, revision |-> id.revision, gaps |-> id.gaps, kind |-> id.kind]
      BY <1>0
    <3>3. id.kind = "full" => id.gaps = {} /\ \A n \in Nodes : node'[n].delivered
      BY <1>0, <3>1 DEF CompleteDelivered, EveryStepComplete
    <3> QED
      BY <2>1, <2>3, <3>1, <3>2, <3>3 DEF ProposalOK
  <2>4. \A p \in closing' : p.state = "PENDING" /\ UpToDate(p)' => EveryStepComplete'
    <3>1. SUFFICES ASSUME NEW p \in closing', p.state = "PENDING", UpToDate(p)' PROVE EveryStepComplete'
      OBVIOUS
    <3>2. p = [id |-> id, state |-> "PENDING"]
      BY <1>3, <2>2, <3>1
    <3>3. id.kind = "full"
      BY <3>1, <3>2 DEF UpToDate
    <3> QED
      BY <1>0, <3>3
  <2>5. PendingIsComplete'
    BY <2>4 DEF PendingIsComplete
  <2>6. \A q \in closing' : ProposalOK(q)'
    <3>1. SUFFICES ASSUME NEW q \in closing' PROVE ProposalOK(q)'
      OBVIOUS
    <3> QED
      BY <1>3, <2>2, <2>3
  <2> QED
    BY <1>1, <2>5, <2>6 DEF PlanIInv
<1>4. closing' = closing \/ closing' = Expired \cup {[id |-> id, state |-> "PENDING"]}
  BY DEF CloseProposal, id
<1> QED
  BY <1>2, <1>3, <1>4

(* ---- the tables -------------------------------------------------------- *)

LEMMA SetTask ==
  ASSUME PlanTyped, NEW d \in DOMAIN job, NEW f, FieldsOK(f)
  PROVE  /\ Set(d, f) \in Tasks /\ Set(d, f).node = job[d].node
         /\ "state" \notin DOMAIN f => Set(d, f).state = job[d].state
<1>1. job[d] \in Tasks
  BY DEF PlanTyped
<1> DEFINE Fields == {"node", "state", "task", "attempt", "why", "occ", "outcome", "saved", "called"}
           r == Set(d, f)
<1>2. DOMAIN job[d] = Fields
  BY <1>1 DEF Tasks
<1>3. r = [k \in Fields |-> IF k \in DOMAIN f THEN f[k] ELSE job[d][k]]
  BY <1>2 DEF Set
<1> HIDE DEF r
<1>4. r.node \in Nodes /\ r.called \in BOOLEAN /\ r.state \in Words /\ r.task \in Words
  BY <1>1, <1>3 DEF Tasks, FieldsOK
<1>5. r.attempt \in Words /\ r.why \in Words /\ r.occ \in Words
  BY <1>1, <1>3 DEF Tasks, FieldsOK
<1>6. r.outcome \in Words /\ r.saved \in Words
  BY <1>1, <1>3 DEF Tasks, FieldsOK
<1>7. r = [node |-> r.node, state |-> r.state, task |-> r.task, attempt |-> r.attempt, why |-> r.why,
           occ |-> r.occ, outcome |-> r.outcome, saved |-> r.saved, called |-> r.called]
  BY <1>3
<1>8. r \in Tasks
  BY <1>4, <1>5, <1>6, <1>7 DEF Tasks
<1> QED
  BY <1>3, <1>8 DEF r, FieldsOK

LEMMA Changed ==
  ASSUME PlanTyped, NEW d \in DOMAIN job, NEW f, Change(d, f), FieldsOK(f)
  PROVE  /\ job' \in Seq(Tasks) /\ DOMAIN job' = DOMAIN job
         /\ "state" \notin DOMAIN f => (NothingLive => NothingLive')
<1>1. job \in Seq(Tasks) /\ job' = [job EXCEPT ![d] = Set(d, f)]
  BY DEF Change, PlanTyped
<1>2. /\ Set(d, f) \in Tasks
      /\ "state" \notin DOMAIN f => Set(d, f).state = job[d].state
  BY SetTask
<1>3. job' \in Seq(Tasks) /\ DOMAIN job' = DOMAIN job
  BY <1>1, <1>2
<1>4. ASSUME "state" \notin DOMAIN f, NothingLive PROVE NothingLive'
  <2>1. \A e \in DOMAIN job : job'[e].state = job[e].state
    BY <1>1, <1>2, <1>4
  <2> QED
    BY <1>3, <1>4, <2>1 DEF NothingLive, Live
<1> QED
  BY <1>3, <1>4

(* Only the dispatches and the goal change, and the goal waits for nobody.   *)
LEMMA Moved ==
  ASSUME PlanIInv, job' \in Seq(Tasks), node' = node, plan' = plan, proof' = proof, gap' = gap,
         closing' = closing, sending' \in {0} \cup DOMAIN job',
         goal'.status \notin {"WAITING_APPROVAL", "COMPLETED"}
  PROVE  PlanIInv'
<1>1. PlanTyped' /\ CompleteDelivered'
  BY DEF PlanIInv, PlanTyped, CompleteDelivered
<1>2. Grows
  BY DEF PlanIInv, PlanTyped, Grows
<1> QED
  BY <1>1, <1>2, SameProposals, Elsewhere

(* Only the dispatches change, none of them coming alive.                    *)
LEMMA Worked ==
  ASSUME PlanIInv, job' \in Seq(Tasks), node' = node, plan' = plan, proof' = proof, gap' = gap,
         closing' = closing, sending' \in {0} \cup DOMAIN job', goal' = goal,
         goal.status = "COMPLETED" /\ NothingLive => NothingLive'
  PROVE  PlanIInv'
<1>1. PlanTyped'
  BY DEF PlanIInv, PlanTyped
<1>2. Grows
  BY DEF PlanIInv, PlanTyped, Grows
<1>3. \A p \in closing : UpToDate(p)' => UpToDate(p)
  BY DEF UpToDate
<1> QED
  BY <1>1, <1>2, <1>3, Unmoved

(* One step is put into another state, not into COMPLETED.                   *)
LEMMA Put ==
  ASSUME PlanTyped, CompleteDelivered, NEW n, NEW s \in Words, s # "COMPLETED" \/ s = node[n].state,
         node' = [node EXCEPT ![n].state = s]
  PROVE  /\ node' \in [Nodes -> Steps] /\ CompleteDelivered'
         /\ \A m \in Nodes : node[m].delivered => node'[m].delivered
<1>1. ASSUME NEW m \in Nodes
      PROVE  /\ node'[m] \in Steps /\ node'[m].delivered = node[m].delivered
             /\ node'[m].state = "COMPLETED" => node[m].state = "COMPLETED"
  <2>1. node[m] \in Steps
    BY DEF PlanTyped
  <2>2. CASE m = n
    <3>1. node'[m] = [node[m] EXCEPT !.state = s]
      BY <2>2 DEF PlanTyped
    <3> QED
      BY <2>1, <2>2, <3>1 DEF Steps
  <2>3. CASE m # n
    BY <2>1, <2>3 DEF PlanTyped
  <2> QED
    BY <2>2, <2>3
<1>2. node' \in [Nodes -> Steps]
  BY <1>1 DEF PlanTyped
<1> QED
  BY <1>1, <1>2 DEF CompleteDelivered

(* A step is put into another state and the goal waits for nobody.           *)
LEMMA Settled ==
  ASSUME PlanIInv, job' \in Seq(Tasks), DOMAIN job' = DOMAIN job, plan' = plan, proof' = proof, gap' = gap,
         closing' = closing \/ closing' = Expired, sending' = sending, NEW n, NEW s \in Words, s # "COMPLETED",
         node' = node \/ node' = [node EXCEPT ![n].state = s],
         goal'.status \notin {"WAITING_APPROVAL", "COMPLETED"}
  PROVE  PlanIInv'
<1>0. PlanTyped /\ CompleteDelivered
  BY DEF PlanIInv
<1>1. /\ node' \in [Nodes -> Steps] /\ CompleteDelivered'
      /\ \A m \in Nodes : node[m].delivered => node'[m].delivered
  <2>1. CASE node' = node
    BY <1>0, <2>1 DEF PlanTyped, CompleteDelivered
  <2>2. CASE node' # node
    BY <1>0, <2>2, Put
  <2> QED
    BY <2>1, <2>2
<1>2. PlanTyped'
  BY <1>0, <1>1 DEF PlanTyped
<1>3. Grows
  BY <1>0, <1>1 DEF PlanTyped, Grows
<1> QED
  BY <1>1, <1>2, <1>3, SameProposals, Elsewhere

LEMMA GoalIs ==
  ASSUME NEW s, GoalTo(s)
  PROVE  goal'.status = s
  BY DEF GoalTo

(* ---- the scheduler, the worker and the tick ---------------------------- *)

LEMMA DispatchOK ==
  ASSUME PlanIInv, NEW d \in DOMAIN job, Dispatch(d)
  PROVE  PlanIInv'
<1>0. PlanTyped /\ job[d] \in Tasks
  BY DEF PlanIInv, PlanTyped
<1> DEFINE f == [task |-> "QUEUED"]
<1>1. DOMAIN f = {"task"}
  OBVIOUS
<1>2. f.task \in Words
  BY <1>0 DEF Words
<1>3. Change(d, f)
  BY DEF Dispatch
<1> HIDE DEF f
<1>4. FieldsOK(f)
  BY <1>1, <1>2 DEF FieldsOK
<1>5. /\ job' \in Seq(Tasks) /\ DOMAIN job' = DOMAIN job
      /\ "state" \notin DOMAIN f => (NothingLive => NothingLive')
  BY <1>0, <1>3, <1>4, Changed
<1>6. sending' \in {0} \cup DOMAIN job'
  BY <1>5 DEF Dispatch
<1>7. goal'.status \notin {"WAITING_APPROVAL", "COMPLETED"}
  BY DEF Dispatch
<1> QED
  BY <1>5, <1>6, <1>7, Moved DEF Dispatch

LEMMA StartTaskOK ==
  ASSUME PlanIInv, NEW d \in DOMAIN job, StartTask(d)
  PROVE  PlanIInv'
<1>0. PlanTyped /\ job[d] \in Tasks
  BY DEF PlanIInv, PlanTyped
<1> DEFINE f == [task |-> "RUNNING", attempt |-> "RUNNING", why |-> "", saved |-> "empty", called |-> FALSE]
<1>1. DOMAIN f = {"task", "attempt", "why", "saved", "called"}
  OBVIOUS
<1>2. f.task \in Words /\ f.attempt \in Words /\ f.why \in Words /\ f.saved \in Words /\ f.called \in BOOLEAN
  BY <1>0 DEF Words
<1>3. Change(d, f)
  BY DEF StartTask, MayStart
<1> HIDE DEF f
<1>4. FieldsOK(f)
  BY <1>1, <1>2 DEF FieldsOK
<1>5. /\ job' \in Seq(Tasks) /\ DOMAIN job' = DOMAIN job
      /\ "state" \notin DOMAIN f => (NothingLive => NothingLive')
  BY <1>0, <1>3, <1>4, Changed
<1>6. sending' \in {0} \cup DOMAIN job'
  BY <1>0, <1>5 DEF StartTask, PlanTyped
<1>7. goal'.status \notin {"WAITING_APPROVAL", "COMPLETED"}
  BY DEF StartTask, MayStart
<1> QED
  BY <1>5, <1>6, <1>7, Moved DEF StartTask

LEMMA CompletesOK ==
  ASSUME PlanIInv, NEW d \in DOMAIN job, Completes(d)
  PROVE  PlanIInv'
<1>0. PlanTyped /\ job[d] \in Tasks
  BY DEF PlanIInv, PlanTyped
<1> DEFINE f == [task |-> "REPLIED", attempt |-> "ENDED", why |-> "completed"]
<1>1. DOMAIN f = {"task", "attempt", "why"}
  OBVIOUS
<1>2. f.task \in Words /\ f.attempt \in Words /\ f.why \in Words
  BY <1>0 DEF Words
<1>3. Change(d, f)
  BY DEF Completes
<1> HIDE DEF f
<1>4. FieldsOK(f)
  BY <1>1, <1>2 DEF FieldsOK
<1>5. /\ job' \in Seq(Tasks) /\ DOMAIN job' = DOMAIN job
      /\ "state" \notin DOMAIN f => (NothingLive => NothingLive')
  BY <1>0, <1>3, <1>4, Changed
<1>6. sending' \in {0} \cup DOMAIN job'
  BY <1>0, <1>5 DEF Completes, PlanTyped
<1> QED
  BY <1>1, <1>5, <1>6, Worked DEF Completes

LEMMA FailsOK ==
  ASSUME PlanIInv, NEW d \in DOMAIN job, NEW why \in {"steps", "limit", "ordinary", "other"}, Fails(d, why)
  PROVE  PlanIInv'
<1>0. PlanTyped /\ job[d] \in Tasks
  BY DEF PlanIInv, PlanTyped
<1> DEFINE f == [task |-> "BLOCKED", attempt |-> "ENDED", why |-> why]
<1>1. DOMAIN f = {"task", "attempt", "why"}
  OBVIOUS
<1>2. f.task \in Words /\ f.attempt \in Words /\ f.why \in Words
  BY <1>0 DEF Words
<1>3. Change(d, f)
  BY DEF Fails
<1> HIDE DEF f
<1>4. FieldsOK(f)
  BY <1>1, <1>2 DEF FieldsOK
<1>5. /\ job' \in Seq(Tasks) /\ DOMAIN job' = DOMAIN job
      /\ "state" \notin DOMAIN f => (NothingLive => NothingLive')
  BY <1>0, <1>3, <1>4, Changed
<1>6. sending' \in {0} \cup DOMAIN job'
  BY <1>0, <1>5 DEF Fails, PlanTyped
<1>7. goal' = goal \/ goal'.status = "BLOCKED"
  BY GoalIs DEF Fails
<1>8. CASE goal' = goal
  BY <1>1, <1>5, <1>6, <1>8, Worked DEF Fails
<1>9. CASE goal'.status = "BLOCKED"
  BY <1>5, <1>6, <1>9, Moved DEF Fails
<1> QED
  BY <1>7, <1>8, <1>9

LEMMA RefusedOK ==
  ASSUME PlanIInv, NEW d \in DOMAIN job, StartRefused(d), NEW w \in {"BUDGET", "BLOCKED"}, Change(d, [task |-> w])
  PROVE  PlanIInv'
<1>0. PlanTyped /\ job[d] \in Tasks
  BY DEF PlanIInv, PlanTyped
<1> DEFINE f == [task |-> w]
<1>1. DOMAIN f = {"task"}
  OBVIOUS
<1>2. f.task \in Words
  BY <1>0 DEF Words
<1>3. Change(d, f)
  OBVIOUS
<1> HIDE DEF f
<1>4. FieldsOK(f)
  BY <1>1, <1>2 DEF FieldsOK
<1>5. /\ job' \in Seq(Tasks) /\ DOMAIN job' = DOMAIN job
      /\ "state" \notin DOMAIN f => (NothingLive => NothingLive')
  BY <1>0, <1>3, <1>4, Changed
<1>6. sending' \in {0} \cup DOMAIN job'
  BY <1>0, <1>5 DEF StartRefused, PlanTyped
<1>7. goal'.status = "BLOCKED"
  BY GoalIs DEF StartRefused
<1> QED
  BY <1>5, <1>6, <1>7, Moved DEF StartRefused

LEMMA StartRefusedOK ==
  ASSUME PlanIInv, NEW d \in DOMAIN job, StartRefused(d)
  PROVE  PlanIInv'
<1>1. \E w \in {"BUDGET", "BLOCKED"} : Change(d, [task |-> w])
  BY DEF StartRefused
<1> QED
  BY <1>1, RefusedOK

LEMMA MoneyIsBackOK ==
  ASSUME PlanIInv, NEW d \in DOMAIN job, MoneyIsBack(d)
  PROVE  PlanIInv'
<1>0. PlanTyped /\ job[d] \in Tasks
  BY DEF PlanIInv, PlanTyped
<1> DEFINE f == [task |-> "QUEUED", state |-> "QUEUED"]
<1>1. DOMAIN f = {"task", "state"}
  OBVIOUS
<1>2. f.task \in Words /\ f.state \in Words
  BY <1>0 DEF Words
<1>3. Change(d, f)
  BY DEF MoneyIsBack
<1> HIDE DEF f
<1>4. FieldsOK(f)
  BY <1>1, <1>2 DEF FieldsOK
<1>5. /\ job' \in Seq(Tasks) /\ DOMAIN job' = DOMAIN job
      /\ "state" \notin DOMAIN f => (NothingLive => NothingLive')
  BY <1>0, <1>3, <1>4, Changed
<1>6. sending' \in {0} \cup DOMAIN job'
  BY <1>0, <1>5 DEF MoneyIsBack, PlanTyped
<1>7. goal'.status = "READY" \/ (goal' = goal /\ goal.status # "COMPLETED")
  BY GoalIs DEF MoneyIsBack, Closed
<1>8. CASE goal' = goal /\ goal.status # "COMPLETED"
  BY <1>5, <1>6, <1>8, Worked DEF MoneyIsBack
<1>9. CASE goal'.status = "READY"
  BY <1>5, <1>6, <1>9, Moved DEF MoneyIsBack
<1> QED
  BY <1>7, <1>8, <1>9

LEMMA ModelCallOK ==
  ASSUME PlanIInv, NEW d \in DOMAIN job, ModelCall(d)
  PROVE  PlanIInv'
<1>0. PlanTyped /\ job[d] \in Tasks
  BY DEF PlanIInv, PlanTyped
<1> DEFINE f == [called |-> TRUE]
<1>1. DOMAIN f = {"called"}
  OBVIOUS
<1>2. f.called \in BOOLEAN
  BY <1>0 DEF Words
<1>3. Change(d, f)
  BY DEF ModelCall
<1> HIDE DEF f
<1>4. FieldsOK(f)
  BY <1>1, <1>2 DEF FieldsOK
<1>5. /\ job' \in Seq(Tasks) /\ DOMAIN job' = DOMAIN job
      /\ "state" \notin DOMAIN f => (NothingLive => NothingLive')
  BY <1>0, <1>3, <1>4, Changed
<1>6. sending' \in {0} \cup DOMAIN job'
  BY <1>0, <1>5 DEF ModelCall, PlanTyped
<1>7. PICK n \in Nodes : gap' = [gap EXCEPT ![n].tries = Append(@, "open"), ![n].root = "OPEN"]
  BY <1>0 DEF ModelCall, Tasks
<1>8. gap' \in [Nodes -> Gaps] /\ gap'[n].root = "OPEN"
  <2>1. gap[n] \in Gaps /\ gap \in [Nodes -> Gaps]
    BY <1>0 DEF PlanTyped
  <2>0. "open" \in Words /\ "OPEN" \in Words
    BY DEF Words
  <2>2. Append(gap[n].tries, "open") \in Seq(Words)
    BY <2>0, <2>1 DEF Gaps
  <2> DEFINE g == [gap[n] EXCEPT !.tries = Append(@, "open"), !.root = "OPEN"]
  <2>3. gap' = [gap EXCEPT ![n] = g]
    BY <1>7, <2>1
  <2>4. g \in Gaps /\ g.root = "OPEN"
    BY <2>0, <2>1, <2>2 DEF Gaps
  <2> QED
    BY <2>1, <2>3, <2>4
<1>9. PlanTyped'
  BY <1>0, <1>5, <1>6, <1>8 DEF ModelCall, PlanTyped
<1>10. Grows
  BY <1>0 DEF ModelCall, PlanTyped, Grows
<1>11. OpenGaps(gap') # {}
  BY <1>8 DEF OpenGaps
<1>12. ASSUME NEW p \in closing PROVE ~UpToDate(p)'
  <2>1. p.id.kind = "full" => p.id.gaps = {}
    BY DEF PlanIInv, ProposalOK
  <2> QED
    BY <1>11, <2>1 DEF UpToDate
<1>13. node' = node /\ goal' = goal /\ closing' = closing
  BY DEF ModelCall
<1> QED
  BY <1>1, <1>5, <1>9, <1>10, <1>12, <1>13, Unmoved

LEMMA SavesOK ==
  ASSUME PlanIInv, NEW d \in DOMAIN job, NEW result \in Results, Saves(d, result)
  PROVE  PlanIInv'
<1>0. PlanTyped /\ job[d] \in Tasks
  BY DEF PlanIInv, PlanTyped
<1> DEFINE f == [saved |-> result]
<1>1. DOMAIN f = {"saved"}
  OBVIOUS
<1>2. f.saved \in Words
  BY <1>0 DEF Words, Results
<1>3. Change(d, f)
  BY DEF Saves
<1> HIDE DEF f
<1>4. FieldsOK(f)
  BY <1>1, <1>2 DEF FieldsOK
<1>5. /\ job' \in Seq(Tasks) /\ DOMAIN job' = DOMAIN job
      /\ "state" \notin DOMAIN f => (NothingLive => NothingLive')
  BY <1>0, <1>3, <1>4, Changed
<1>6. sending' \in {0} \cup DOMAIN job'
  BY <1>0, <1>5 DEF Saves, PlanTyped
<1>7. proof.files \in Nat /\ proof' = [files |-> proof.files + 1, reports |-> proof.reports]
  BY <1>0 DEF Saves, PlanTyped
<1>8. PlanTyped'
  BY <1>0, <1>5, <1>6, <1>7 DEF Saves, PlanTyped
<1>9. Grows
  BY <1>0, <1>7 DEF Saves, PlanTyped, Grows
<1>10. ASSUME NEW p \in closing PROVE ~UpToDate(p)'
  <2>1. p.id.proof.files <= proof.files /\ p.id.proof.files \in Nat
    BY DEF PlanIInv, ProposalOK
  <2> QED
    BY <1>7, <2>1 DEF UpToDate
<1>11. node' = node /\ goal' = goal /\ closing' = closing
  BY DEF Saves
<1> QED
  BY <1>1, <1>5, <1>8, <1>9, <1>10, <1>11, Unmoved

LEMMA ClaimOK ==
  ASSUME PlanIInv, NEW n \in Nodes, Claim(n)
  PROVE  PlanIInv'
<1>0. PlanTyped /\ CompleteDelivered
  BY DEF PlanIInv
<1> DEFINE t == [node |-> n, state |-> "QUEUED", task |-> "none", attempt |-> "none", why |-> "",
                 occ |-> "RUNNING", outcome |-> "none", saved |-> "empty", called |-> FALSE]
<1>1. t \in Tasks
  BY DEF Tasks, Words
<1>2. job' = Append(job, t) /\ job \in Seq(Tasks)
  BY <1>0 DEF Claim, PlanTyped
<1> HIDE DEF t
<1>10. job' \in Seq(Tasks)
  BY <1>1, <1>2
<1>11. sending = 0 /\ sending' = sending /\ proof' = proof /\ plan' = plan /\ gap' = gap
  BY DEF Claim
<1>3. sending' \in {0} \cup DOMAIN job'
  BY <1>11
<1>4. "RUNNING" \in Words
  BY DEF Words
<1>5. node' = [node EXCEPT ![n].state = "RUNNING"]
  BY DEF Claim
<1>6. /\ node' \in [Nodes -> Steps] /\ CompleteDelivered'
      /\ \A m \in Nodes : node[m].delivered => node'[m].delivered
  BY <1>0, <1>4, <1>5, Put
<1>7. PlanTyped'
  BY <1>0, <1>3, <1>6, <1>10, <1>11 DEF PlanTyped
<1>8. Grows
  BY <1>0, <1>6, <1>11 DEF PlanTyped, Grows
<1>9. closing' = closing /\ goal'.status = "READY"
  BY DEF Claim
<1> QED
  BY <1>6, <1>7, <1>8, <1>9, SameProposals, Elsewhere

LEMMA DispatchedOK ==
  ASSUME PlanIInv, Dispatched
  PROVE  PlanIInv'
<1>0. PlanTyped
  BY DEF PlanIInv
<1>1. CASE goal.status \in {"READY", "RUNNING"}
  <2> DEFINE f == [state |-> "RUNNING"]
  <2>0. sending \in DOMAIN job
    BY <1>0 DEF Dispatched, PlanTyped
  <2>1. Change(sending, f) /\ goal'.status = "RUNNING"
    BY <1>1, GoalIs DEF Dispatched
  <2>2. DOMAIN f = {"state"} /\ f.state \in Words
    BY DEF Words
  <2> HIDE DEF f
  <2>3. FieldsOK(f)
    BY <2>2 DEF FieldsOK
  <2>4. job' \in Seq(Tasks)
    BY <1>0, <2>0, <2>1, <2>3, Changed
  <2> QED
    BY <2>1, <2>4, Moved DEF Dispatched
<1>2. CASE goal.status \notin {"READY", "RUNNING"}
  <2>1. job' = job /\ goal' = goal /\ sending' = 0
    BY <1>2 DEF Dispatched
  <2>2. job' \in Seq(Tasks) /\ (NothingLive => NothingLive')
    BY <1>0, <2>1 DEF PlanTyped, NothingLive, Live
  <2> QED
    BY <2>1, <2>2, Worked DEF Dispatched
<1> QED
  BY <1>1, <1>2

LEMMA IdleOK ==
  ASSUME PlanIInv, ControllerDies \/ WindowEnds
  PROVE  PlanIInv'
<1>1. job' = job /\ sending' \in {0, sending}
  BY DEF ControllerDies, WindowEnds
<1>2. job' \in Seq(Tasks) /\ sending' \in {0} \cup DOMAIN job' /\ (NothingLive => NothingLive')
  BY <1>1 DEF PlanIInv, PlanTyped, NothingLive, Live
<1> QED
  BY <1>1, <1>2, Worked DEF ControllerDies, WindowEnds

LEMMA Refielded ==
  ASSUME PlanTyped, NEW d, NEW s \in Words, NEW o \in Words, NEW u \in Words
  PROVE  LET one == [job EXCEPT ![d].state = s]
             two == [job EXCEPT ![d].state = s, ![d].occ = o]
             three == [job EXCEPT ![d].state = s, ![d].outcome = u, ![d].occ = o]
         IN {one, two, three} \subseteq {jb \in Seq(Tasks) : DOMAIN jb = DOMAIN job}
<1>1. job \in Seq(Tasks)
  BY DEF PlanTyped
<1>2. CASE d \in DOMAIN job
  <2>1. job[d] \in Tasks
    BY <1>1, <1>2
  <2>2. /\ [job[d] EXCEPT !.state = s] \in Tasks
        /\ [job[d] EXCEPT !.state = s, !.occ = o] \in Tasks
        /\ [job[d] EXCEPT !.state = s, !.outcome = u, !.occ = o] \in Tasks
    BY <2>1 DEF Tasks
  <2>3. \A t \in Tasks : [job EXCEPT ![d] = t] \in Seq(Tasks) /\ DOMAIN [job EXCEPT ![d] = t] = DOMAIN job
    BY <1>1, <1>2
  <2>4. /\ [job EXCEPT ![d].state = s] = [job EXCEPT ![d] = [job[d] EXCEPT !.state = s]]
        /\ [job EXCEPT ![d].state = s, ![d].occ = o] = [job EXCEPT ![d] = [job[d] EXCEPT !.state = s, !.occ = o]]
    BY <1>1, <1>2
  <2>5. [job EXCEPT ![d].state = s, ![d].outcome = u, ![d].occ = o]
          = [job EXCEPT ![d] = [job[d] EXCEPT !.state = s, !.outcome = u, !.occ = o]]
    BY <1>1, <1>2
  <2> QED
    BY <2>2, <2>3, <2>4, <2>5
<1>3. CASE d \notin DOMAIN job
  <2>1. job = [e \in DOMAIN job |-> job[e]]
    BY <1>1
  <2>2. [job EXCEPT ![d].state = s] = job /\ [job EXCEPT ![d].state = s, ![d].occ = o] = job
    BY <1>3, <2>1
  <2>3. [job EXCEPT ![d].state = s, ![d].outcome = u, ![d].occ = o] = job
    BY <1>3, <2>1
  <2> QED
    BY <1>1, <2>2, <2>3
<1> QED
  BY <1>2, <1>3

LEMMA FinishedOK ==
  ASSUME PlanTyped, NEW n, job' = Finished(n)
  PROVE  job' \in Seq(Tasks) /\ DOMAIN job' = DOMAIN job
<1>1. "FINISHED" \in Words
  BY DEF Words
<1>2. job' = job \/ job' = [job EXCEPT ![LatestOf(n)].state = "FINISHED"]
  BY DEF Finished
<1>3. CASE job' = job
  BY <1>3 DEF PlanTyped
<1>4. CASE job' = [job EXCEPT ![LatestOf(n)].state = "FINISHED"]
  <2>1. [job EXCEPT ![LatestOf(n)].state = "FINISHED"] \in {jb \in Seq(Tasks) : DOMAIN jb = DOMAIN job}
    BY <1>1, Refielded
  <2> QED
    BY <1>4, <2>1
<1> QED
  BY <1>2, <1>3, <1>4

LEMMA OtherOccurrence ==
  ASSUME NEW o, NEW r \in [state : Words, occ : Words]
  PROVE  [r EXCEPT !.occ = o] = [state |-> r.state, occ |-> o]
  OBVIOUS

LEMMA TaskTyped ==
  ASSUME PlanTyped, NEW d \in DOMAIN job
  PROVE  job[d] \in Tasks
  BY DEF PlanTyped

LEMMA BlocksOK ==
  ASSUME PlanIInv, NEW d \in DOMAIN job, Blocks(d, [state |-> "FINISHED", occ |-> ""]),
         plan' = plan, proof' = proof, gap' = gap, closing' = closing, sending' = sending
  PROVE  PlanIInv'
<1>10. PlanTyped
  BY DEF PlanIInv
<1>0. PlanTyped /\ job[d] \in Tasks
  BY <1>10, TaskTyped
<1> DEFINE r == [state |-> "FINISHED", occ |-> ""]
<1>11. r \in [state : Words, occ : Words] /\ r.state = "FINISHED"
  BY DEF Words
<1> DEFINE o == IF job[d].occ = "RUNNING" THEN "BLOCKED" ELSE job[d].occ
           f == [state |-> "FINISHED", occ |-> o]
<1>1. [[state |-> "FINISHED", occ |-> ""] EXCEPT !.occ = o] = f
  BY <1>11, OtherOccurrence
<1>2. job' = [job EXCEPT ![d] = Set(d, [[state |-> "FINISHED", occ |-> ""] EXCEPT !.occ = o])]
  BY DEF Blocks
<1>3. Change(d, f)
  BY <1>1, <1>2 DEF Change
<1>4. node' = node \/ node' = [node EXCEPT ![job[d].node].state = "BLOCKED"]
  BY DEF Blocks
<1>5. goal'.status \in {"READY", "BLOCKED"}
  <2>1. PICK s \in {"READY", "BLOCKED"} : GoalTo(s)
    BY DEF Blocks
  <2> QED
    BY <2>1, GoalIs
<1>6. f.state \in Words /\ f.occ \in Words /\ "BLOCKED" \in Words
  BY <1>0 DEF Words, Tasks
<1>7. DOMAIN f = {"state", "occ"}
  OBVIOUS
<1> HIDE DEF f
<1>8. FieldsOK(f)
  BY <1>6, <1>7 DEF FieldsOK
<1>9. job' \in Seq(Tasks) /\ DOMAIN job' = DOMAIN job
  BY <1>0, <1>3, <1>8, Changed
<1> QED
  BY <1>4, <1>5, <1>6, <1>9, Settled

LEMMA FailuresOK ==
  ASSUME PlanIInv, NEW d \in DOMAIN job, DispatchFails(d) \/ CollectFailed(d)
  PROVE  PlanIInv'
  BY BlocksOK DEF DispatchFails, CollectFailed

LEMMA CollectRunningOK ==
  ASSUME PlanIInv, NEW d \in DOMAIN job, CollectRunning(d)
  PROVE  PlanIInv'
<1>1. job' = job /\ sending' = sending /\ goal'.status = "RUNNING"
  BY GoalIs DEF CollectRunning
<1>2. job' \in Seq(Tasks) /\ sending' \in {0} \cup DOMAIN job'
  BY <1>1 DEF PlanIInv, PlanTyped
<1> QED
  BY <1>1, <1>2, Moved DEF CollectRunning

LEMMA CollectUnstartedOK ==
  ASSUME PlanIInv, NEW d \in DOMAIN job, CollectUnstarted(d)
  PROVE  PlanIInv'
<1>0. PlanTyped /\ job[d] \in Tasks
  BY DEF PlanIInv, PlanTyped
<1> DEFINE o == IF job[d].occ = "RUNNING" /\ job[d].task # "BUDGET" THEN "BLOCKED" ELSE job[d].occ
<1>1. o \in Words /\ "FINISHED" \in Words /\ "BLOCKED" \in Words
  BY <1>0 DEF Words, Tasks
<1>2. job' = [job EXCEPT ![d].state = "FINISHED", ![d].occ = o]
  <2>1. [job EXCEPT ![d].state = "FINISHED"][d].occ = job[d].occ
    BY <1>0 DEF PlanTyped, Tasks
  <2> QED
    BY <2>1 DEF CollectUnstarted
<1>3. job' \in Seq(Tasks) /\ DOMAIN job' = DOMAIN job
  BY <1>0, <1>1, <1>2, Refielded
<1>4. node' = node \/ node' = [node EXCEPT ![job[d].node].state = "BLOCKED"]
  BY DEF CollectUnstarted
<1>5. goal'.status \in {"READY", "BLOCKED"}
  BY DEF CollectUnstarted
<1> QED
  BY <1>1, <1>3, <1>4, <1>5, Settled DEF CollectUnstarted

LEMMA StopTaskOK ==
  ASSUME PlanIInv, NEW d \in DOMAIN job, StopTask(d)
  PROVE  PlanIInv'
<1>0. PlanTyped /\ job[d] \in Tasks
  BY DEF PlanIInv, PlanTyped
<1> DEFINE f == [state |-> "FINISHED", task |-> "STOPPED",
                 occ |-> IF job[d].occ = "RUNNING" THEN "CANCELLED" ELSE job[d].occ,
                 attempt |-> IF Running(d) THEN "ENDED" ELSE job[d].attempt,
                 why |-> IF Running(d) THEN "other" ELSE job[d].why]
<1>1. Change(d, f)
  BY DEF StopTask, Change
<1>2. /\ f.state \in Words /\ f.task \in Words /\ "BLOCKED" \in Words
      /\ f.occ \in Words /\ f.attempt \in Words /\ f.why \in Words
  BY <1>0 DEF Words, Tasks
<1>3. DOMAIN f = {"state", "task", "occ", "attempt", "why"}
  OBVIOUS
<1> HIDE DEF f
<1>4. FieldsOK(f)
  BY <1>2, <1>3 DEF FieldsOK
<1>5. job' \in Seq(Tasks) /\ DOMAIN job' = DOMAIN job
  BY <1>0, <1>1, <1>4, Changed
<1>6. node' = node \/ node' = [node EXCEPT ![job[d].node].state = "BLOCKED"]
  BY DEF StopTask
<1>7. goal'.status \in {"PAUSED", "READY", "BLOCKED"}
  <2>1. PICK s \in {"PAUSED", "READY", "BLOCKED"} : GoalTo(s)
    BY DEF StopTask
  <2> QED
    BY <2>1, GoalIs
<1>8. plan' = plan /\ proof' = proof /\ gap' = gap /\ closing' = closing /\ sending' = sending
  BY DEF StopTask
<1> QED
  BY <1>2, <1>5, <1>6, <1>7, <1>8, Settled

LEMMA QueueRetryOK ==
  ASSUME PlanIInv, NEW d \in DOMAIN job, QueueRetry(d)
  PROVE  PlanIInv'
<1>0. PlanTyped /\ job[d] \in Tasks
  BY DEF PlanIInv, PlanTyped
<1> DEFINE f == [task |-> "QUEUED", state |-> "QUEUED",
                 occ |-> IF job[d].occ \in {"CANCELLED", "BLOCKED", "NO_PROGRESS"} THEN "RUNNING" ELSE job[d].occ]
<1>1. Change(d, f)
  BY DEF QueueRetry
<1>2. f.task \in Words /\ f.state \in Words /\ f.occ \in Words /\ "WAITING" \in Words
  BY <1>0 DEF Words, Tasks
<1>3. DOMAIN f = {"task", "state", "occ"}
  OBVIOUS
<1> HIDE DEF f
<1>4. FieldsOK(f)
  BY <1>2, <1>3 DEF FieldsOK
<1>5. job' \in Seq(Tasks) /\ DOMAIN job' = DOMAIN job
  BY <1>0, <1>1, <1>4, Changed
<1>6. node' = node \/ node' = [node EXCEPT ![job[d].node].state = "WAITING"]
  BY DEF QueueRetry
<1>7. goal'.status = "READY"
  BY GoalIs DEF QueueRetry
<1>8. plan' = plan /\ proof' = proof /\ gap' = gap /\ closing' = closing /\ sending' = sending
  BY DEF QueueRetry
<1> QED
  BY <1>2, <1>5, <1>6, <1>7, <1>8, Settled

LEMMA RetriesOK ==
  ASSUME PlanIInv, NEW d \in DOMAIN job, RetryTask(d) \/ ReworkTask(d)
  PROVE  PlanIInv'
  BY QueueRetryOK DEF RetryTask, ReworkTask

LEMMA CollectClosedOK ==
  ASSUME PlanIInv, NEW d \in DOMAIN job, CollectClosed(d)
  PROVE  PlanIInv'
<1>0. PlanTyped /\ job[d] \in Tasks
  BY DEF PlanIInv, PlanTyped
<1> DEFINE f == [state |-> "CANCELLED",
                 occ |-> IF job[d].occ = "RUNNING" THEN "CANCELLED" ELSE job[d].occ,
                 attempt |-> IF Running(d) THEN "ENDED" ELSE job[d].attempt,
                 task |-> IF Running(d) THEN "BLOCKED" ELSE job[d].task,
                 why |-> IF Running(d) THEN "other" ELSE job[d].why]
<1>1. Change(d, f)
  BY DEF CollectClosed
<1>2. /\ f.state \in Words /\ f.task \in Words /\ "BLOCKED" \in Words
      /\ f.occ \in Words /\ f.attempt \in Words /\ f.why \in Words
  BY <1>0 DEF Words, Tasks
<1>3. DOMAIN f = {"state", "occ", "attempt", "task", "why"}
  OBVIOUS
<1> HIDE DEF f
<1>4. FieldsOK(f)
  BY <1>2, <1>3 DEF FieldsOK
<1>5. job' \in Seq(Tasks) /\ DOMAIN job' = DOMAIN job
  BY <1>0, <1>1, <1>4, Changed
<1> DEFINE n == job[d].node
           s == IF job[d].occ = "RUNNING" /\ node[n].state = "RUNNING" THEN "BLOCKED" ELSE node[n].state
<1>6. n \in Nodes /\ node' = [node EXCEPT ![n].state = s]
  BY <1>0 DEF CollectClosed, Tasks
<1>7. s \in Words /\ (s = "BLOCKED" \/ s = node[n].state)
  BY <1>0, <1>2, <1>6 DEF PlanTyped, Steps
<1>8. goal' = goal /\ goal.status # "COMPLETED" /\ goal.status # "WAITING_APPROVAL"
  <2>1. goal.status # "COMPLETED"
    BY DEF CollectClosed, PlanIInv, FullMeansDelivered, NothingLive
  <2> QED
    BY <2>1 DEF CollectClosed, Closed
<1> HIDE DEF s
<1>9. CASE s = "BLOCKED"
  BY <1>2, <1>5, <1>6, <1>8, <1>9, Settled DEF CollectClosed
<1>10. CASE s = node[n].state
  <2>1. node' = node
    BY <1>0, <1>6, <1>10 DEF PlanTyped, Steps
  <2> QED
    BY <1>2, <1>5, <1>8, <2>1, Settled DEF CollectClosed
<1> QED
  BY <1>7, <1>9, <1>10

LEMMA ContinueNodeOK ==
  ASSUME PlanIInv, NEW n \in Nodes, ContinueNode(n)
  PROVE  PlanIInv'
<1>0. PlanTyped
  BY DEF PlanIInv
<1>1. job' = Finished(n) /\ "WAITING" \in Words
  BY DEF ContinueNode, Words
<1>3. job' \in Seq(Tasks) /\ DOMAIN job' = DOMAIN job
  BY <1>0, <1>1, FinishedOK
<1>4. goal'.status \in {"PAUSED", "READY"}
  BY GoalIs DEF ContinueNode
<1>5. /\ node' = [node EXCEPT ![n].state = "WAITING"] /\ closing' = Expired
      /\ plan' = plan /\ proof' = proof /\ gap' = gap /\ sending' = sending
  BY DEF ContinueNode
<1> QED
  BY <1>1, <1>3, <1>4, <1>5, Settled

LEMMA SkipNodeOK ==
  ASSUME PlanIInv, NEW n \in Nodes, SkipNode(n)
  PROVE  PlanIInv'
<1>0. PlanTyped /\ CompleteDelivered
  BY DEF PlanIInv
<1>1. job' = Finished(n) /\ "SKIPPED" \in Words
  BY DEF SkipNode, Words
<1>3. job' \in Seq(Tasks) /\ DOMAIN job' = DOMAIN job
  BY <1>0, <1>1, FinishedOK
<1>4. /\ node' = [node EXCEPT ![n].state = "SKIPPED"]
      /\ plan' = plan /\ proof' = proof /\ gap' = gap /\ sending' = sending
  BY DEF SkipNode
<1>5. \/ closing' = closing /\ goal'.status \in {"PAUSED", "READY"}
      \/ closing' = CloseProposal(node', job', gap', proof', "WAITING_APPROVAL") /\ goal'.status = "WAITING_APPROVAL"
  <2>1. CASE goal.status = "PAUSED"
    BY <2>1 DEF SkipNode
  <2>2. CASE goal.status # "PAUSED"
    <3> DEFINE ends == ~HasProgress(node', job', {})
    <3>1. /\ GoalTo(IF ends THEN "WAITING_APPROVAL" ELSE "READY")
          /\ closing' = IF ends THEN CloseProposal(node', job', gap', proof', "WAITING_APPROVAL") ELSE closing
      BY <1>4, <2>2 DEF SkipNode
    <3> QED
      BY <3>1, GoalIs
  <2> QED
    BY <2>1, <2>2
<1>6. CASE closing' = closing /\ goal'.status \in {"PAUSED", "READY"}
  BY <1>1, <1>3, <1>4, <1>6, Settled
<1>7. CASE /\ closing' = CloseProposal(node', job', gap', proof', "WAITING_APPROVAL")
           /\ goal'.status = "WAITING_APPROVAL"
  <2>1. /\ node' \in [Nodes -> Steps] /\ CompleteDelivered'
        /\ \A m \in Nodes : node[m].delivered => node'[m].delivered
    BY <1>0, <1>1, <1>4, Put
  <2>2. PlanTyped'
    BY <1>0, <1>3, <1>4, <2>1 DEF PlanTyped
  <2>3. Grows
    BY <1>0, <1>4, <2>1 DEF PlanTyped, Grows
  <2> QED
    BY <1>4, <1>7, <2>1, <2>2, <2>3, Closes
<1> QED
  BY <1>5, <1>6, <1>7

(* ---- the result -------------------------------------------------------- *)

LEMMA Judges ==
  ASSUME PlanTyped, NEW d \in DOMAIN job, NEW again
  PROVE  /\ Judged(d, again).state \in {"COMPLETED", "PARTIAL", "DEFERRED", "BLOCKED", "RETRY"}
         /\ Judged(d, again).gap \in Gaps
<1> DEFINE n == job[d].node
           tries == gap[n].tries
           policy == n \in Checked
           now == IF tries = <<>> THEN tries ELSE [tries EXCEPT ![Len(tries)] = job[d].saved]
           givesUp == IF policy THEN "DEFERRED" ELSE "BLOCKED"
           met == job[d].saved # "empty" /\ (policy => job[d].saved = "full")
           almost == policy /\ job[d].saved = "part"
           checked == CASE met -> "COMPLETED"
                        [] almost -> "PARTIAL"
                        [] ~met /\ ~almost /\ Exhausted(n) -> givesUp
                        [] OTHER -> IF policy /\ again THEN "DEFERRED" ELSE "RETRY"
           root == CASE checked = "COMPLETED" -> "RESOLVED"
                     [] checked = "DEFERRED" -> "DEFERRED"
                     [] OTHER -> "OPEN"
           facts == IF ~policy THEN gap[n].facts ELSE IF met THEN "RESOLVED" ELSE "OPEN"
<1>1. job[d] \in Tasks
  BY TaskTyped
<1>2. n \in Nodes /\ job[d].saved \in Words
  BY <1>1 DEF Tasks
<1>3. gap[n] \in Gaps
  BY <1>2 DEF PlanTyped
<1>4. tries \in Seq(Words) /\ gap[n].facts \in Words
  BY <1>3 DEF Gaps
<1>5. now \in Seq(Words)
  BY <1>2, <1>4
<1>6. checked \in {"COMPLETED", "PARTIAL", "DEFERRED", "BLOCKED", "RETRY"}
  <2> HIDE DEF met, almost, policy
  <2> QED
    OBVIOUS
<1>7. Judged(d, again).state = IF checked = "RETRY" /\ job[d].why = "limit" THEN givesUp ELSE checked
  BY DEF Judged
<1>8. Judged(d, again).gap = [gap[n] EXCEPT !.tries = now, !.root = root, !.facts = facts]
  BY <1>3 DEF Judged, Gaps
<1> HIDE DEF checked
<1>9. root \in Words /\ facts \in Words
  BY <1>4 DEF Words
<1> HIDE DEF now, root, facts, n
<1>10. [gap[n] EXCEPT !.tries = now, !.root = root, !.facts = facts] \in Gaps
  BY <1>3, <1>5, <1>9 DEF Gaps
<1> QED
  BY <1>6, <1>7, <1>8, <1>10

LEMMA Reported ==
  ASSUME PlanTyped, NEW d \in DOMAIN job, NEW again, CollectResult(d, again)
  PROVE  /\ proof' \in [files : Nat, reports : SUBSET Nat] /\ proof'.files = proof.files
         /\ plan' = plan /\ sending' = sending
<1>1. d \in Nat
  BY DEF PlanTyped
<1>2. /\ proof' = [proof EXCEPT !.reports = IF job[d].why = "completed" THEN @ \cup {d} ELSE @]
      /\ plan' = plan /\ sending' = sending
  BY DEF CollectResult
<1>3. proof \in [files : Nat, reports : SUBSET Nat]
  BY DEF PlanTyped
<1> QED
  BY <1>1, <1>2, <1>3

\* The step's result is that of the occurrence at work.
LEMMA CollectHeldOK ==
  ASSUME PlanIInv, NEW d \in DOMAIN job, NEW again, CollectResult(d, again), job[d].occ = "RUNNING"
  PROVE  PlanIInv'
<1> DEFINE n == job[d].node
           v == Judged(d, again)
           s == IF v.state = "RETRY" THEN "WAITING" ELSE v.state
           o == IF v.state = "RETRY" THEN "NO_PROGRESS" ELSE v.state
<1>0. PlanTyped /\ CompleteDelivered
  BY DEF PlanIInv
<1>1. v.state \in {"COMPLETED", "PARTIAL", "DEFERRED", "BLOCKED", "RETRY"} /\ v.gap \in Gaps
  BY <1>0, Judges
<1>2. job[d] \in Tasks
  BY <1>0, TaskTyped
<1>3. n \in Nodes
  BY <1>2 DEF Tasks
<1>4. /\ proof' \in [files : Nat, reports : SUBSET Nat] /\ proof'.files = proof.files
      /\ plan' = plan /\ sending' = sending
  BY <1>0, Reported
<1>5. job' = [job EXCEPT ![d].state = "FINISHED", ![d].outcome = v.state, ![d].occ = o]
  BY DEF CollectResult
<1>6. node' = [node EXCEPT ![n].state = s, ![n].delivered = @ \/ v.state = "COMPLETED"]
  BY DEF CollectResult
<1>7. gap' = [gap EXCEPT ![n] = v.gap]
  BY DEF CollectResult
<1>8. \E st \in {"WAITING_APPROVAL", "BLOCKED", "READY"} :
        /\ GoalTo(st)
        /\ closing' = IF st = "WAITING_APPROVAL" THEN CloseProposal(node', job', gap', proof', st) ELSE closing
  BY DEF CollectResult
<1> HIDE DEF v
<1>9. "FINISHED" \in Words /\ v.state \in Words /\ o \in Words /\ s \in Words
  BY <1>1 DEF Words
<1> HIDE DEF o
<1>10. job' \in Seq(Tasks) /\ DOMAIN job' = DOMAIN job
  BY <1>0, <1>5, <1>9, Refielded
<1>11. gap' \in [Nodes -> Gaps]
  BY <1>0, <1>1, <1>7 DEF PlanTyped
<1>12. /\ node' \in [Nodes -> Steps]
       /\ \A m \in Nodes : /\ node[m].delivered => node'[m].delivered
                           /\ node'[m].state = "COMPLETED" => node'[m].delivered
  <2>1. node \in [Nodes -> Steps] /\ node[n] \in Steps
    BY <1>0, <1>3 DEF PlanTyped
  <2> DEFINE r == [state |-> s, delivered |-> node[n].delivered \/ v.state = "COMPLETED"]
  <2> DEFINE b == v.state = "COMPLETED"
             one == [node[n] EXCEPT !.state = s]
             two == [one EXCEPT !.delivered = one.delivered \/ b]
  <2>5. one = [state |-> s, delivered |-> node[n].delivered]
    BY <2>1 DEF Steps
  <2>6. one.delivered = node[n].delivered
    BY <2>5
  <2>7. two = r
    <3> DEFINE c == node[n].delivered \/ b
    <3>1. two = [one EXCEPT !.delivered = c]
      BY <2>6
    <3> HIDE DEF c, one
    <3>2. [one EXCEPT !.delivered = c] = [state |-> s, delivered |-> c]
      BY <2>5
    <3>3. r = [state |-> s, delivered |-> c]
      BY DEF c
    <3> QED
      BY <3>1, <3>2, <3>3
  <2>8. node' = [node EXCEPT ![n] = two]
    BY <1>3, <1>6, <2>1
  <2>2. node' = [node EXCEPT ![n] = r]
    BY <2>7, <2>8
  <2>3. r \in Steps /\ (node[n].delivered => r.delivered) /\ (r.state = "COMPLETED" => r.delivered)
    BY <1>9, <2>1 DEF Steps
  <2> HIDE DEF r
  <2>4. node' \in [Nodes -> Steps] /\ node'[n] = r /\ \A m \in Nodes \ {n} : node'[m] = node[m]
    BY <1>3, <2>1, <2>2, <2>3
  <2> QED
    BY <1>0, <2>3, <2>4 DEF CompleteDelivered
<1>13. PlanTyped' /\ CompleteDelivered'
  BY <1>0, <1>4, <1>10, <1>11, <1>12 DEF PlanTyped, CompleteDelivered
<1>14. Grows
  BY <1>0, <1>4, <1>12 DEF PlanTyped, Grows
<1>15. PICK st \in {"WAITING_APPROVAL", "BLOCKED", "READY"} :
         /\ goal'.status = st
         /\ closing' = IF st = "WAITING_APPROVAL" THEN CloseProposal(node', job', gap', proof', st) ELSE closing
  BY <1>8, GoalIs
<1>16. CASE st = "WAITING_APPROVAL"
  <2>1. closing' = CloseProposal(node', job', gap', proof', st)
    BY <1>15, <1>16
  <2> QED
    BY <1>4, <1>13, <1>14, <1>15, <1>16, <2>1, Closes
<1>17. CASE st # "WAITING_APPROVAL"
  BY <1>13, <1>14, <1>15, <1>17, SameProposals, Elsewhere
<1> QED
  BY <1>16, <1>17

\* The occurrence has ended before: the goal alone is told.
LEMMA CollectLateOK ==
  ASSUME PlanIInv, NEW d \in DOMAIN job, NEW again, CollectResult(d, again), job[d].occ # "RUNNING"
  PROVE  PlanIInv'
<1>0. PlanTyped /\ CompleteDelivered
  BY DEF PlanIInv
<1>1. /\ proof' \in [files : Nat, reports : SUBSET Nat] /\ proof'.files = proof.files
      /\ plan' = plan /\ sending' = sending
  BY <1>0, Reported
<1>2. job' = [job EXCEPT ![d].state = "FINISHED"] /\ node' = node /\ gap' = gap
  BY DEF CollectResult
<1>3. \E st \in {"WAITING_APPROVAL", "BLOCKED"} :
        /\ GoalTo(st)
        /\ closing' = IF st = "WAITING_APPROVAL" THEN CloseProposal(node', job', gap', proof', st) ELSE closing
  BY <1>2 DEF CollectResult
<1>4. "FINISHED" \in Words
  BY DEF Words
<1>5. job' \in Seq(Tasks) /\ DOMAIN job' = DOMAIN job
  BY <1>0, <1>2, <1>4, Refielded
<1>6. PlanTyped' /\ CompleteDelivered'
  BY <1>0, <1>1, <1>2, <1>5 DEF PlanTyped, CompleteDelivered
<1>7. Grows
  BY <1>0, <1>1, <1>2 DEF PlanTyped, Grows
<1>8. PICK st \in {"WAITING_APPROVAL", "BLOCKED"} :
        /\ goal'.status = st
        /\ closing' = IF st = "WAITING_APPROVAL" THEN CloseProposal(node', job', gap', proof', st) ELSE closing
  BY <1>3, GoalIs
<1>9. CASE st = "WAITING_APPROVAL"
  <2>1. closing' = CloseProposal(node', job', gap', proof', st)
    BY <1>8, <1>9
  <2> QED
    BY <1>1, <1>6, <1>7, <1>8, <1>9, <2>1, Closes
<1>10. CASE st # "WAITING_APPROVAL"
  BY <1>6, <1>7, <1>8, <1>10, SameProposals, Elsewhere
<1> QED
  BY <1>9, <1>10

(* ---- the owner --------------------------------------------------------- *)

LEMMA NoGaps ==
  ASSUME NEW gp
  PROVE  OpenGaps(gp) = {} <=>
           \A m \in Nodes : gp[m].root \in {"none", "RESOLVED"} /\ gp[m].facts # "OPEN"
  BY DEF OpenGaps

LEMMA Paused ==
  ASSUME PlanTyped, job' = job
  PROVE  job' \in Seq(Tasks) /\ DOMAIN job' = DOMAIN job /\ (NothingLive => NothingLive')
  BY DEF PlanTyped, NothingLive, Live

LEMMA ExtendLimitsOK ==
  ASSUME PlanIInv, NEW n \in Nodes, ExtendLimits(n)
  PROVE  PlanIInv'
<1>0. PlanTyped
  BY DEF PlanIInv
<1>1. /\ node' = node /\ job' = job /\ goal' = goal /\ closing' = closing /\ plan' = plan
      /\ proof' = proof /\ sending' = sending
  BY DEF ExtendLimits
<1>2. gap' = gap \/ gap' = [gap EXCEPT ![n].limit = @ + 1]
  BY DEF ExtendLimits
<1>3. /\ gap' \in [Nodes -> Gaps]
      /\ \A m \in Nodes : gap'[m].root = gap[m].root /\ gap'[m].facts = gap[m].facts
  <2>1. CASE gap' = gap
    BY <1>0, <2>1 DEF PlanTyped
  <2>2. CASE gap' = [gap EXCEPT ![n].limit = @ + 1]
    <3>1. gap \in [Nodes -> Gaps] /\ gap[n] \in Gaps
      BY <1>0 DEF PlanTyped
    <3> DEFINE g == [gap[n] EXCEPT !.limit = @ + 1]
    <3>2. g \in Gaps /\ g.root = gap[n].root /\ g.facts = gap[n].facts
      BY <3>1 DEF Gaps
    <3>3. gap' = [gap EXCEPT ![n] = g]
      BY <2>2, <3>1
    <3> HIDE DEF g
    <3> QED
      BY <3>1, <3>2, <3>3
  <2> QED
    BY <1>2, <2>1, <2>2
<1>4. PlanTyped'
  BY <1>0, <1>1, <1>3 DEF PlanTyped
<1>5. Grows
  BY <1>0, <1>1 DEF PlanTyped, Grows
<1>6. OpenGaps(gap') = {} => OpenGaps(gap) = {}
  BY <1>3, NoGaps
<1>7. ASSUME NEW p \in closing, UpToDate(p)' PROVE UpToDate(p)
  <2>1. p.id.kind = "full" => p.id.gaps = {}
    BY DEF PlanIInv, ProposalOK
  <2>2. OpenGaps(gap') = {}
    BY <1>7, <2>1 DEF UpToDate
  <2>3. OpenGaps(gap) = OpenGaps(gap')
    BY <1>6, <2>2
  <2> QED
    BY <1>1, <1>7, <2>3 DEF UpToDate
<1>8. NothingLive => NothingLive'
  BY <1>0, <1>1, Paused
<1> QED
  BY <1>1, <1>4, <1>5, <1>7, <1>8, Unmoved

LEMMA AdjustPolicyOK ==
  ASSUME PlanConstants, PlanIInv, NEW n \in Nodes, NEW may \in SUBSET DependsOn[n], AdjustPolicy(n, may)
  PROVE  PlanIInv'
<1>0. PlanTyped /\ CompleteDelivered
  BY DEF PlanIInv
<1>1. /\ node' = node /\ job' = job /\ closing' = closing /\ proof' = proof /\ sending' = sending
      /\ goal' = goal \/ goal'.status = "DRAFT"
  BY GoalIs DEF AdjustPolicy
<1>2. may \in SUBSET Nodes
  BY DEF PlanConstants
<1>3. plan' \in [revision : Nat, approved : BOOLEAN, lacks : [Nodes -> SUBSET Nodes], shown : [Nodes -> Steps]]
      /\ plan'.revision = plan.revision + 1
  <2> DEFINE ok == ~(may # plan.lacks[n])
             ls == [plan.lacks EXCEPT ![n] = may]
  <2>1. /\ plan \in [revision : Nat, approved : BOOLEAN, lacks : [Nodes -> SUBSET Nodes], shown : [Nodes -> Steps]]
        /\ node \in [Nodes -> Steps]
    BY <1>0 DEF PlanTyped
  <2>2. ls \in [Nodes -> SUBSET Nodes] /\ ok \in BOOLEAN
    BY <1>2, <2>1
  <2>3. plan' = [revision |-> plan.revision + 1, approved |-> ok, lacks |-> ls, shown |-> node]
    BY <2>1 DEF AdjustPolicy
  <2> HIDE DEF ok, ls
  <2> QED
    BY <2>1, <2>2, <2>3
<1>4. gap' \in [Nodes -> Gaps]
  <2>1. gap \in [Nodes -> Gaps] /\ gap[n] \in Gaps /\ "none" \in Words
    BY <1>0 DEF PlanTyped, Words
  <2> DEFINE g == [gap[n] EXCEPT !.facts = "none"]
  <2>2. g \in Gaps
    BY <2>1 DEF Gaps
  <2>3. gap' = [gap EXCEPT ![n] = g]
    BY <2>1 DEF AdjustPolicy
  <2> QED
    BY <2>1, <2>2, <2>3
<1>5. PlanTyped' /\ CompleteDelivered'
  BY <1>0, <1>1, <1>3, <1>4 DEF PlanTyped, CompleteDelivered
<1>6. Grows
  BY <1>0, <1>1, <1>3 DEF PlanTyped, Grows
<1>7. CASE goal' = goal
  <2>1. ASSUME NEW p \in closing PROVE ~UpToDate(p)'
    <3>1. p.id.revision \in Nat /\ p.id.revision <= plan.revision
      BY DEF PlanIInv, ProposalOK
    <3>2. plan.revision \in Nat
      BY <1>0 DEF PlanTyped
    <3> QED
      BY <1>3, <3>1, <3>2 DEF UpToDate
  <2>2. NothingLive => NothingLive'
    BY <1>0, <1>1, Paused
  <2> QED
    BY <1>1, <1>5, <1>6, <1>7, <2>1, <2>2, Unmoved
<1>8. CASE goal'.status = "DRAFT"
  BY <1>1, <1>5, <1>6, <1>8, SameProposals, Elsewhere
<1> QED
  BY <1>1, <1>7, <1>8

LEMMA ApprovePlanOK ==
  ASSUME PlanIInv, ApprovePlan
  PROVE  PlanIInv'
<1>0. PlanTyped /\ CompleteDelivered
  BY DEF PlanIInv
<1>1. /\ node' = node /\ job' = job /\ closing' = closing /\ proof' = proof /\ sending' = sending /\ gap' = gap
      /\ plan' = [plan EXCEPT !.approved = TRUE] /\ goal'.status \in {"PAUSED", "READY"}
  BY GoalIs DEF ApprovePlan
<1>2. PlanTyped' /\ CompleteDelivered'
  BY <1>0, <1>1 DEF PlanTyped, CompleteDelivered
<1>3. Grows
  BY <1>0, <1>1 DEF PlanTyped, Grows
<1> QED
  BY <1>1, <1>2, <1>3, SameProposals, Elsewhere

LEMMA RevisePlanOK ==
  ASSUME PlanIInv, RevisePlan
  PROVE  PlanIInv'
<1>0. PlanTyped /\ CompleteDelivered
  BY DEF PlanIInv
<1>1. /\ node' = node /\ job' = job /\ closing' = closing /\ proof' = proof /\ sending' = sending /\ gap' = gap
      /\ plan' = [plan EXCEPT !.revision = @ + 1, !.shown = node] /\ goal'.status = "DRAFT"
  BY GoalIs DEF RevisePlan
<1>4. /\ plan' \in [revision : Nat, approved : BOOLEAN, lacks : [Nodes -> SUBSET Nodes], shown : [Nodes -> Steps]]
      /\ plan'.revision = plan.revision + 1
  <2>1. /\ plan \in [revision : Nat, approved : BOOLEAN, lacks : [Nodes -> SUBSET Nodes], shown : [Nodes -> Steps]]
        /\ node \in [Nodes -> Steps]
    BY <1>0 DEF PlanTyped
  <2>2. plan' = [revision |-> plan.revision + 1, approved |-> plan.approved, lacks |-> plan.lacks, shown |-> node]
    BY <1>1, <2>1
  <2> QED
    BY <2>1, <2>2
<1>2. PlanTyped' /\ CompleteDelivered'
  BY <1>0, <1>1, <1>4 DEF PlanTyped, CompleteDelivered
<1>3. Grows
  BY <1>0, <1>1, <1>4 DEF PlanTyped, Grows
<1> QED
  BY <1>1, <1>2, <1>3, SameProposals, Elsewhere

LEMMA GoalActionOK ==
  ASSUME PlanIInv, NEW t \in Transitions, GoalAction(t)
  PROVE  PlanIInv'
<1>0. PlanTyped /\ CompleteDelivered
  BY DEF PlanIInv
<1>1. t.to \in {"PAUSED", "READY", "STOPPED", "ARCHIVED"}
  BY DEF Transitions
<1>2. /\ job' = job /\ proof' = proof /\ sending' = sending /\ gap' = gap /\ plan' = plan
      /\ closing' = closing \/ closing' = Expired
  BY DEF GoalAction
<1>3. goal'.status = t.to
  BY GoalIs DEF GoalAction
<1>4. /\ node' \in [Nodes -> Steps]
      /\ \A m \in Nodes : /\ node'[m].delivered = node[m].delivered
                          /\ node'[m].state \in {"WAITING", node[m].state}
  <2>1. "WAITING" \in Words /\ node \in [Nodes -> Steps]
    BY <1>0 DEF Words, PlanTyped
  <2> DEFINE again(m) == t.action = "reopen" /\ node[m].state \in {"BLOCKED", "PARTIAL", "DEFERRED", "SKIPPED"}
  <2>2. node' = [m \in Nodes |-> IF again(m) THEN [node[m] EXCEPT !.state = "WAITING"] ELSE node[m]]
    BY DEF GoalAction
  <2> HIDE DEF again
  <2>3. ASSUME NEW m \in Nodes
        PROVE  /\ node'[m] \in Steps /\ node'[m].delivered = node[m].delivered
               /\ node'[m].state \in {"WAITING", node[m].state}
    <3>1. node[m] \in Steps
      BY <2>1
    <3>2. node'[m] = IF again(m) THEN [node[m] EXCEPT !.state = "WAITING"] ELSE node[m]
      BY <2>2
    <3> QED
      BY <2>1, <3>1, <3>2 DEF Steps
  <2>4. node' = [m \in Nodes |-> node'[m]]
    BY <2>2
  <2> QED
    BY <2>3, <2>4
<1>5. PlanTyped' /\ CompleteDelivered'
  BY <1>0, <1>2, <1>4 DEF PlanTyped, CompleteDelivered
<1>6. Grows
  BY <1>0, <1>2, <1>4 DEF PlanTyped, Grows
<1> QED
  BY <1>1, <1>2, <1>3, <1>5, <1>6, SameProposals, Elsewhere

LEMMA AskCloseOK ==
  ASSUME PlanIInv, AskClose
  PROVE  PlanIInv'
<1>0. PlanTyped /\ CompleteDelivered
  BY DEF PlanIInv
<1>1. /\ node' = node /\ job' = job /\ proof' = proof /\ sending' = sending /\ gap' = gap /\ plan' = plan
      /\ goal'.status = "WAITING_APPROVAL"
  BY GoalIs DEF AskClose
<1>2. closing' = CloseProposal(node', job, gap', proof', goal.status)
  BY <1>1 DEF AskClose
<1>3. PlanTyped' /\ CompleteDelivered'
  BY <1>0, <1>1 DEF PlanTyped, CompleteDelivered
<1>4. Grows
  BY <1>0, <1>1 DEF PlanTyped, Grows
<1> QED
  BY <1>1, <1>2, <1>3, <1>4, Closes

LEMMA ApproveCloseOK ==
  ASSUME PlanIInv, NEW p \in closing, ApproveClose(p)
  PROVE  PlanIInv'
<1>0. PlanTyped /\ CompleteDelivered
  BY DEF PlanIInv
<1>1. /\ node' = node /\ job' = job /\ proof' = proof /\ sending' = sending /\ gap' = gap /\ plan' = plan
      /\ goal.status = "WAITING_APPROVAL" /\ NothingLive /\ p.state = "PENDING"
      /\ p.id.proof = proof /\ p.id.revision = plan.revision /\ p.id.gaps = OpenGaps(gap)
  BY DEF ApproveClose, Decidable
<1>2. goal'.status = IF p.id.kind = "full" THEN "COMPLETED" ELSE "PARTIALLY_COMPLETED"
  BY GoalIs DEF ApproveClose
<1>3. closing' = (closing \ {p}) \cup {[p EXCEPT !.state = "EXECUTED"]}
  BY DEF ApproveClose, Decide
<1>4. PlanTyped' /\ CompleteDelivered'
  BY <1>0, <1>1 DEF PlanTyped, CompleteDelivered
<1>5. Grows
  BY <1>0, <1>1 DEF PlanTyped, Grows
<1>6. Redecided
  BY SameDecided DEF ApproveClose
<1>7. ProposalOK(p)
  BY DEF PlanIInv
<1>8. CASE p.id.kind = "full"
  <2>1. UpToDate(p)
    BY <1>1, <1>7, <1>8 DEF ProposalOK, UpToDate
  <2> DEFINE q == [p EXCEPT !.state = "EXECUTED"]
  <2>2. q.id = p.id /\ q.state = "EXECUTED" /\ q \in closing'
    BY <1>3, <1>7 DEF ProposalOK
  <2>3. NothingLive' /\ \A n \in Nodes : node'[n].delivered
    BY <1>1, <1>7, <1>8 DEF ProposalOK, NothingLive, Live
  <2>4. HandedBack' \/ EveryStepComplete'
    <3>1. CASE SentBackOnce
      BY <1>1, <1>3, <3>1 DEF SentBackOnce, HandedBack
    <3>2. CASE EveryStepComplete
      BY <1>1, <3>2 DEF EveryStepComplete
    <3>3. CASE HasTwin(p)
      <4>1. PICK r \in closing : r.id = [p.id EXCEPT !.kind = "partial"]
        BY <3>3 DEF HasTwin
      <4>2. r.id.kind = "partial"
        BY <1>7, <4>1 DEF ProposalOK
      <4>3. r \in closing'
        BY <1>3, <1>8, <4>2
      <4> HIDE DEF q
      <4> QED
        BY <1>8, <2>2, <4>1, <4>3 DEF HandedBack
    <3> QED
      BY <1>1, <2>1, <3>1, <3>2, <3>3 DEF PlanIInv, PendingIsComplete
  <2>5. FullMeansDelivered'
    BY <2>3, <2>4 DEF FullMeansDelivered
  <2>6. \A r \in closing' : ProposalOK(r)'
    BY <1>4, <1>5, <1>6, ProposalsStay
  <2>7. PendingIsComplete'
    BY <1>2, <1>8 DEF PendingIsComplete
  <2> QED
    BY <1>4, <2>5, <2>6, <2>7 DEF PlanIInv
<1>9. CASE p.id.kind # "full"
  BY <1>2, <1>4, <1>5, <1>6, <1>9, Elsewhere
<1> QED
  BY <1>8, <1>9

LEMMA RejectCloseOK ==
  ASSUME PlanIInv, NEW p \in closing, RejectClose(p)
  PROVE  PlanIInv'
<1>0. PlanTyped /\ CompleteDelivered
  BY DEF PlanIInv
<1>1. /\ node' = node /\ job' = job /\ proof' = proof /\ sending' = sending /\ gap' = gap /\ plan' = plan
      /\ goal' = goal /\ p.state = "PENDING" /\ goal.status # "COMPLETED"
  BY DEF RejectClose, Decidable, Closed
<1>2. closing' = (closing \ {p}) \cup {[p EXCEPT !.state = "REJECTED"]}
  BY DEF RejectClose, Decide
<1>3. PlanTyped' /\ CompleteDelivered'
  BY <1>0, <1>1 DEF PlanTyped, CompleteDelivered
<1>4. Grows
  BY <1>0, <1>1 DEF PlanTyped, Grows
<1>5. \A r \in closing' : ProposalOK(r)'
  BY <1>3, <1>4, SameDecided, ProposalsStay DEF RejectClose
<1>6. ProposalOK(p)
  BY DEF PlanIInv
<1> DEFINE q == [p EXCEPT !.state = "REJECTED"]
<1>7. q.id = p.id /\ q.state = "REJECTED" /\ q \in closing'
  BY <1>2, <1>6 DEF ProposalOK
<1>8. PendingIsComplete'
  <2>1. SUFFICES ASSUME goal.status = "WAITING_APPROVAL", ~SentBackOnce, ~EveryStepComplete,
                        NEW r \in closing', r.state = "PENDING", UpToDate(r)'
                 PROVE  HasTwin(r)'
    <3>1. SentBackOnce => SentBackOnce'
      BY <1>1, <1>2 DEF SentBackOnce
    <3>2. EveryStepComplete => EveryStepComplete'
      BY <1>1 DEF EveryStepComplete
    <3> QED
      BY <1>1, <3>1, <3>2 DEF PendingIsComplete
  <2>2. r \in closing /\ UpToDate(r)
    BY <1>1, <1>2, <1>7, <2>1 DEF UpToDate
  <2>3. HasTwin(r)
    BY <2>1, <2>2 DEF PlanIInv, PendingIsComplete
  <2>4. PICK t \in closing : t.id = [r.id EXCEPT !.kind = "partial"]
    BY <2>3 DEF HasTwin
  <2> HIDE DEF q
  <2>5. t \in closing' \/ q.id = t.id
    BY <1>2, <1>7
  <2> QED
    BY <1>7, <2>4, <2>5 DEF HasTwin
<1>9. FullMeansDelivered'
  BY <1>1 DEF FullMeansDelivered
<1> QED
  BY <1>3, <1>5, <1>8, <1>9 DEF PlanIInv

LEMMA ReworkCloseOK ==
  ASSUME PlanIInv, NEW p \in closing, NEW n \in Nodes, ReworkClose(p, n)
  PROVE  PlanIInv'
<1>0. PlanTyped /\ CompleteDelivered
  BY DEF PlanIInv
<1>1. /\ job' = job /\ proof' = proof /\ sending' = sending /\ gap' = gap
      /\ node' = [node EXCEPT ![n].state = "WAITING"] /\ plan' = [plan EXCEPT !.revision = @ + 1]
  BY DEF ReworkClose
<1>2. goal'.status = "READY"
  BY GoalIs DEF ReworkClose
<1>3. "WAITING" \in Words
  BY DEF Words
<1>4. /\ node' \in [Nodes -> Steps] /\ CompleteDelivered'
      /\ \A m \in Nodes : node[m].delivered => node'[m].delivered
  BY <1>0, <1>1, <1>3, Put
<1>5. PlanTyped'
  BY <1>0, <1>1, <1>4 DEF PlanTyped
<1>6. Grows
  BY <1>0, <1>1, <1>4 DEF PlanTyped, Grows
<1>7. Redecided
  BY SameDecided DEF ReworkClose
<1> QED
  BY <1>2, <1>4, <1>5, <1>6, <1>7, Elsewhere

(* ---- the plan ----------------------------------------------------------- *)

LEMMA PlanStarts ==
  ASSUME PlanConstants, PlanInit
  PROVE  PlanIInv
<1>1. /\ goal = [status |-> "READY", why |-> ""] /\ job = <<>> /\ closing = {} /\ sending = 0
      /\ proof = [files |-> 0, reports |-> {}]
      /\ node = [n \in Nodes |-> [state |-> "WAITING", delivered |-> FALSE]]
      /\ plan = [revision |-> 1, approved |-> TRUE, lacks |-> [n \in Nodes |-> {}], shown |-> node]
      /\ gap = [n \in Nodes |-> [tries |-> <<>>, limit |-> GapAttempts, root |-> "none", facts |-> "none"]]
  BY DEF PlanInit
<1>2. "WAITING" \in Words /\ "none" \in Words
  BY DEF Words
<1>3. node \in [Nodes -> Steps]
  BY <1>1, <1>2 DEF Steps
<1>4. GapAttempts \in Nat
  BY DEF PlanConstants
<1>5. gap \in [Nodes -> Gaps]
  <2> DEFINE g == [tries |-> <<>>, limit |-> GapAttempts, root |-> "none", facts |-> "none"]
  <2>1. g \in Gaps
    BY <1>2, <1>4 DEF Gaps
  <2>2. gap = [n \in Nodes |-> g]
    BY <1>1
  <2> HIDE DEF g
  <2> QED
    BY <2>1, <2>2
<1>6. plan \in [revision : Nat, approved : BOOLEAN, lacks : [Nodes -> SUBSET Nodes], shown : [Nodes -> Steps]]
  BY <1>1, <1>3
<1>13. job = << >> /\ sending = 0
  BY <1>1
<1>11. job \in Seq(Tasks) /\ sending \in {0} \cup DOMAIN job
  BY <1>13
<1>12. proof \in [files : Nat, reports : SUBSET Nat]
  BY <1>1
<1>7. job \in Seq(Tasks) /\ proof \in [files : Nat, reports : SUBSET Nat] /\ sending \in {0} \cup DOMAIN job
  BY <1>11, <1>12
<1>8. PlanTyped
  BY <1>3, <1>5, <1>6, <1>7 DEF PlanTyped
<1>9. CompleteDelivered
  BY <1>1 DEF CompleteDelivered
<1>10. goal.status = "READY"
  BY <1>1
<1> QED
  BY <1>1, <1>8, <1>9, <1>10 DEF PlanIInv, PendingIsComplete, FullMeansDelivered

LEMMA PlanSteps ==
  ASSUME PlanConstants, PlanIInv, [PlanNext]_planVars
  PROVE  PlanIInv'
<1>1. CASE UNCHANGED planVars
  BY <1>1 DEF planVars, PlanIInv, PlanTyped, CompleteDelivered, ProposalOK, PendingIsComplete,
     FullMeansDelivered, SentBackOnce, EveryStepComplete, UpToDate, HasTwin, HandedBack, NothingLive, Live
<1>2. ASSUME NEW n \in Nodes,
             \/ Claim(n) \/ ContinueNode(n) \/ SkipNode(n) \/ ExtendLimits(n)
             \/ \E may \in SUBSET DependsOn[n] : AdjustPolicy(n, may)
             \/ \E p \in closing : ReworkClose(p, n)
      PROVE  PlanIInv'
  BY <1>2, ClaimOK, ContinueNodeOK, SkipNodeOK, ExtendLimitsOK, AdjustPolicyOK, ReworkCloseOK
<1>3. ASSUME NEW d \in DOMAIN job,
             \/ Dispatch(d) \/ DispatchFails(d) \/ StartTask(d) \/ StartRefused(d) \/ MoneyIsBack(d)
             \/ ModelCall(d) \/ Completes(d)
             \/ \E r \in Results \ {"empty"} : Saves(d, r)
             \/ \E w \in {"steps", "limit", "ordinary", "other"} : Fails(d, w)
      PROVE  PlanIInv'
  BY <1>3, DispatchOK, FailuresOK, StartTaskOK, StartRefusedOK, MoneyIsBackOK, ModelCallOK, CompletesOK,
     SavesOK, FailsOK
<1>4. ASSUME NEW d \in DOMAIN job,
             \/ CollectClosed(d) \/ CollectUnstarted(d) \/ CollectRunning(d) \/ CollectFailed(d)
             \/ \E again \in BOOLEAN : CollectResult(d, again)
             \/ StopTask(d) \/ RetryTask(d) \/ ReworkTask(d)
      PROVE  PlanIInv'
  BY <1>4, CollectClosedOK, CollectUnstartedOK, CollectRunningOK, FailuresOK, CollectHeldOK, CollectLateOK,
     StopTaskOK, RetriesOK
<1>5. CASE Dispatched \/ ControllerDies \/ WindowEnds
  BY <1>5, DispatchedOK, IdleOK
<1>6. CASE ApprovePlan \/ RevisePlan \/ AskClose \/ \E t \in Transitions : GoalAction(t)
  BY <1>6, ApprovePlanOK, RevisePlanOK, AskCloseOK, GoalActionOK
<1>7. ASSUME NEW p \in closing, ApproveClose(p) \/ RejectClose(p)
      PROVE  PlanIInv'
  BY <1>7, ApproveCloseOK, RejectCloseOK
<1>8. ASSUME PlanNext PROVE PlanIInv'
  BY <1>2, <1>3, <1>4, <1>5, <1>6, <1>7, <1>8 DEF PlanNext
<1> QED
  BY <1>1, <1>8

\* A result accepted as complete has every step delivered and none at work, and every step
\* is complete unless the owner was handed a proposal he had before (closeProposal(),
\* decide()): for any plan, any attempts and any commands of the owner.
THEOREM AcceptedWhenDelivered ==
  ASSUME PlanConstants
  PROVE  PlanSpec => []FullMeansDelivered
<1>1. PlanInit => PlanIInv
  BY PlanStarts
<1>2. PlanIInv /\ [PlanNext]_planVars => PlanIInv'
  BY PlanSteps
<1>3. PlanIInv => FullMeansDelivered
  BY DEF PlanIInv
<1> QED
  BY <1>1, <1>2, <1>3, PTL DEF PlanSpec
=============================================================================
