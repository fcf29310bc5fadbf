------------------------------ MODULE ToolCalls ------------------------------
(***************************************************************************)
(* The tool runtime and the built-in tools of one workspace: artifacts,     *)
(* private files, public web pages and a remote host reached through ssh.   *)
(*                                                                         *)
(* A world runs one tool at a time.  A handler is synchronous except for    *)
(* its waits on ssh or HTTP, where timers, the owner's stop and the network *)
(* race.  Killing ssh does not kill what already runs on the remote host.   *)
(***************************************************************************)
EXTENDS Integers, FiniteSets

CONSTANTS
  Ops,          \* identities of operations; one may be executed again after a crash
  Pixels, Neighbours,    \* the agents, and which pairs of them touch on the grid
  Files, Contents,
  MaxTrouble    \* bound: crashes, timers, stops and lost links

ToolConstants ==
  Neighbours \subseteq Pixels \X Pixels /\ MaxTrouble \in Nat
  /\ Contents \cap {"none", "cut"} = {}

VARIABLES
  call,      \* the tool that runs
  files,     \* the artifacts in each agent's directory
  snaps,     \* the evidence snapshot of each operation
  told,      \* what a successful save of evidence reported
  remote,    \* the remote host's files; "cut" when only a part was written
  adrift,    \* remote writers that outlived their ssh
  last,      \* the last result
  trouble

toolVars == <<call, files, snaps, told, remote, adrift, last, trouble>>
diskVars == <<files, snaps, told>>

Local == {"save_artifact", "read_artifact", "list_artifacts", "transfer_artifact",
          "list_private_files", "read_private_file", "inspect_private_image"}
Web == {"webfetch", "github_repo"}
RemoteReads == {"vps_list_files", "vps_read_file", "vps_download_file"}
RemoteWrites == {"vps_write_file", "vps_upload_file"}
Remote == RemoteReads \cup RemoteWrites \cup {"vps_exec"}
Tools == Local \cup Web \cup Remote

Idle == [pc |-> "idle"]
Unsaid == [kind |-> "none", code |-> "none", effect |-> "none", by |-> "no"]
ToolInit ==
  /\ call = Idle /\ last = Unsaid /\ trouble = 0 /\ adrift = {}
  /\ files = [p \in Pixels |-> [f \in Files |-> "none"]]
  /\ snaps = [o \in Ops |-> "none"] /\ told = [o \in Ops |-> "none"]
  /\ remote = [f \in Files |-> "none"]

Troubled == trouble < MaxTrouble /\ trouble' = trouble + 1
At(pc) == call.pc = pc
Kind(t) == IF t \in Remote THEN "remote" ELSE IF t \in Web THEN "web" ELSE "local"
Cause(c) == IF c.late /\ c.abort = "no" THEN "TIMEOUT" ELSE c.abort
\* A result: SUCCESS or why it failed, what the tool had done by then, what cut it short.
\* EXIT is vps_exec's success that carries another exit code than 0, ssh's own included.
Tell(c, code) ==
  /\ last' = [kind |-> Kind(c.tool), code |-> code, effect |-> c.effect, by |-> Cause(c)]
  /\ call' = Idle

Called(o, t, p, f) ==
  [pc |-> "called", op |-> o, tool |-> t, pixel |-> p, file |-> f, content |-> "none", overwrite |-> TRUE,
   effect |-> "none", abort |-> "no", late |-> FALSE, hops |-> 0]
With(c, content) == [c EXCEPT !.content = content]
Answer(c, code) == Tell(c, code) /\ UNCHANGED <<diskVars, remote, adrift, trouble>>

(* Before a handler runs the runtime asks: the tool is known and enabled, the *)
(* operation is the call's own, and it was not stopped.                       *)
Gate(c) == Answer(c, "gate")
\* A handler refuses for the shape of the arguments, their scope, the credentials, sizes.
Refused(c, codes) == \E code \in codes : Answer(c, code)

-----------------------------------------------------------------------------
(* Tools on local files: one synchronous step each, unless the server dies.  *)

(* Evidence is written once per operation, then the artifact the agent sees. *)
SnapshotMutant(o, c) == TRUE
Snapshot(o, c) == snaps[o] \in {"none", c}
Save(c, evidence) ==
  IF evidence /\ ~Snapshot(c.op, c.content)
  THEN Tell(c, "io") /\ UNCHANGED <<diskVars, remote, adrift, trouble>>
  ELSE /\ snaps' = IF evidence THEN [snaps EXCEPT ![c.op] = c.content] ELSE snaps
       /\ told' = IF evidence /\ told[c.op] = "none" THEN [told EXCEPT ![c.op] = c.content] ELSE told
       /\ files' = [files EXCEPT ![c.pixel][c.file] = c.content]
       /\ Tell([c EXCEPT !.effect = "whole"], "SUCCESS") /\ UNCHANGED <<remote, adrift, trouble>>
\* The server dies inside a save: neither write is atomic.
SaveDies(c) ==
  /\ Troubled /\ call' = Idle /\ last' = Unsaid
  /\ \/ /\ snaps[c.op] = "none" /\ UNCHANGED files
        /\ \E half \in {c.content, "cut"} : snaps' = [snaps EXCEPT ![c.op] = half]
     \/ /\ Snapshot(c.op, c.content) /\ snaps' = [snaps EXCEPT ![c.op] = c.content]
        /\ files' = [files EXCEPT ![c.pixel][c.file] = "cut"]
  /\ UNCHANGED <<told, remote, adrift>>

SaveArtifact(c) ==
  \/ Refused(c, {"arguments"})
  \/ \E content \in Contents :
       SaveDies(With(c, content)) \/ (\E evidence \in BOOLEAN : Save(With(c, content), evidence))
ReadArtifact(c) ==
  \/ Refused(c, {"arguments", "scope", "io"})
  \/ Answer(c, IF files[c.pixel][c.file] = "none" THEN "missing" ELSE "SUCCESS")
ListArtifacts(c) == Refused(c, {"arguments", "scope", "io"}) \/ Answer(c, "SUCCESS")

(* A copy for a neighbour never replaces what the neighbour already has.     *)
Transfer(c, target) ==
  LET copied == /\ <<c.pixel, target>> \in Neighbours /\ files[c.pixel][c.file] # "none"
                /\ files[target][c.file] = "none"
  IN /\ files' = IF copied THEN [files EXCEPT ![target][c.file] = files[c.pixel][c.file]] ELSE files
     /\ CASE target = c.pixel -> Tell(c, "arguments")
          [] target # c.pixel /\ <<c.pixel, target>> \notin Neighbours -> Tell(c, "target")
          [] <<c.pixel, target>> \in Neighbours /\ files[c.pixel][c.file] = "none" -> Tell(c, "missing")
          [] <<c.pixel, target>> \in Neighbours /\ files[c.pixel][c.file] # "none" ->
               IF copied THEN Tell([c EXCEPT !.effect = "whole"], "SUCCESS")
               ELSE Tell(c, "conflict")
     /\ UNCHANGED <<snaps, told, remote, adrift, trouble>>

TransferArtifact(c) ==
  Refused(c, {"arguments", "scope", "target", "io"}) \/ (\E target \in Pixels : Transfer(c, target))

(* Private files are not for an execution's scope; what looks like a          *)
(* credential is masked, and what is nothing else is withheld.                *)
ListPrivateFiles(c) == Refused(c, {"scope", "missing", "io"}) \/ Answer(c, "SUCCESS")
ReadPrivateFile(c) ==
  \/ Refused(c, {"scope", "missing", "protected", "io"})
  \/ Answer(c, "SUCCESS") \/ Answer([c EXCEPT !.effect = "masked"], "SUCCESS")
InspectPrivateImage(c) == Refused(c, {"scope", "missing", "io"}) \/ Answer(c, "SUCCESS")

-----------------------------------------------------------------------------
(* Tools on the remote host.                                                 *)

Spawn(c) ==
  /\ call' = [c EXCEPT !.pc = "ssh"] /\ last' = Unsaid
  /\ UNCHANGED <<diskVars, remote, adrift, trouble>>

(* What the remote shell does with the command and its standard input.       *)
RemoteStep ==
  /\ At("ssh") /\ call.effect # "whole" /\ UNCHANGED <<diskVars, adrift, last, trouble>>
  /\ \/ /\ call.tool \notin RemoteWrites /\ UNCHANGED remote
        /\ call' = [call EXCEPT !.effect = "whole",
                                !.content = IF call.tool = "vps_exec" THEN @ ELSE remote[call.file]]
     \/ /\ call.tool \in RemoteWrites
        /\ call.overwrite \/ remote[call.file] = "none" \/ call.effect = "part"
        /\ \/ remote' = [remote EXCEPT ![call.file] = call.content] /\ call' = [call EXCEPT !.effect = "whole"]
           \/ remote' = [remote EXCEPT ![call.file] = "cut"] /\ call' = [call EXCEPT !.effect = "part"]
SshTimer == /\ At("ssh") /\ ~call.late /\ Troubled /\ call' = [call EXCEPT !.late = TRUE]
            /\ UNCHANGED <<diskVars, remote, adrift, last>>

StillWriting ==
  IF call.tool \in RemoteWrites /\ call.effect # "whole"
  THEN {[file |-> call.file, content |-> call.content,
         overwrite |-> call.overwrite \/ call.effect = "part"]} ELSE {}
Stopped(c) == c.abort # "no" \/ c.late
\* First why ssh did not end by itself, then how it ended.
TransportFailure(c, exit) ==
  CASE exit = "spawn" -> "spawn"
    [] exit # "spawn" /\ c.abort # "no" -> IF c.late \/ c.abort = "TIMEOUT" THEN "TIMEOUT" ELSE "USER_STOPPED"
    [] exit # "spawn" /\ c.abort = "no" /\ c.late -> "TIMEOUT"
    [] exit # "spawn" /\ ~Stopped(c) -> "none"
Ended(c, exit) ==
  IF exit \notin {"failed", "lost"} THEN "SUCCESS" ELSE IF c.tool = "vps_exec" THEN "EXIT" ELSE "failed"
OutcomeMutant(c, exit) == Ended(c, exit)      \* the signals are not looked at
Outcome(c, exit) ==
  IF TransportFailure(c, exit) # "none" THEN TransportFailure(c, exit) ELSE Ended(c, exit)

(* ssh ends with the remote command's exit code, or is lost: not connected,  *)
(* refused, its link dropped, killed.  Then the command ran not at all, in    *)
(* part or whole, and what still writes on the remote host may go on.        *)
Close ==
  /\ At("ssh")
  /\ \E exit \in {"zero", "failed", "lost", "spawn"} :
       /\ exit = "zero" => call.effect = "whole"
       /\ exit = "spawn" => call.effect = "none"
       /\ IF exit = "lost" /\ ~Stopped(call) THEN Troubled ELSE UNCHANGED trouble
       /\ \/ Tell(call, Outcome(call, exit))
             /\ files' = IF call.tool = "vps_download_file" /\ Outcome(call, exit) = "SUCCESS"
                         THEN [files EXCEPT ![call.pixel][call.file] = call.content] ELSE files
          \/ /\ call.tool = "vps_download_file" /\ Outcome(call, exit) = "SUCCESS"
             /\ Tell(call, "size") /\ UNCHANGED files
       /\ adrift' = IF exit = "lost" THEN adrift \cup StillWriting ELSE adrift
  /\ UNCHANGED <<snaps, told, remote>>
Drift ==
  \E w \in adrift :
    /\ adrift' = adrift \ {w}
    /\ \E end \in {remote[w.file], "cut", w.content} :
         /\ w.overwrite \/ remote[w.file] \in {"none", end}
         /\ remote' = [remote EXCEPT ![w.file] = end]
    /\ UNCHANGED <<call, diskVars, last, trouble>>

Prerequisites == {"credentials"}       \* a profile of the host, with a key that exists
PathChecks == {"arguments", "scope"}   \* the path's shape, and the profile's remote root
VpsExec(c) == Refused(c, {"arguments"} \cup Prerequisites) \/ Spawn(c)
VpsListFiles(c) == Refused(c, PathChecks \cup Prerequisites) \/ Spawn(c)
VpsReadFile(c) == Refused(c, PathChecks \cup Prerequisites) \/ Spawn(c)
VpsWriteFile(c) ==
  \/ Refused(c, PathChecks \cup Prerequisites \cup {"size"})
  \/ \E content \in Contents, over \in BOOLEAN : Spawn([With(c, content) EXCEPT !.overwrite = over])
VpsUploadFile(c) ==
  \/ Refused(c, PathChecks \cup Prerequisites \cup {"size"})
  \/ files[c.pixel][c.file] = "none" /\ Answer(c, "missing")
  \/ files[c.pixel][c.file] # "none" /\ Spawn(With(c, files[c.pixel][c.file]))
VpsDownloadFile(c) == Refused(c, PathChecks \cup Prerequisites) \/ Spawn(c)

-----------------------------------------------------------------------------
(* Public pages: every hop is resolved, checked and pinned before it is asked. *)

MaxRedirects == 3
PublicAddress(found) == found = "public"
Resolve ==
  /\ At("dns") /\ UNCHANGED <<diskVars, remote, adrift, trouble>>
  /\ \/ Tell(call, "dns")
     \/ \E found \in {"public", "private", "none"} :
          IF PublicAddress(found)
          THEN call' = [call EXCEPT !.pc = "http", !.content = found] /\ UNCHANGED last
          ELSE Tell(call, "private")
     \* an answer synthesized by a local proxy: the name is resolved again, over HTTPS
     \/ \E found \in {"public", "private", "none"} :
          IF PublicAddress(found)
          THEN call' = [call EXCEPT !.pc = "http", !.content = found] /\ UNCHANGED last
          ELSE Tell(call, "private")
Response ==
  /\ At("http") /\ UNCHANGED <<diskVars, remote, adrift, trouble>>
  /\ \/ call.abort # "no" /\ Tell(call, "ABORTED")
     \/ /\ call.abort = "no"
        /\ \/ /\ call.hops < MaxRedirects /\ UNCHANGED last
              /\ call' = [call EXCEPT !.pc = "dns", !.hops = @ + 1]
           \/ call.hops = MaxRedirects /\ Tell(call, "redirect")
           \/ \E why \in {"redirect", "status", "type", "TIMEOUT", "io"} : Tell(call, why)
           \/ Tell([call EXCEPT !.effect = call.content], "SUCCESS")

Asks(c) == /\ call' = [c EXCEPT !.pc = "dns"] /\ last' = Unsaid
           /\ UNCHANGED <<diskVars, remote, adrift, trouble>>
WebFetch(c) == Refused(c, {"arguments"}) \/ Asks(c)
GithubRepo(c) == Refused(c, {"arguments"}) \/ Asks(c)

-----------------------------------------------------------------------------
(* The runtime: the first of its timer and the owner's stop aborts the call.  *)
Abort(why) ==
  /\ call.pc \in {"ssh", "dns", "http"} /\ call.abort = "no" /\ Troubled
  /\ call' = [call EXCEPT !.abort = why] /\ UNCHANGED <<diskVars, remote, adrift, last>>
ServerDies ==
  /\ call.pc \in {"ssh", "dns", "http"} /\ Troubled /\ call' = Idle
  /\ adrift' = IF At("ssh") THEN adrift \cup StillWriting ELSE adrift
  /\ UNCHANGED <<diskVars, remote, last>>

Execute(o, t, p, f) ==
  LET c == Called(o, t, p, f) IN
  /\ At("idle") /\ last = Unsaid
  /\ \/ Gate(c)
     \/ t = "save_artifact" /\ SaveArtifact(c)
     \/ t = "read_artifact" /\ ReadArtifact(c)
     \/ t = "list_artifacts" /\ ListArtifacts(c)
     \/ t = "transfer_artifact" /\ TransferArtifact(c)
     \/ t = "list_private_files" /\ ListPrivateFiles(c)
     \/ t = "read_private_file" /\ ReadPrivateFile(c)
     \/ t = "inspect_private_image" /\ InspectPrivateImage(c)
     \/ t = "webfetch" /\ WebFetch(c)
     \/ t = "github_repo" /\ GithubRepo(c)
     \/ t = "vps_exec" /\ VpsExec(c)
     \/ t = "vps_list_files" /\ VpsListFiles(c)
     \/ t = "vps_read_file" /\ VpsReadFile(c)
     \/ t = "vps_write_file" /\ VpsWriteFile(c)
     \/ t = "vps_upload_file" /\ VpsUploadFile(c)
     \/ t = "vps_download_file" /\ VpsDownloadFile(c)

\* The caller takes the result before the next call.
Returns ==
  /\ At("idle") /\ last # Unsaid /\ last' = Unsaid
  /\ UNCHANGED <<call, diskVars, remote, adrift, trouble>>

ToolNext ==
  \/ \E o \in Ops, t \in Tools, p \in Pixels, f \in Files : Execute(o, t, p, f)
  \/ Returns \/ RemoteStep \/ SshTimer \/ Close \/ Drift \/ Resolve \/ Response
  \/ Abort("TIMEOUT") \/ Abort("USER_STOPPED") \/ ServerDies
ToolSpec == ToolInit /\ [][ToolNext]_toolVars

-----------------------------------------------------------------------------
(* The evidence of an operation that was reported saved is, for ever, what    *)
(* was reported: later saves over the same artifact, transfers, downloads and *)
(* a second execution of the operation after a crash do not touch it.         *)
EvidenceStands == \A o \in Ops : told[o] # "none" => snaps[o] = told[o]

(* A result says what happened on the other side: success means that a remote *)
(* command ended with code 0 and everything was read or written, or that the  *)
(* page came from a public address; any code of its own that vps_exec passes  *)
(* on says at least that nothing here cut it short; a call is said stopped    *)
(* only if it was; and what was refused before ssh ran left nothing behind.   *)
ReportsAreTrue ==
  /\ last.code = "SUCCESS" /\ last.kind = "remote" => last.effect = "whole"
  /\ last.code \in {"SUCCESS", "EXIT"} /\ last.kind = "remote" => last.by = "no"
  /\ last.code = "SUCCESS" /\ last.kind = "web" => last.effect = "public"
  /\ last.code = "USER_STOPPED" => last.by = "USER_STOPPED"
  /\ last.code \in {"gate", "arguments", "credentials", "scope", "target", "spawn"} => last.effect = "none"
=============================================================================
