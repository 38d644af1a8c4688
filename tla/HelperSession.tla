---------------------------- MODULE HelperSession ----------------------------
(***************************************************************************)
(* A session with the install helper: the launcher goes to a child process *)
(* as an open handle whose name is already gone, the request over a named  *)
(* pipe (src/windows-helper-pipe-session.mjs) or over stdin                *)
(* (src/inherited-launcher-transfer.mjs).  Client, helper and timers       *)
(* interleave; the helper may hang for ever, even after it was killed.     *)
(***************************************************************************)
EXTENDS Naturals, Sequences

CONSTANT Launchers      \* launchers told apart by their digest

VARIABLES
    asked,      \* the input: mode, platform, request and launcher
    hs,         \* the parent: its await, its handles, its client, its result
    helper      \* the child process: its progress, its output, killed or not

helperVars == <<asked, hs, helper>>

Modes == {"pipe", "inherit"}

Facts == [pids : BOOLEAN, tokens : BOOLEAN, same : BOOLEAN,
          denied : BOOLEAN, allowed : BOOLEAN]

NoFacts == [pids |-> FALSE, tokens |-> FALSE, same |-> FALSE,
            denied |-> FALSE, allowed |-> FALSE]

\* valid: the bytes are a canonical request.  bound: its workspace, manifest
\* and confirmation are the caller's.
Asked == [mode : Modes, windows : BOOLEAN, valid : BOOLEAN, bound : BOOLEAN,
          named : Launchers, bytes : Launchers]

SessionInit ==
    /\ asked \in Asked
    /\ hs = [at |-> "check", name |-> FALSE, content |-> "empty",
             writer |-> FALSE, reader |-> FALSE, stuck |-> FALSE,
             client |-> "none", late |-> FALSE, abort |-> "none",
             result |-> "none"]
    /\ helper = [at |-> "none", read |-> "empty", out |-> "none",
                 facts |-> NoFacts, flood |-> FALSE, killed |-> FALSE]

-----------------------------------------------------------------------------
(* The request and the peer.                                               *)

parseHelperRequest(a) == a.valid

\* The request names the workspace, the manifest and the launcher at hand.
verifyRequestBinding(a) ==
    parseHelperRequest(a) /\ a.bound /\ a.named = a.bytes

evaluateWindowsHelperPeerEvidence(f) ==
    [local |-> f.pids, identity |-> f.tokens,
     different |-> f.tokens /\ ~f.same,
     denied |-> f.denied, allowed |-> f.allowed]

authorizeHelperRequest(a, peer) ==
    IF ~peer.local \/ ~peer.identity THEN "peer_identity_unverified"
    ELSE IF ~peer.different THEN "same_principal_rejected"
    ELSE IF ~peer.denied THEN "caller_write_not_denied"
    ELSE IF ~peer.allowed THEN "helper_write_not_allowed"
    ELSE IF ~parseHelperRequest(a) THEN "invalid_request"
    ELSE IF ~verifyRequestBinding(a) THEN "request_binding_mismatch"
    ELSE "ok"

-----------------------------------------------------------------------------
(* The launcher handle.                                                    *)

At(s) == hs.at = s
Pipe == asked.mode = "pipe"
Over(r) == [hs EXCEPT !.at = "over", !.result = r]

\* What has to hold before anything is created.
RequestChecked ==
    /\ At("check")
    /\ hs' = IF ~Pipe /\ ~parseHelperRequest(asked) THEN Over("invalid_request")
             ELSE IF ~verifyRequestBinding(asked) THEN Over("request_binding_mismatch")
             ELSE IF Pipe /\ ~asked.windows THEN Over("unsupported_platform")
             ELSE [hs EXCEPT !.at = "open"]
    /\ UNCHANGED <<asked, helper>>

WriterOpened ==
    /\ At("open")
    /\ hs' = [hs EXCEPT !.at = "write", !.name = TRUE, !.writer = TRUE]
    /\ UNCHANGED <<asked, helper>>

LauncherWritten ==
    /\ At("write")
    /\ hs' = [hs EXCEPT !.at = "reopen", !.content = asked.bytes]
    /\ UNCHANGED <<asked, helper>>

ReaderOpened ==
    /\ At("reopen")
    /\ hs' = [hs EXCEPT !.at = "unlink", !.reader = TRUE]
    /\ UNCHANGED <<asked, helper>>

NameUnlinked ==
    /\ At("unlink")
    /\ hs' = [hs EXCEPT !.at = "closeWriter", !.name = FALSE]
    /\ UNCHANGED <<asked, helper>>

WriterClosed ==
    /\ At("closeWriter")
    /\ hs' = [hs EXCEPT !.at = "spawn", !.writer = FALSE]
    /\ UNCHANGED <<asked, helper>>

\* Any of these calls rejects; a write may have written some of its bytes.
HandleFails ==
    /\ hs.at \in {"open", "write", "reopen", "unlink", "closeWriter"}
    /\ hs' = [hs EXCEPT !.at = "cleanWriter",
                        !.content = IF At("write") THEN "part" ELSE @,
                        !.result = IF Pipe THEN "launcher_handle_failed"
                                   ELSE "transfer_failed"]
    /\ UNCHANGED <<asked, helper>>

-----------------------------------------------------------------------------
(* The helper.                                                             *)

HelperAlive == helper.at \in {"starting", "listening", "request", "responded"}

SpawnThrows ==
    /\ At("spawn")
    /\ hs' = [hs EXCEPT !.at = "cleanWriter",
                        !.result = IF Pipe THEN "probe_start_failed"
                                   ELSE "worker_start_failed"]
    /\ UNCHANGED <<asked, helper>>

\* The pipe's client begins to connect in the same turn.
HelperSpawned ==
    /\ At("spawn")
    /\ helper' = [helper EXCEPT !.at = "starting"]
    /\ hs' = [hs EXCEPT !.at = "waiting",
                        !.client = IF Pipe THEN "connecting" ELSE @]
    /\ UNCHANGED asked

\* The error event: no process came to be.
SpawnErrors ==
    /\ helper.at = "starting"
    /\ helper' = [helper EXCEPT !.at = "failed"]
    /\ UNCHANGED <<asked, hs>>

HelperListens ==
    /\ Pipe /\ helper.at = "starting"
    /\ helper' = [helper EXCEPT !.at = "listening"]
    /\ UNCHANGED <<asked, hs>>

\* The launcher is read to its end and compared with the request, the tokens
\* and the paths are looked at, and ok is written while the client listens.
HelperVerifies ==
    /\ Pipe /\ helper.at = "request" /\ hs.client = "connected"
    /\ hs.content = asked.named
    /\ helper' = [helper EXCEPT !.at = "responded", !.read = hs.content]
    /\ hs' = [hs EXCEPT !.client = "acked"]
    /\ UNCHANGED asked

HelperReports ==
    /\ Pipe /\ helper.at = "responded"
    /\ \E f \in Facts : helper' = [helper EXCEPT !.at = "exited",
                                                !.out = "facts", !.facts = f]
    /\ UNCHANGED <<asked, hs>>

\* The worker of the other transport.
WorkerReports ==
    /\ ~Pipe /\ helper.at = "starting"
    /\ helper' = [helper EXCEPT !.at = "exited", !.read = hs.content,
                    !.out = IF hs.content = asked.named THEN "facts" ELSE "error"]
    /\ UNCHANGED <<asked, hs>>

\* It fails at any stage, is killed, or ends well with what no parser takes.
HelperDies ==
    /\ HelperAlive
    /\ \E out \in {"error", "garbage"} :
            helper' = [helper EXCEPT !.at = "exited", !.out = out]
    /\ UNCHANGED <<asked, hs>>

\* More output than the limit: it is killed, its end is still awaited.
HelperFloods ==
    /\ HelperAlive /\ ~helper.flood
    /\ helper' = [helper EXCEPT !.flood = TRUE, !.killed = TRUE]
    /\ hs' = IF ~Pipe /\ At("waiting") /\ hs.abort = "none"
               THEN [hs EXCEPT !.abort = "invalid_worker_output"]
               ELSE hs
    /\ UNCHANGED asked

-----------------------------------------------------------------------------
(* The pipe's client.                                                      *)

ClientTo(s) ==
    /\ hs' = [hs EXCEPT !.client = s]
    /\ UNCHANGED <<asked, helper>>

ClientConnects ==
    /\ hs.client = "connecting" /\ helper.at = "listening"
    /\ hs' = [hs EXCEPT !.client = "connected"]
    /\ helper' = [helper EXCEPT !.at = "request"]
    /\ UNCHANGED asked

\* There is no pipe yet or no longer, or its server went away.
ClientErrors ==
    /\ \/ hs.client = "connecting" /\ helper.at # "listening"
       \/ hs.client \in {"connected", "acked"} /\ ~HelperAlive
    /\ ClientTo(IF hs.late THEN "failed" ELSE "retry")

ClientRetries == hs.client = "retry" /\ ClientTo("connecting")

\* A second without traffic destroys the socket.  That is no error and no
\* end: nothing settles this client any more but abort().
ClientIdles ==
    /\ hs.client \in {"connecting", "connected", "acked"}
    /\ ClientTo("lost")

\* The server closed its end, after ok or without it.
ClientEnds ==
    \/ hs.client = "acked" /\ ClientTo("ok")
    \/ hs.client = "connected" /\ ~HelperAlive /\ ClientTo("failed")

ClientSettled == hs.client \in {"ok", "failed", "aborted"}

-----------------------------------------------------------------------------
(* The end of a session.                                                   *)

HelperEnded == helper.at \in {"failed", "exited"}

(* What the parent concludes once both have settled.  The one good end is  *)
(* the refusal of a peer that is verified to be the same user.             *)
PipeVerdict ==
    LET code == authorizeHelperRequest(asked,
                    evaluateWindowsHelperPeerEvidence(helper.facts))
    IN  IF helper.at = "failed" THEN "probe_start_failed"
        ELSE IF helper.flood THEN "process_output_too_large"
        ELSE IF helper.out = "error" THEN "probe_failed"
        ELSE IF hs.client = "failed" THEN "client_failed"
        ELSE IF helper.out = "garbage" THEN "invalid_probe_output"
        ELSE IF code = "same_principal_rejected" THEN code
        ELSE "unexpected_authorization_result"

AllSettled ==
    /\ Pipe /\ At("waiting") /\ ClientSettled /\ HelperEnded
    /\ hs' = [hs EXCEPT !.at = "cleanReader", !.result = PipeVerdict]
    /\ UNCHANGED <<asked, helper>>

DeadlinePasses ==
    /\ helper.at # "none" /\ ~hs.late
    /\ hs' = [hs EXCEPT !.late = TRUE]
    /\ UNCHANGED <<asked, helper>>

\* Mutant: the helper is killed, the client goes on trying.
TimesOutWithoutAbort ==
    /\ Pipe /\ At("waiting") /\ hs.late
    /\ helper' = [helper EXCEPT !.killed = TRUE]
    /\ hs' = [hs EXCEPT !.at = "cleanReader", !.result = "session_timeout"]
    /\ UNCHANGED asked

\* Mutant: a helper that has ended needs no deadline.
TimesOutForHelper ==
    /\ Pipe /\ At("waiting") /\ hs.late /\ ~HelperEnded
    /\ helper' = [helper EXCEPT !.killed = TRUE]
    /\ hs' = [hs EXCEPT !.at = "cleanReader", !.result = "session_timeout",
                        !.client = IF ClientSettled THEN @ ELSE "aborted"]
    /\ UNCHANGED asked

SessionTimesOut ==
    /\ Pipe /\ At("waiting") /\ hs.late
    /\ helper' = [helper EXCEPT !.killed = TRUE]
    /\ hs' = [hs EXCEPT !.at = "cleanReader", !.result = "session_timeout",
                        !.client = IF ClientSettled THEN @ ELSE "aborted"]
    /\ UNCHANGED asked

\* The first of a timeout, a broken stdin and too much output kills the worker.
AbortWorker(code) ==
    /\ ~Pipe /\ At("waiting") /\ hs.abort = "none"
    /\ hs' = [hs EXCEPT !.abort = code]
    /\ helper' = [helper EXCEPT !.killed = TRUE]
    /\ UNCHANGED asked

WorkerTimesOut == hs.late /\ AbortWorker("worker_timeout")

StdinBreaks ==
    /\ helper.at = "exited" /\ helper.read = "empty"
    /\ AbortWorker("worker_failed")

\* Its end, or one second after the kill without it.
WorkerSettles(result) ==
    /\ ~Pipe /\ At("waiting")
    /\ hs' = [hs EXCEPT !.at = "cleanWriter", !.result = result]
    /\ UNCHANGED <<asked, helper>>

WorkerCloses ==
    \/ /\ helper.at = "exited"
       /\ WorkerSettles(IF hs.abort # "none" THEN hs.abort
                        ELSE CASE helper.out = "error" -> "worker_failed"
                               [] helper.out = "garbage" -> "invalid_worker_output"
                               [] OTHER -> "verified")
    \/ helper.at = "failed" /\ WorkerSettles("worker_start_failed")

\* One second after the kill.  The error event leaves this timer running; it
\* then finds the promise settled and changes nothing.
GraceEnds == hs.abort # "none" /\ WorkerSettles(hs.abort)

\* Errors of the cleanup are swallowed.
CleanHandles ==
    /\ \/ At("cleanWriter") /\ hs' = [hs EXCEPT !.at = "cleanReader", !.writer = FALSE]
       \/ At("cleanReader") /\ hs' = [hs EXCEPT !.at = "cleanName", !.reader = FALSE]
    /\ UNCHANGED <<asked, helper>>

CleanName ==
    /\ At("cleanName")
    /\ \E gone \in BOOLEAN :
            hs' = [hs EXCEPT !.at = "over", !.name = @ /\ ~gone,
                             !.stuck = hs.name /\ ~gone]
    /\ UNCHANGED <<asked, helper>>

-----------------------------------------------------------------------------
MakeHandle == WriterOpened \/ LauncherWritten \/ ReaderOpened \/ NameUnlinked
              \/ WriterClosed \/ HandleFails

Helper == SpawnErrors \/ HelperListens \/ HelperVerifies \/ HelperReports
          \/ WorkerReports \/ HelperDies \/ HelperFloods

Client == ClientConnects \/ ClientErrors \/ ClientRetries \/ ClientIdles
          \/ ClientEnds

Parent == RequestChecked \/ MakeHandle \/ SpawnThrows \/ HelperSpawned
          \/ AllSettled \/ DeadlinePasses \/ SessionTimesOut \/ WorkerTimesOut
          \/ StdinBreaks \/ WorkerCloses \/ GraceEnds \/ CleanHandles \/ CleanName

SessionNext == Parent \/ Helper \/ Client

HelperSessionSpec == SessionInit /\ [][SessionNext]_helperVars

\* File calls settle and timers fire; nothing is assumed of the helper.
SessionFair == WF_helperVars(Parent)

-----------------------------------------------------------------------------
(* A session that is over holds no handle, no name it could remove and no  *)
(* socket, its client is settled, and its helper has ended or was killed.  *)
HelperLeavesNothing ==
    At("over") =>
        /\ ~hs.writer /\ ~hs.reader /\ (hs.name => hs.stuck)
        /\ hs.client = "none" \/ ClientSettled
        /\ HelperAlive => helper.killed

(* A session succeeds only if a helper that ended well read, through the   *)
(* handle, the launcher the request names, and only by refusing its user.  *)
SuccessIsEarned ==
    hs.result \in {"verified", "same_principal_rejected"} =>
        /\ helper.at = "exited" /\ helper.read = asked.bytes
        /\ asked.named = asked.bytes
        /\ Pipe => hs.client = "ok" /\ helper.facts.same

HelperSessionIsSound == HelperLeavesNothing /\ SuccessIsEarned

(* Every session ends, with a client no event will settle, a helper that   *)
(* never ends, or both.                                                    *)
HelperSessionsSettle == ~At("check") ~> At("over")
=============================================================================
