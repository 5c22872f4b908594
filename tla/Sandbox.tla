------------------------------- MODULE Sandbox -------------------------------
(***************************************************************************)
(* The tools that run commands: bash (host/tools/bash.ts), in a container  *)
(* by DockerSandbox.execute (host/sandbox/docker.ts) or as a process, and  *)
(* the git tools (host/tools/git.ts).  A call waits at its                 *)
(* awaits; meanwhile the daemon works, the command runs, the timer fires   *)
(* and its kill is on its way.                                             *)
(***************************************************************************)
EXTENDS Naturals

CONSTANTS
  Calls,          \* calls of the tool
  Contained,      \* those of a tool made with a sandbox
  Git             \* those of host/tools/git.ts: native, and without a timeout

ASSUME SandboxAssumption == Contained \cup Git \subseteq Calls /\ Contained \cap Git = {}

VARIABLE bash

Uncalled == [at |-> "idle", box |-> "none", timer |-> "off", killing |-> FALSE,
             struck |-> FALSE, kept |-> FALSE, lost |-> FALSE, outcome |-> "none"]

SandboxInit == bash = [c \in Calls |-> Uncalled]

Set(c, r) == bash' = [bash EXCEPT ![c] = r]
At(c, place) == bash[c].at = place

\* The call goes on to place.
Goes(c, place) == [bash[c] EXCEPT !.at = place]

\* finally: the timer is cleared; a call that was given no container is over, and
\* what the daemon made of its request is lost.
Finally(c, outcome) ==
  Set(c, [bash[c] EXCEPT !.outcome = outcome, !.timer = IF @ = "armed" THEN "off" ELSE @,
                         !.lost = At(c, "creating"),
                         !.at = IF At(c, "creating") THEN "settled" ELSE "removing"])

\* The handler: no command, or execute in the sandbox or natively.
NoCommand(c) ==
  /\ At(c, "idle") /\ c \notin Git
  /\ Set(c, [Goes(c, "settled") EXCEPT !.outcome = "ERROR"])

Call(c) ==
  /\ At(c, "idle") /\ c \notin Git
  /\ IF c \in Contained
       THEN Set(c, [Goes(c, "creating") EXCEPT !.timer = "armed"])
       ELSE Set(c, [Goes(c, "waiting") EXCEPT !.box = "running", !.timer = "armed"])

\* A git tool: a process that nothing is going to end.
GitCall(c) ==
  /\ At(c, "idle") /\ c \in Git
  /\ Set(c, [Goes(c, "waiting") EXCEPT !.box = "running"])

\* createContainer: the daemon makes one, and answers; start is asked for at once.
Creates(c) ==
  /\ At(c, "creating") /\ bash[c].box = "none"
  /\ Set(c, [bash[c] EXCEPT !.box = "created"])

Created(c) ==
  /\ At(c, "creating") /\ bash[c].box = "created"
  /\ Set(c, Goes(c, "starting"))

\* The daemon starts the command, and answers.
Starts(c) ==
  /\ At(c, "starting") /\ bash[c].box = "created"
  /\ Set(c, [bash[c] EXCEPT !.box = "running"])

Started(c) ==
  /\ At(c, "starting") /\ bash[c].box # "created"
  /\ Set(c, Goes(c, "waiting"))

\* The daemon answers with an error, whatever it has done.
DaemonFails(c) ==
  /\ c \in Contained
  /\ bash[c].at \in {"creating", "starting", "waiting", "reading"}
  /\ Finally(c, "ERROR")

\* It does what it was asked for after the call has been told of an error.
HappensLate(c) ==
  \/ /\ bash[c].lost /\ bash[c].box = "none"
     /\ Set(c, [bash[c] EXCEPT !.box = "created"])
  \/ /\ bash[c].at \in {"removing", "settled"} /\ ~bash[c].lost /\ bash[c].box = "created"
     /\ Set(c, [bash[c] EXCEPT !.box = "running"])

\* The command ends by itself.
Ends(c) ==
  /\ bash[c].box = "running"
  /\ Set(c, [bash[c] EXCEPT !.box = "ended"])

\* The timeout: while the container is being created there is nothing to kill.
TimerFires(c) ==
  /\ bash[c].timer = "armed"
  /\ Set(c, [bash[c] EXCEPT !.timer = "fired", !.killing = ~At(c, "creating")])

\* The kill arrives, or is lost; what does not run, or a native command that does
\* not obey, it leaves alone.
KillLands(c) ==
  /\ bash[c].killing
  /\ Set(c, IF bash[c].box = "running"
              THEN [bash[c] EXCEPT !.killing = FALSE, !.box = "ended", !.struck = TRUE]
              ELSE [bash[c] EXCEPT !.killing = FALSE])

KillFails(c) ==
  /\ bash[c].killing
  /\ Set(c, [bash[c] EXCEPT !.killing = FALSE])

\* Mutant: what ended is read whatever ended it.
WaitedAnyhow(c) ==
  /\ c \in Contained /\ At(c, "waiting") /\ bash[c].box = "ended"
  /\ Set(c, Goes(c, "reading"))

\* wait: a command that outlived its time is an error.
Waited(c) ==
  /\ c \in Contained /\ At(c, "waiting") /\ bash[c].box = "ended"
  /\ IF bash[c].timer = "fired" THEN Finally(c, "ERROR") ELSE Set(c, Goes(c, "reading"))

\* logs, cut off at the first frame that is not whole.
Read(c) == At(c, "reading") /\ Finally(c, "SUCCESS")

\* remove by force; an error is ignored, and the container stays.
Removed(c) ==
  /\ At(c, "removing")
  /\ Set(c, [Goes(c, "settled") EXCEPT !.box = "removed"])

NotRemoved(c) ==
  /\ At(c, "removing")
  /\ Set(c, [Goes(c, "settled") EXCEPT !.kept = TRUE])

\* exec calls back when the process is gone: a signal or a status is an error, but
\* what catches the signal of the timeout and exits with 0 is none.
Exited(c) ==
  /\ c \notin Contained /\ At(c, "waiting") /\ bash[c].box = "ended"
  /\ \E outcome \in {"SUCCESS", "ERROR"} :
       Set(c, [Goes(c, "settled") EXCEPT
                 !.outcome = outcome, !.timer = IF @ = "armed" THEN "off" ELSE @,
                 !.box = "removed"])

\* What awaits goes on, and the kill arrives.
GoesOn(c) ==
  \/ Creates(c) \/ Created(c) \/ Starts(c) \/ Started(c) \/ KillLands(c)
  \/ Waited(c) \/ Read(c) \/ Removed(c) \/ Exited(c)

SandboxGoesOn ==
  \E c \in Calls :
    \/ GoesOn(c) \/ Ends(c) \/ TimerFires(c) \/ KillFails(c)
    \/ DaemonFails(c) \/ HappensLate(c) \/ NotRemoved(c)

SandboxNext == SandboxGoesOn \/ (\E c \in Calls : NoCommand(c) \/ Call(c) \/ GitCall(c))

\* The daemon and the event loop go on; a command need not end, nothing need fail.
SandboxSpec ==
  /\ SandboxInit /\ [][SandboxNext]_bash
  /\ \A c \in Calls : WF_bash(GoesOn(c)) /\ WF_bash(TimerFires(c))

-----------------------------------------------------------------------------
\* However the timer, the kill, the command and the daemon race: the output of a
\* command whose container was killed is never given as a success; a settled call
\* has left no container behind, unless its removal failed, or the daemon made one
\* and its answer was lost, and in that one nothing ever runs; and it has left no
\* timer that could still kill.
SettledCallsAreClean ==
  \A c \in Calls :
    At(c, "settled") =>
      /\ c \in Contained /\ bash[c].outcome = "SUCCESS" => ~bash[c].struck
      /\ \/ bash[c].box \in {"none", "removed"}
         \/ bash[c].kept
         \/ bash[c].lost /\ bash[c].box = "created"
      /\ bash[c].timer # "armed"

\* docker.test.ts:21: "enforces strict timeout and kills runaway processes"
RunawaysAreKilled == \A c \in Contained : bash[c].timer = "fired" ~> At(c, "settled")
=============================================================================
