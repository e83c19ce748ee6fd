----------------------------- MODULE StressHarness -----------------------------
(***************************************************************************)
(* The stress test's driver (scripts/tulip-pcap-stress.py).  It points the *)
(* rsync deployment at a daemon of its own, brings up a chain of child     *)
(* processes (local rsync daemon, kubectl port-forward, ssh tunnel, the    *)
(* generator of PcapGenerator), waits for the last of them, and takes      *)
(* everything down in a finally clause, whatever ended the run.            *)
(*                                                                         *)
(* Around it: the cluster, whose deployment has an RSYNC_SOURCE and whose  *)
(* pod is another one after every patch or eviction; calls and processes   *)
(* that fail; and interrupts (SIGINT, or SIGTERM, which main turns into    *)
(* the same exception), which arrive between any two steps, those of the   *)
(* cleanup included.  A kill that leaves no time to clean up is not here.  *)
(***************************************************************************)
EXTENDS PcapGenerator

CONSTANTS MaxInterrupts,    \* bound: interrupts
          MaxFaults         \* bound: failing calls, dying children, evicted pods

ASSUME HarnessAssumption == MaxInterrupts \in Nat /\ MaxFaults \in Nat

Procs == {"rsync", "forward", "ssh", "generator"}

\* The order run starts them in; cleanup terminates them the other way round.
After == [p \in Procs |-> CASE p = "rsync" -> "forward" [] p = "forward" -> "ssh"
                            [] p = "ssh" -> "generator" [] p = "generator" -> "none"]
Before == [p \in Procs |-> CASE p = "generator" -> "ssh" [] p = "ssh" -> "forward"
                             [] p = "forward" -> "rsync" [] p = "rsync" -> "none"]

Running == {"prepare", "read", "patch", "mark", "rollout", "pod", "sshd", "exec",
            "spawn", "hold", "wait"}
Cleaning == {"stop", "unsshd", "restore", "settle", "files"}

\* Values of RSYNC_SOURCE: what the deployment had ("unset" when it had none), the stress
\* test's daemon, and the address run puts in where it read nothing.
Sources == {"original", "unset", "stress", "fallback"}

VARIABLES no_restore,       \* --no-restore
          pc,               \* where run or cleanup is
          child,            \* the child that step is about
          alive,            \* child processes that run
          held,             \* children in self.*_proc
          source,           \* RSYNC_SOURCE of the deployment
          old_rsync_source, \* self.old_rsync_source, "" before it is read
          restore_source,   \* self.restore_source
          pod,              \* number of the deployment's current pod
          rsync_pod,        \* self.rsync_pod, 0 before it is known
          script,           \* number of the pod in which start-in-pod-sshd.sh runs, 0: none
          sshd,             \* number of the last pod an sshd was started in, 0: none, or stopped
          interrupts,       \* interrupts so far
          faults,           \* failures so far
          excuses           \* what kept cleanup from its work: an interrupt ("cut"), its exec
                            \* ("exec"), its patch ("patch"), a file of its own ("file"), a
                            \* script that was still on its way to the sshd ("late")

harnessVars == <<no_restore, pc, child, alive, held, source, old_rsync_source, restore_source,
                 pod, rsync_pod, script, sshd, interrupts, faults, excuses>>
vars == <<genVars, harnessVars>>

Init == /\ GenInit
        /\ no_restore \in BOOLEAN
        /\ pc = "prepare" /\ child = "none"
        /\ alive = {} /\ held = {}
        /\ source \in {"original", "unset"}
        /\ old_rsync_source = "" /\ restore_source = FALSE
        /\ pod = 1 /\ rsync_pod = 0 /\ script = 0 /\ sshd = 0
        /\ interrupts = 0 /\ faults = 0 /\ excuses = {}

inPod == <<script, sshd>>
cluster == <<source, pod, inPod>>
flags == <<old_rsync_source, restore_source, rsync_pod>>
bounds == <<interrupts, faults, excuses, no_restore>>

Goto(stage, c) == pc' = stage /\ child' = c

\* The finally clause of main: cleanup begins with the generator.
Leave == Goto("stop", "generator")
--------------------------------------------------------------------------------
\* require_command, the deployment exists, its selector, ensure_key.
Prepare == /\ pc = "prepare"
           /\ Goto("read", "none")
           /\ UNCHANGED <<genVars, alive, held, cluster, flags, bounds>>

\* ReadSource that keeps an empty answer.
ReadSourceAsIs == /\ pc = "read"
                  /\ old_rsync_source' = source
                  /\ Goto("patch", "none")
                  /\ UNCHANGED <<genVars, alive, held, cluster, restore_source, rsync_pod, bounds>>

\* The source is read; an address of its own stands in for an empty answer.
ReadSource == /\ pc = "read"
              /\ old_rsync_source' = IF source = "unset" THEN "fallback" ELSE source
              /\ Goto("patch", "none")
              /\ UNCHANGED <<genVars, alive, held, cluster, restore_source, rsync_pod, bounds>>

\* patch_rsync_source, as the API server sees it: a new source, and a new pod for it.
patch_rsync_source(to) == source' = to /\ pod' = pod + 1

PatchSource == /\ pc = "patch"
               /\ patch_rsync_source("stress")
               /\ Goto("mark", "none")
               /\ UNCHANGED <<genVars, alive, held, inPod, flags, bounds>>

\* kubectl has returned, and run notes that there is something to restore.
MarkPatched == /\ pc = "mark"
               /\ restore_source' = TRUE
               /\ Goto("rollout", "none")
               /\ UNCHANGED <<genVars, alive, held, cluster, old_rsync_source, rsync_pod, bounds>>

RolloutDone == /\ pc = "rollout"
               /\ Goto("pod", "none")
               /\ UNCHANGED <<genVars, alive, held, cluster, flags, bounds>>

wait_for_rsync_pod == /\ pc = "pod"
                      /\ rsync_pod' = pod
                      /\ Goto("sshd", "none")
                      /\ UNCHANGED <<genVars, alive, held, cluster, old_rsync_source,
                                     restore_source, bounds>>

\* The script goes to the pod that was found, if it is still there.
start_in_pod_sshd == /\ pc = "sshd"
                     /\ rsync_pod = pod
                     /\ script' = pod
                     /\ Goto("exec", "none")
                     /\ UNCHANGED <<genVars, alive, held, source, pod, sshd, flags, bounds>>

\* kubectl exec returns when the script has ended.
ExecReturns == /\ pc = "exec"
               /\ script = 0 /\ sshd = pod
               /\ Goto("spawn", "rsync")
               /\ UNCHANGED <<genVars, alive, held, cluster, flags, bounds>>

\* Popen has forked; only the next step keeps the handle.
Spawn == /\ pc = "spawn"
         /\ alive' = alive \cup {child}
         /\ Goto("hold", child)
         /\ UNCHANGED <<genVars, held, cluster, flags, bounds>>

Hold == /\ pc = "hold"
        /\ held' = held \cup {child}
        /\ Goto("wait", child)
        /\ UNCHANGED <<genVars, alive, cluster, flags, bounds>>

\* wait_for_tcp is content with anything that listens, wait_for_port_forward with a line
\* in the log, but start_reverse_tunnel looks at the process.  For the generator, wait
\* returns when it has ended, and its exit code must be 0.
Ready == /\ pc = "wait"
         /\ child = "ssh" => child \in alive
         /\ child = "generator" => child \notin alive /\ gpc = "ended"
         /\ IF child = "generator" THEN Leave ELSE Goto("spawn", After[child])
         /\ UNCHANGED <<genVars, alive, held, cluster, flags, bounds>>

\* An exception in run: a call that fails or times out, before or after it has had its
\* effect, or a child that is found dead.
Raise == /\ pc \in Running \ {"hold"}
         /\ faults < MaxFaults \/ (pc \in {"sshd", "exec"} /\ rsync_pod # pod)
              \/ (pc = "wait" /\ child \notin alive)
         /\ faults' = IF faults < MaxFaults THEN faults + 1 ELSE faults
         /\ Leave
         /\ UNCHANGED <<genVars, alive, held, cluster, flags, interrupts, excuses, no_restore>>
--------------------------------------------------------------------------------
\* terminate_process that would wait for the child without a signal to it.
TerminateByWaiting ==
    /\ pc = "stop"
    /\ child \in held => child \notin alive
    /\ IF child = "rsync" THEN Goto("unsshd", "none") ELSE Goto("stop", Before[child])
    /\ UNCHANGED <<genVars, alive, held, cluster, flags, bounds>>

\* terminate_process: a child whose handle is there is gone afterwards.
Terminate == /\ pc = "stop"
             /\ alive' = IF child \in held THEN alive \ {child} ELSE alive
             /\ IF child = "rsync" THEN Goto("unsshd", "none") ELSE Goto("stop", Before[child])
             /\ UNCHANGED <<genVars, held, cluster, flags, bounds>>

\* The shell that cleanup starts in the pod run found: the sshd whose PidFile is there is
\* gone.  A script that has not come to its last line yet has written none.
StopsSshd == IF rsync_pod # 0 /\ rsync_pod = pod
               THEN /\ sshd' = 0
                    /\ excuses' = IF script = pod THEN excuses \cup {"late"} ELSE excuses
               ELSE UNCHANGED <<sshd, excuses>>

\* StopSshd that asks for its exec's exit code, so that a failure ends the cleanup.
StopSshdChecked ==
    /\ pc = "unsshd"
    /\ \/ StopsSshd /\ Goto("restore", "none") /\ UNCHANGED faults
       \/ /\ faults < MaxFaults /\ rsync_pod # 0
          /\ faults' = faults + 1 /\ excuses' = excuses \cup {"exec"}
          /\ Goto("over", "none")
          /\ UNCHANGED sshd
    /\ UNCHANGED <<genVars, alive, held, source, pod, script, flags, interrupts, no_restore>>

\* The exec into the pod that was found; its failure goes unnoticed.
StopSshd == /\ pc = "unsshd"
            /\ \/ StopsSshd /\ UNCHANGED faults
               \/ /\ faults < MaxFaults /\ rsync_pod # 0
                  /\ faults' = faults + 1 /\ excuses' = excuses \cup {"exec"}
                  /\ UNCHANGED sshd
            /\ Goto("restore", "none")
            /\ UNCHANGED <<genVars, alive, held, source, pod, script, flags, interrupts, no_restore>>

ToRestore == restore_source /\ ~no_restore

LeaveSource == /\ pc = "restore" /\ ~ToRestore
               /\ Goto("files", "none")
               /\ UNCHANGED <<genVars, alive, held, cluster, flags, bounds>>

RestoreSource == /\ pc = "restore" /\ ToRestore
                 /\ patch_rsync_source(old_rsync_source)
                 /\ Goto("settle", "none")
                 /\ UNCHANGED <<genVars, alive, held, inPod, flags, bounds>>

\* kubectl patch fails, with or without its effect: the one error that is let go of.
RestoreRefused ==
    /\ pc = "restore" /\ ToRestore
    /\ faults < MaxFaults
    /\ faults' = faults + 1 /\ excuses' = excuses \cup {"patch"}
    /\ patch_rsync_source(old_rsync_source) \/ UNCHANGED <<source, pod>>
    /\ Goto("files", "none")
    /\ UNCHANGED <<genVars, alive, held, inPod, flags, interrupts, no_restore>>

\* The template cannot be read or the patch file not be written (a full disk): an OSError,
\* which nobody catches, and cleanup ends here.
RestoreUnwritten ==
    /\ pc = "restore" /\ ToRestore
    /\ faults < MaxFaults
    /\ faults' = faults + 1 /\ excuses' = excuses \cup {"file"}
    /\ Goto("over", "none")
    /\ UNCHANGED <<genVars, alive, held, cluster, flags, interrupts, no_restore>>

\* rollout status after the restore, whatever it says.
RestoreSettled == /\ pc = "settle"
                  /\ Goto("files", "none")
                  /\ UNCHANGED <<genVars, alive, held, cluster, flags, bounds>>

\* Four files of the state directory are unlinked, and the program ends.  The pair of keys
\* that ensure_key made, and the file of a patch that failed, are not among them, so rmdir
\* refuses and both directories stay, also where --keep-output was not given.  No property
\* is about files: they are left out.
RemoveFiles == /\ pc = "files"
               /\ Goto("over", "none")
               /\ UNCHANGED <<genVars, alive, held, cluster, flags, bounds>>
--------------------------------------------------------------------------------
\* KeyboardInterrupt: run is left for cleanup, and cleanup is left for good.
Interrupt ==
    /\ interrupts < MaxInterrupts
    /\ interrupts' = interrupts + 1
    /\ \/ pc \in Running /\ Leave /\ UNCHANGED excuses
       \/ pc \in Cleaning /\ Goto("over", "none") /\ excuses' = excuses \cup {"cut"}
    /\ UNCHANGED <<genVars, alive, held, cluster, flags, faults, no_restore>>

\* A child dies by itself.
Die(c) == /\ c \in alive /\ faults < MaxFaults
          /\ alive' = alive \ {c}
          /\ faults' = faults + 1
          /\ UNCHANGED <<genVars, pc, child, held, cluster, flags, interrupts, excuses, no_restore>>

\* The cluster replaces the pod while the run needs it.
Evict == /\ faults < MaxFaults
         /\ pc \in Running \cup {"unsshd"}
         /\ pod' = pod + 1
         /\ faults' = faults + 1
         /\ UNCHANGED <<genVars, pc, child, alive, held, source, inPod, flags,
                        interrupts, excuses, no_restore>>

\* The script comes to its last line, in a pod that is still there: an sshd of an earlier
\* run was stopped on the way, and the new one runs and has written its PidFile.  Whoever
\* started the script may have been interrupted meanwhile, and its cleanup be over.
SshdStarts == /\ script # 0 /\ script = pod
              /\ sshd' = script
              /\ script' = 0
              /\ UNCHANGED <<genVars, pc, child, alive, held, source, pod, flags, bounds>>

\* The generator takes a step of its own, and its process ends after the last one.
Generate == /\ "generator" \in alive
            /\ \/ GenStep /\ UNCHANGED alive
               \/ Tick /\ UNCHANGED alive
               \/ gpc = "ended" /\ alive' = alive \ {"generator"} /\ UNCHANGED genVars
            /\ UNCHANGED <<pc, child, held, cluster, flags, bounds>>

RunStep == \/ Prepare \/ ReadSource \/ PatchSource \/ MarkPatched \/ RolloutDone
           \/ wait_for_rsync_pod \/ start_in_pod_sshd \/ ExecReturns
           \/ Spawn \/ Hold \/ Ready \/ Raise
CleanStep == \/ Terminate \/ StopSshd
             \/ LeaveSource \/ RestoreSource \/ RestoreRefused \/ RestoreUnwritten
             \/ RestoreSettled \/ RemoveFiles

Next == \/ RunStep \/ CleanStep \/ Interrupt
        \/ (\E c \in Procs : Die(c)) \/ Evict \/ SshdStarts \/ Generate

Spec == Init /\ [][Next]_vars

\* Every call returns in the end: those of run and cleanup have time-outs, or the API
\* server's, and the script that an exec waits for does nothing that lasts.  What goes on in
\* the pod when nobody waits any more need not come to an end.  The generator works while
\* it lives.
FairSpec == /\ Spec
            /\ WF_vars(RunStep) /\ WF_vars(CleanStep) /\ WF_vars(Generate)
            /\ WF_vars(pc = "exec" /\ SshdStarts)
--------------------------------------------------------------------------------
TypeOK == /\ GenTypeOK
          /\ no_restore \in BOOLEAN
          /\ pc \in Running \cup Cleaning \cup {"over"}
          /\ child \in Procs \cup {"none"}
          /\ alive \subseteq Procs /\ held \subseteq Procs
          /\ source \in Sources
          /\ old_rsync_source \in {"", "original", "fallback"}
          /\ restore_source \in BOOLEAN
          /\ pod \in Nat \ {0} /\ rsync_pod \in Nat /\ script \in Nat /\ sshd \in Nat
          /\ interrupts \in 0..MaxInterrupts /\ faults \in 0..MaxFaults
          /\ excuses \subseteq {"cut", "exec", "patch", "file", "late"}

\* What became of the pod and of the source: the patch of cleanup was not asked for or did
\* not come through.
PatchExcused == no_restore \/ excuses \cap {"patch", "file"} # {}

\* When the program is over and nothing has interrupted cleanup, no child is left but the
\* one whose Popen was interrupted before its handle was kept.  An sshd is left in the pod
\* only if cleanup's exec failed, or came while the script of an interrupted or failed
\* start_in_pod_sshd was still on its way to it; and even then only if cleanup has not
\* replaced the pod by putting the source back.
NothingLeftRunning ==
    pc = "over" /\ "cut" \notin excuses =>
        /\ alive \cap held = {}
        /\ \A c, d \in alive : c = d
        /\ sshd = pod => excuses \cap {"exec", "late"} # {} /\ PatchExcused

\* When the program is over, the deployment reads from the stress test only for one of
\* these reasons: it was told to leave it so, cleanup was cut short, its patch failed or
\* could not be written, or the run ended between the patch and the note that it was made.
\* That the exec before it failed is none of them.
SourcePutBack ==
    pc = "over" /\ restore_source /\ "cut" \notin excuses /\ ~PatchExcused
        => source = old_rsync_source

\* Whichever of the steps of cleanup fail, whenever an interrupt comes: cleanup undoes what
\* the run has done.
CleansUp == NothingLeftRunning /\ SourcePutBack

\* Whatever it waits for, an interrupt brings the program to its end, and so does the
\* end of a bounded run.
EndsWhenAsked == interrupts > 0 \/ duration # 0 ~> pc = "over"

================================================================================
