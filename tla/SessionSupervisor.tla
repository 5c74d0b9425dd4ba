-------------------------- MODULE SessionSupervisor --------------------------
(***************************************************************************)
(* The owner of a LinuxCNC session (session/mod.rs): it makes itself the   *)
(* subreaper of everything the session forks, spawns LinuxCNC, names the   *)
(* children it finds, reaps them in any order, and returns when none is    *)
(* left. Processes fork, end and hand their children over, and the kernel  *)
(* gives a pid out again as soon as its last holder has been reaped.       *)
(***************************************************************************)
EXTENDS Naturals

CONSTANTS Pids,
          MaxProcesses,   \* bound: processes ever created
          MaxFaults,      \* bound: calls of the supervisor that fail
          None

AfterSpawn == {"ok", "captureError", "journalAfterSpawn", "statusMissing"}
Results == AfterSpawn \cup {"journalError", "startupError"}

ASSUME SessionAssumption ==
  /\ MaxProcesses \in Nat /\ MaxFaults \in Nat
  /\ "supervisor" \notin Pids /\ "init" \notin Pids
  /\ None \notin Nat /\ None \notin Pids /\ None \notin Results
  /\ None \notin [id: Nat, ended: BOOLEAN, parent: Pids \cup {"supervisor", "init"}]

VARIABLES process,        \* the kernel's table: who holds each pid
          created,        \* how many processes there have been
          subreaper,      \* the supervisor's PR_SET_CHILD_SUBREAPER
          stage,          \* where the supervisor is in supervise()
          captures,       \* a failure report is asked for and its pipes are read
          root,           \* linuxcnc_pid
          children,       \* whom the supervisor takes each pid for
          listed,         \* the pids of this scan that are still to be looked at
          status,         \* linuxcnc_status: the process whose exit it is
          failed,         \* what has gone wrong since the spawn
          result,
          faults

kernel == <<process, created, subreaper>>
vars == <<process, created, subreaper, stage, captures, root, children, listed, status,
          failed, result, faults>>

Startup == <<"openJournal", "ownerIdentity", "coreLimit", "enableSubreaper",
             "verifySubreaper", "recordStart", "prepareCapture", "spawn">>
Loop == {"scan", "refresh", "reap", "finish"}
Startups == {Startup[i] : i \in 1..8}
Held(p) == process[p] # None
Running(p) == Held(p) /\ ~process[p].ended
Children == {p \in Pids : Held(p) /\ process[p].parent = "supervisor"}
-----------------------------------------------------------------------------
(* What the kernel and the processes of the session do.                     *)
Create(p, parent) ==
  /\ created < MaxProcesses /\ created' = created + 1
  /\ process' = [process EXCEPT ![p] = [id |-> created + 1, parent |-> parent, ended |-> FALSE]]

Outside == <<subreaper, stage, captures, root, children, listed, status, failed, result, faults>>

Fork ==
  /\ \E p, q \in Pids : Running(p) /\ ~Held(q) /\ Create(q, p)
  /\ UNCHANGED Outside

\* The children of a process that ends become the subreaper's.
Exit ==
  /\ \E p \in Pids :
       /\ Running(p)
       /\ process' = [q \in Pids |->
            CASE q = p -> [process[p] EXCEPT !.ended = TRUE]
              [] Held(q) /\ process[q].parent = p ->
                   [process[q] EXCEPT !.parent = IF subreaper THEN "supervisor" ELSE "init"]
              [] OTHER -> process[q]]
  /\ UNCHANGED <<created, Outside>>

ParentReaps ==
  /\ \E p \in Pids :
       /\ Held(p) /\ process[p].ended /\ process[p].parent \in Pids
       /\ process' = [process EXCEPT ![p] = None]
  /\ UNCHANGED <<created, Outside>>
-----------------------------------------------------------------------------
(* The supervisor.                                                          *)
TypeOK ==
  /\ process \in [Pids -> {None} \cup [id: 1..MaxProcesses, ended: BOOLEAN,
                                       parent: Pids \cup {"supervisor", "init"}]]
  /\ created \in 0..MaxProcesses /\ subreaper \in BOOLEAN /\ captures \in BOOLEAN
  /\ stage \in Startups \cup Loop \cup {"ended"}
  /\ root \in Pids \cup {None} /\ listed \subseteq Pids
  /\ children \in [Pids -> {None} \cup [since: 1..MaxProcesses,
                                        named: 1..MaxProcesses \cup {None}]]
  /\ status \in 1..MaxProcesses \cup {None}
  /\ failed \subseteq {"capture", "journal"}
  /\ result \in Results \cup {None} /\ faults \in 0..MaxFaults

Init ==
  /\ process = [p \in Pids |-> None] /\ created = 0 /\ subreaper = FALSE
  /\ stage = "openJournal" /\ captures \in BOOLEAN
  /\ root = None /\ children = [p \in Pids |-> None] /\ listed = {}
  /\ status = None /\ failed = {} /\ result = None /\ faults = 0

Fault == faults < MaxFaults /\ faults' = faults + 1

\* append_after_spawn: a record that fails is remembered, and nothing else.
AppendThen(alreadyFailed) ==
  \/ failed' = alreadyFailed /\ UNCHANGED faults
  \/ failed' = alreadyFailed \cup {"journal"} /\ Fault

Return(r) == stage' = "ended" /\ result' = r
Looping == UNCHANGED result

StartupStep ==
  \E i \in 1..7 :
    /\ stage = Startup[i] /\ stage' = Startup[i + 1]
    /\ subreaper' = (subreaper \/ stage = "enableSubreaper")
    /\ UNCHANGED <<process, created, captures, root, children, listed, status, failed,
                   result, faults>>

\* startup_error(), and the appends that fail before anything is spawned; a
\* clock that cannot be read counts as a record that fails.
StartupFails ==
  /\ stage \in Startups /\ Fault
  /\ Return(IF stage \in {"openJournal", "recordStart"} THEN "journalError" ELSE "startupError")
  /\ UNCHANGED <<kernel, captures, root, children, listed, status, failed>>

Observed(id, named) == [since |-> id, named |-> named]

\* LinuxCNC is spawned, the readers of its pipes are started, and it is the
\* first child: named by its role, not by what it looks like.
Spawn ==
  /\ stage = "spawn" /\ stage' = "scan" /\ Looping
  /\ \E p \in Pids :
       /\ Create(p, "supervisor")
       /\ root' = p
       /\ children' = [children EXCEPT ![p] = Observed(created', created')]
  /\ \/ AppendThen(failed) /\ UNCHANGED captures
     \/ captures /\ captures' = FALSE /\ Fault /\ failed' = {"capture"}
  /\ UNCHANGED <<subreaper, listed, status>>

\* direct_children: the list is not atomic, and may miss a child that others
\* come and go around.
Scan ==
  /\ stage = "scan" /\ stage' = "refresh" /\ Looping
  /\ listed' \in SUBSET Children
  /\ UNCHANGED <<kernel, captures, root, children, status, failed, faults>>

ScanFails ==
  /\ stage = "scan" /\ stage' = "reap" /\ Looping /\ Fault
  /\ UNCHANGED <<kernel, captures, root, children, listed, status, failed>>

\* identify(): a process that is going away may not be readable any more.
Identified(p) == {process[p].id, None}
MoreSpecific(named, child) == named # None /\ child.named = None

Refresh ==
  /\ stage = "refresh" /\ Looping
  /\ \E p \in listed : \E named \in Identified(p) :
       /\ listed' = listed \ {p}
       /\ IF children[p] = None
          THEN /\ children' = [children EXCEPT ![p] = Observed(process[p].id, named)]
               /\ AppendThen(failed)
          ELSE IF MoreSpecific(named, children[p])
          THEN /\ children' = [children EXCEPT ![p].named = named]
               /\ AppendThen(failed)
          ELSE UNCHANGED <<children, failed, faults>>
  /\ UNCHANGED <<kernel, stage, captures, root, status>>

Refreshed ==
  /\ stage = "refresh" /\ listed = {} /\ stage' = "reap" /\ Looping
  /\ UNCHANGED <<kernel, captures, root, children, listed, status, failed, faults>>
-----------------------------------------------------------------------------
\* A wait for the children it knows, instead of for any.
ReapableIfKnown == {p \in Children : process[p].ended /\ children[p] # None}

\* poll_any() finds one of these; which, the kernel decides.
Reapable == {p \in Children : process[p].ended}

\* record_termination that leaves the child in the table.
ForgetNobody(p) == children
Forget(p) == [children EXCEPT ![p] = None]

\* record_termination: what becomes of linuxcnc_status is decided by the pid.
Reap ==
  /\ stage = "reap" /\ Looping
  /\ \E p \in Reapable :
       /\ process' = [process EXCEPT ![p] = None]
       /\ children' = Forget(p)
       /\ status' = IF p = root THEN process[p].id ELSE status
  /\ AppendThen(failed)
  /\ UNCHANGED <<created, subreaper, stage, captures, root, listed>>

\* A session that is over when LinuxCNC is.
RootHasEnded == status # None
NoChildren == Children = {}

StillRunning ==
  /\ stage = "reap" /\ stage' = "scan" /\ Looping
  /\ ~NoChildren /\ Reapable = {}
  /\ UNCHANGED <<kernel, captures, root, children, listed, status, failed, faults>>

WaitFails ==
  /\ stage = "reap" /\ stage' = "scan" /\ Looping /\ Fault
  /\ UNCHANGED <<kernel, captures, root, children, listed, status, failed>>

NobodyToWaitFor ==
  /\ stage = "reap" /\ NoChildren
  /\ IF status = None THEN Return("statusMissing") ELSE stage' = "finish" /\ Looping
  /\ UNCHANGED <<kernel, captures, root, children, listed, status, failed, faults>>

\* The readers end when nobody holds the other end of their pipes.
PipesClosed == \A p \in Pids : ~Running(p)

\* finish_capture, the last record, and the error that takes precedence.
Finish ==
  /\ stage = "finish"
  /\ captures => PipesClosed
  /\ \/ AppendThen(failed)
     \/ captures /\ Fault /\ failed' = failed \cup {"capture"}
  /\ Return(IF "capture" \in failed' THEN "captureError"
            ELSE IF "journal" \in failed' THEN "journalAfterSpawn" ELSE "ok")
  /\ UNCHANGED <<kernel, captures, root, children, listed, status>>

Supervise ==
  \/ StartupStep \/ StartupFails \/ Spawn \/ Scan \/ ScanFails \/ Refresh \/ Refreshed
  \/ Reap \/ StillRunning \/ WaitFails \/ NobodyToWaitFor \/ Finish

Next == Fork \/ Exit \/ ParentReaps \/ Supervise

\* The supervisor's only thread keeps running; the processes need not.
Spec == Init /\ [][Next]_vars /\ WF_vars(Supervise)
-----------------------------------------------------------------------------
(* docs/process-lifecycle.md "orphaned descendants remain waitable by that *)
(* session owner": when the owner returns, having spawned LinuxCNC, it has *)
(* reaped some holder of the root's pid, and no process of the session is  *)
(* left, whoever forked it and whichever of its ancestors ended first.     *)
(* That the status is the root's own, which the same document promises,    *)
(* the code does not keep: record_termination compares pids.               *)
NothingIsLeftBehind ==
  result \in AfterSpawn => status # None /\ \A p \in Pids : ~Held(p)

(* What is recorded of a child when it ends was seen of that process, not  *)
(* of an earlier one with its pid: the table never describes anybody but   *)
(* the process that holds the pid now.                                     *)
EvidenceIsOfTheProcess ==
  \A p \in Pids : children[p] # None =>
    /\ Held(p) /\ process[p].parent = "supervisor"
    /\ children[p].since = process[p].id
    /\ children[p].named \in {process[p].id, None}

(* The owner never outstays its session: once nothing runs any more it     *)
(* returns, whatever it failed to list, to wait for or to record before.   *)
SessionEnds == <>[](\A p \in Pids : ~Running(p)) => <>(result # None)
=============================================================================
