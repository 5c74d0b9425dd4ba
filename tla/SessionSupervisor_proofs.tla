---------------------- MODULE SessionSupervisor_proofs -----------------------
(***************************************************************************)
(* Proofs about the owner of a session, for any number of pids, processes   *)
(* and failing calls: what it knows of a child is of the process that holds *)
(* the pid, and when it returns nothing of the session is left.             *)
(*                                                                         *)
(* The second rests on how the processes of a session hang together         *)
(* (FamilyIsRooted): each is a child of the supervisor or of a process that *)
(* runs and is older.  The oldest of them is then a child of the            *)
(* supervisor, so a supervisor without children has nobody left.            *)
(***************************************************************************)
EXTENDS SessionSupervisor, WellFoundedInduction, TLAPS

Inside == {"scan", "refresh", "reap"}
Adopting == {"verifySubreaper", "recordStart", "prepareCapture", "spawn"} \cup Inside

(* Orphans come to the supervisor as long as there can be any.              *)
SubreaperFirst == stage \in Adopting => subreaper

(* Nobody is there before the spawn or after the last child.                *)
NobodyOutside == \A p \in Pids : Held(p) => stage \in Inside

Rooted(p) ==
    /\ process[p].id <= created
    /\ \/ process[p].parent = "supervisor"
       \/ /\ process[p].parent \in Pids /\ Running(process[p].parent)
          /\ process[process[p].parent].id < process[p].id
FamilyIsRooted == \A p \in Pids : Held(p) => Rooted(p)

(* Until its status is known the root is there to be waited for.            *)
RootIsAwaited ==
    /\ stage \in Inside => status # None \/ root \in Children
    /\ stage = "finish" => status # None
    /\ result # None => stage = "ended"
    /\ result \in AfterSpawn => status # None

(* Only a scan that is under way keeps a list, and only of children.        *)
ListedAreChildren ==
    /\ listed \subseteq Children
    /\ stage # "refresh" => listed = {}

SessionInv ==
    /\ TypeOK /\ SubreaperFirst /\ NobodyOutside
    /\ FamilyIsRooted /\ RootIsAwaited /\ ListedAreChildren
    /\ EvidenceIsOfTheProcess
-----------------------------------------------------------------------------
(* The family                                                               *)

LEMMA LeastOfNaturals ==
    ASSUME NEW T, T \subseteq Nat, T # {}
    PROVE  \E least \in T : \A n \in T : least <= n
<1> DEFINE R == OpToRel(<, Nat)
<1>1. IsWellFoundedOn(R, Nat)
  BY NatLessThanWellFounded
<1>2. \A m, n \in Nat : m < n => <<m, n>> \in R
  BY DEF OpToRel
<1> HIDE DEF R
<1>3. PICK least \in T : \A n \in T : ~ (<<n, least>> \in R)
  BY <1>1, WFMin
<1>4. \A n \in T : ~ (n < least)
  BY <1>2, <1>3
<1> QED BY <1>3, <1>4

(* The oldest process that is there has nobody but the supervisor for a     *)
(* parent.                                                                  *)
LEMMA FamilyHasARoot ==
    ASSUME TypeOK, FamilyIsRooted, NEW p \in Pids, Held(p)
    PROVE  Children # {}
<1> DEFINE ages == {process[q].id : q \in {q \in Pids : Held(q)}}
<1>1. \A q \in Pids : Held(q) => process[q].id \in Nat
  BY SessionAssumption DEF TypeOK, Held
<1>2. ages \subseteq Nat /\ ages # {}
  BY <1>1
<1> HIDE DEF ages
<1>3. PICK least \in ages : \A n \in ages : least <= n
  BY <1>2, LeastOfNaturals
<1>4. PICK q \in Pids : Held(q) /\ process[q].id = least
  BY <1>3 DEF ages
<1>5. ASSUME process[q].parent # "supervisor" PROVE FALSE
  <2> DEFINE r == process[q].parent
  <2>1. r \in Pids /\ Held(r) /\ process[r].id < process[q].id
    BY <1>4, <1>5 DEF FamilyIsRooted, Rooted, Running
  <2>2. process[r].id \in ages
    BY <2>1 DEF ages
  <2> HIDE DEF r
  <2>3. process[q].id <= process[r].id
    BY <1>3, <1>4, <2>2
  <2> QED BY <1>1, <1>4, <2>1, <2>3
<1> QED BY <1>4, <1>5 DEF Children
-----------------------------------------------------------------------------
(* Types and what is there at the start                                     *)

Process == [id: 1..MaxProcesses, ended: BOOLEAN,
            parent: Pids \cup {"supervisor", "init"}]
Child == [since: 1..MaxProcesses, named: 1..MaxProcesses \cup {None}]

LEMMA ProcessFacts ==
    /\ None \notin Process /\ None \notin 1..MaxProcesses
    /\ None \notin Results /\ None \notin Pids
    /\ MaxProcesses \in Nat /\ MaxFaults \in Nat
<1>1. Process \subseteq [id: Nat, ended: BOOLEAN, parent: Pids \cup {"supervisor", "init"}]
  BY DEF Process
<1>2. None \notin Process
  BY <1>1, SessionAssumption
<1> QED BY <1>2, SessionAssumption

(* The steps of the startup, one after the other.                           *)
LEMMA StartupOrder ==
    ASSUME NEW i \in 1..7
    PROVE  /\ Startup[i] \in Startups /\ Startup[i + 1] \in Startups
           /\ Startup[i + 1] \in Adopting =>
                Startup[i] \in Adopting \cup {"enableSubreaper"}
BY DEF Startup, Startups, Adopting, Inside

LEMMA StagesApart ==
    /\ "openJournal" \in Startups /\ "openJournal" \notin Adopting
    /\ Startups \cap Inside = {}
    /\ "finish" \notin Startups \cup Inside /\ "ended" \notin Startups \cup Inside
    /\ "refresh" \notin Startups /\ "spawn" \in Startups \cap Adopting
BY DEF Startup, Startups, Adopting, Inside

LEMMA InitialSession == Init => SessionInv
<1> SUFFICES ASSUME Init PROVE SessionInv
  OBVIOUS
<1>1. \A p \in Pids : process[p] = None /\ children[p] = None
  BY DEF Init
<1>2. TypeOK
  <2>1. process \in [Pids -> {None} \cup Process] /\ children \in [Pids -> {None} \cup Child]
    BY DEF Init
  <2>2. created \in 0..MaxProcesses /\ faults \in 0..MaxFaults
    BY ProcessFacts DEF Init
  <2> QED BY <2>1, <2>2, StagesApart DEF Init, TypeOK, Process, Child
<1>3. SubreaperFirst /\ NobodyOutside /\ FamilyIsRooted
  BY <1>1, StagesApart DEF Init, SubreaperFirst, NobodyOutside, FamilyIsRooted, Held
<1>4. RootIsAwaited /\ ListedAreChildren
  BY StagesApart, ProcessFacts
  DEF Init, RootIsAwaited, ListedAreChildren, Results, Inside
<1>5. EvidenceIsOfTheProcess
  BY <1>1 DEF EvidenceIsOfTheProcess
<1> QED BY <1>2, <1>3, <1>4, <1>5 DEF SessionInv
-----------------------------------------------------------------------------
(* What the kernel and the processes do                                     *)

(* A process that is created while its parent runs, or by the supervisor.   *)
LEMMA CreateKeepsFamily ==
    ASSUME TypeOK, FamilyIsRooted, NEW q \in Pids, ~Held(q),
           NEW parent \in Pids \cup {"supervisor"},
           parent \in Pids => Running(parent),
           Create(q, parent)
    PROVE  /\ process' \in [Pids -> {None} \cup Process]
           /\ created' \in 1..MaxProcesses
           /\ process'[q] = [id |-> created', parent |-> parent, ended |-> FALSE]
           /\ Held(q)'
           /\ \A p \in Pids \ {q} : process'[p] = process[p]
           /\ FamilyIsRooted'
<1>1. /\ created' = created + 1 /\ created \in Nat /\ created' \in 1..MaxProcesses
      /\ process \in [Pids -> {None} \cup Process]
  BY ProcessFacts DEF Create, TypeOK, Process
<1>2. [id |-> created', parent |-> parent, ended |-> FALSE] \in Process
  BY <1>1 DEF Process
<1>3. /\ process' \in [Pids -> {None} \cup Process]
      /\ process'[q] = [id |-> created', parent |-> parent, ended |-> FALSE]
      /\ \A p \in Pids \ {q} : process'[p] = process[p]
  BY <1>1, <1>2 DEF Create
<1>4. Held(q)'
  BY <1>2, <1>3, ProcessFacts DEF Held
<1>5. \A p \in Pids : Held(p) => process[p] \in Process /\ process[p].id \in Nat
  BY <1>1, ProcessFacts DEF Held, Process
<1>6. ASSUME NEW p \in Pids, Held(p)'
      PROVE  Rooted(p)'
  <2>1. CASE p = q
    <3>1. CASE parent = "supervisor"
      BY <1>1, <1>3, <2>1, <3>1 DEF Rooted
    <3>2. CASE parent \in Pids
      <4>1. Held(parent) /\ parent # q /\ process'[parent] = process[parent]
        BY <1>3, <3>2 DEF Running
      <4>2. process[parent].id \in Nat /\ process[parent].id <= created
        BY <1>5, <3>2, <4>1 DEF FamilyIsRooted, Rooted
      <4>3. process[parent].id < created'
        BY <1>1, <4>2
      <4>4. Running(parent)'
        BY <3>2, <4>1 DEF Running, Held
      <4>5. /\ process'[p].parent = parent /\ process'[p].id = created'
            /\ process'[p].id <= created'
        BY <1>1, <1>3, <2>1
      <4> QED BY <3>2, <4>1, <4>3, <4>4, <4>5 DEF Rooted
    <3> QED BY <3>1, <3>2
  <2>2. CASE p # q
    <3>1. Held(p) /\ process'[p] = process[p]
      BY <1>3, <1>6, <2>2 DEF Held
    <3>2. process[p].id <= created' /\ process[p].id \in Nat
      BY <1>1, <1>5, <3>1 DEF FamilyIsRooted, Rooted
    <3>3. \A r \in Pids : Running(r) => process'[r] = process[r] /\ Running(r)'
      BY <1>3 DEF Running, Held
    <3> QED BY <3>1, <3>2, <3>3 DEF FamilyIsRooted, Rooted
  <2> QED BY <2>1, <2>2
<1>7. FamilyIsRooted'
  BY <1>6 DEF FamilyIsRooted
<1> QED BY <1>1, <1>3, <1>4, <1>7
(* What keeps its parent and number when p ends: everybody but p's children. *)
LEMMA ExitKeepsFamily ==
    ASSUME TypeOK, FamilyIsRooted, subreaper, NEW p \in Pids, Running(p),
           process' = [q \in Pids |->
             CASE q = p -> [process[p] EXCEPT !.ended = TRUE]
               [] Held(q) /\ process[q].parent = p ->
                    [process[q] EXCEPT !.parent = IF subreaper THEN "supervisor" ELSE "init"]
               [] OTHER -> process[q]],
           UNCHANGED created
    PROVE  /\ process' \in [Pids -> {None} \cup Process]
           /\ \A q \in Pids : Held(q)' <=> Held(q)
           /\ \A q \in Children : process'[q].id = process[q].id
                                /\ process'[q].parent = "supervisor"
           /\ FamilyIsRooted'
<1> DEFINE ends == [process[p] EXCEPT !.ended = TRUE]
           adopted(q) == [process[q] EXCEPT !.parent = "supervisor"]
<1>1. /\ Held(p) /\ p \notin {"supervisor"}
      /\ \A q \in Pids : Held(q) => process[q] \in Process
  BY SessionAssumption DEF Running, Held, TypeOK, Process
<1>0. process[p].parent # p
  BY <1>1, SessionAssumption DEF FamilyIsRooted, Rooted, Process
<1>2. ends \in Process /\ \A q \in Pids : Held(q) => adopted(q) \in Process
  BY <1>1 DEF Process
<1>3. process'[p] = ends
  BY <1>0
<1>4. \A q \in Pids \ {p} : process'[q] =
        IF Held(q) /\ process[q].parent = p THEN adopted(q) ELSE process[q]
  BY <1>0
<1>5. /\ ends.id = process[p].id /\ ends.parent = process[p].parent
      /\ \A q \in Pids : Held(q) =>
           /\ adopted(q).id = process[q].id /\ adopted(q).ended = process[q].ended
           /\ adopted(q).parent = "supervisor"
  BY <1>1 DEF Process
<1>6. \A q \in Pids : process'[q] \in {None} \cup Process /\ (Held(q)' <=> Held(q))
  <2> SUFFICES ASSUME NEW q \in Pids
               PROVE  process'[q] \in {None} \cup Process /\ (Held(q)' <=> Held(q))
    OBVIOUS
  <2> HIDE DEF ends, adopted
  <2>1. process[q] = None \/ process[q] \in Process
    BY <1>1 DEF Held
  <2>2. \/ process'[q] \in Process /\ Held(q)
        \/ process'[q] = process[q]
    BY <1>1, <1>2, <1>3, <1>4
  <2> QED BY <2>1, <2>2, ProcessFacts DEF Held
<1>7. process' \in [Pids -> {None} \cup Process]
  BY <1>6
<1>8. \A q \in Pids : Held(q) =>
        /\ process'[q].id = process[q].id
        /\ q # p => process'[q].ended = process[q].ended
        /\ process'[q].parent \in {process[q].parent, "supervisor"}
        /\ process'[q].parent = process[q].parent /\ q # p
             => process[q].parent # p \/ process[q].parent = "supervisor"
  <2> SUFFICES ASSUME NEW q \in Pids, Held(q)
               PROVE  /\ process'[q].id = process[q].id
                      /\ q # p => process'[q].ended = process[q].ended
                      /\ process'[q].parent \in {process[q].parent, "supervisor"}
                      /\ process'[q].parent = process[q].parent /\ q # p
                           => process[q].parent # p \/ process[q].parent = "supervisor"
    OBVIOUS
  <2> HIDE DEF ends, adopted
  <2>1. CASE q = p
    BY <1>3, <1>5, <2>1
  <2>2. CASE q # p /\ process[q].parent = p
    BY <1>4, <1>5, <2>2
  <2>3. CASE q # p /\ process[q].parent # p
    BY <1>4, <2>3
  <2> QED BY <2>1, <2>2, <2>3
<1> HIDE DEF ends, adopted
<1>9. ASSUME NEW q \in Pids, Held(q)' PROVE Rooted(q)'
  <2>1. Held(q) /\ Rooted(q) /\ process[q].id \in Nat
    <3>1. Held(q) /\ process[q] \in Process
      BY <1>1, <1>6, <1>9
    <3> QED BY <3>1 DEF FamilyIsRooted, Process
  <2>2. CASE process'[q].parent = "supervisor"
    BY <1>8, <2>1, <2>2 DEF Rooted
  <2>3. CASE process'[q].parent # "supervisor"
    <3>1. PICK r \in Pids : /\ process[q].parent = r /\ process'[q].parent = r
                           /\ Running(r) /\ process[r].id < process[q].id
      BY <1>8, <2>1, <2>3 DEF Rooted
    <3>2. r # p
      BY <1>0, <1>8, <2>1, <2>3, <3>1
    <3>3. Running(r)' /\ process'[r].id = process[r].id
      BY <1>6, <1>8, <3>1, <3>2 DEF Running
    <3> QED BY <1>8, <2>1, <3>1, <3>3 DEF Rooted
  <2> QED BY <2>2, <2>3
<1>10. FamilyIsRooted'
  BY <1>9 DEF FamilyIsRooted
<1>11. \A q \in Children : process'[q].id = process[q].id
                          /\ process'[q].parent = "supervisor"
  BY <1>8 DEF Children
<1> QED BY <1>6, <1>7, <1>10, <1>11

(* A process that has ended has no children to leave behind.                *)
LEMMA ReapKeepsFamily ==
    ASSUME TypeOK, FamilyIsRooted, NEW p \in Pids, Held(p), process[p].ended,
           process' = [process EXCEPT ![p] = None], UNCHANGED created
    PROVE  /\ process' \in [Pids -> {None} \cup Process]
           /\ ~Held(p)'
           /\ \A q \in Pids \ {p} : process'[q] = process[q]
           /\ FamilyIsRooted'
<1>1. /\ process' \in [Pids -> {None} \cup Process]
      /\ process'[p] = None
      /\ \A q \in Pids \ {p} : process'[q] = process[q]
  BY DEF TypeOK, Process
<1>2. ASSUME NEW q \in Pids, Held(q)' PROVE Rooted(q)'
  <2>1. Held(q) /\ process'[q] = process[q] /\ Rooted(q)
    BY <1>1, <1>2 DEF Held, FamilyIsRooted
  <2>2. \A r \in Pids : Running(r) => process'[r] = process[r] /\ Running(r)'
    BY <1>1 DEF Running, Held
  <2> QED BY <2>1, <2>2 DEF Rooted
<1> QED BY <1>1, <1>2 DEF FamilyIsRooted, Held

(* The supervisor's knowledge stays true while its children stay its own.   *)
LEMMA OutsideKeeps ==
    ASSUME SessionInv, UNCHANGED Outside,
           process' \in [Pids -> {None} \cup Process], created' \in 0..MaxProcesses,
           NobodyOutside', FamilyIsRooted',
           \A q \in Children : /\ Held(q)' /\ process'[q].parent = "supervisor"
                               /\ process'[q].id = process[q].id
    PROVE  SessionInv'
<1>1. TypeOK'
  BY DEF SessionInv, TypeOK, Outside, Process
<1>2. SubreaperFirst'
  BY DEF SessionInv, SubreaperFirst, Outside
<1>3. Children \subseteq Children'
  BY DEF Children, Held
<1>4. RootIsAwaited' /\ ListedAreChildren'
  BY <1>3 DEF SessionInv, RootIsAwaited, ListedAreChildren, Outside
<1>5. EvidenceIsOfTheProcess'
  BY DEF SessionInv, EvidenceIsOfTheProcess, Outside, Children
<1> QED BY <1>1, <1>2, <1>4, <1>5 DEF SessionInv

LEMMA ForkKeeps == SessionInv /\ Fork => SessionInv'
<1> SUFFICES ASSUME SessionInv, Fork PROVE SessionInv'
  OBVIOUS
<1>1. PICK p, q \in Pids : Running(p) /\ ~Held(q) /\ Create(q, p)
  BY DEF Fork
<1>2. UNCHANGED Outside /\ Held(p) /\ stage \in Inside
  BY <1>1 DEF Fork, Running, SessionInv, NobodyOutside
<1>3. /\ process' \in [Pids -> {None} \cup Process] /\ created' \in 0..MaxProcesses
      /\ \A r \in Pids \ {q} : process'[r] = process[r]
      /\ FamilyIsRooted'
  <2>1. TypeOK /\ FamilyIsRooted
    BY DEF SessionInv
  <2>2. p \in Pids \cup {"supervisor"} /\ (p \in Pids => Running(p)) /\ ~Held(q) /\ Create(q, p)
    BY <1>1
  <2>3. /\ process' \in [Pids -> {None} \cup Process] /\ created' \in 1..MaxProcesses
        /\ \A r \in Pids \ {q} : process'[r] = process[r]
        /\ FamilyIsRooted'
    BY <2>1, <2>2, CreateKeepsFamily
  <2> QED BY <2>3
<1>4. NobodyOutside'
  BY <1>2 DEF NobodyOutside, Outside
<1>5. \A r \in Children : /\ Held(r)' /\ process'[r].parent = "supervisor"
                         /\ process'[r].id = process[r].id
  BY <1>1, <1>3 DEF Children, Held
<1> QED BY <1>2, <1>3, <1>4, <1>5, OutsideKeeps

LEMMA ExitKeeps == SessionInv /\ Exit => SessionInv'
<1> SUFFICES ASSUME SessionInv, Exit PROVE SessionInv'
  OBVIOUS
<1>1. PICK p \in Pids :
        /\ Running(p)
        /\ process' = [q \in Pids |->
             CASE q = p -> [process[p] EXCEPT !.ended = TRUE]
               [] Held(q) /\ process[q].parent = p ->
                    [process[q] EXCEPT !.parent = IF subreaper THEN "supervisor" ELSE "init"]
               [] OTHER -> process[q]]
  BY DEF Exit
<1>2. UNCHANGED <<created, Outside>> /\ stage \in Inside /\ subreaper
  BY <1>1 DEF Exit, Running, SessionInv, NobodyOutside, SubreaperFirst, Adopting
<1>3. /\ process' \in [Pids -> {None} \cup Process]
      /\ \A q \in Pids : Held(q)' <=> Held(q)
      /\ \A q \in Children : process'[q].id = process[q].id
                           /\ process'[q].parent = "supervisor"
      /\ FamilyIsRooted'
  BY <1>1, <1>2, ExitKeepsFamily DEF SessionInv
<1>4. NobodyOutside' /\ created' \in 0..MaxProcesses
  BY <1>2 DEF NobodyOutside, Outside, SessionInv, TypeOK
<1>5. \A q \in Children : Held(q)'
  BY <1>3 DEF Children
<1> QED BY <1>2, <1>3, <1>4, <1>5, OutsideKeeps

LEMMA ParentReapsKeeps == SessionInv /\ ParentReaps => SessionInv'
<1> SUFFICES ASSUME SessionInv, ParentReaps PROVE SessionInv'
  OBVIOUS
<1>1. PICK p \in Pids :
        /\ Held(p) /\ process[p].ended /\ process[p].parent \in Pids
        /\ process' = [process EXCEPT ![p] = None]
  BY DEF ParentReaps
<1>2. UNCHANGED <<created, Outside>> /\ p \notin Children
  BY <1>1, SessionAssumption DEF ParentReaps, Children
<1>3. /\ process' \in [Pids -> {None} \cup Process]
      /\ ~Held(p)'
      /\ \A q \in Pids \ {p} : process'[q] = process[q]
      /\ FamilyIsRooted'
  BY <1>1, <1>2, ReapKeepsFamily DEF SessionInv
<1>4. NobodyOutside' /\ created' \in 0..MaxProcesses
  BY <1>2, <1>3 DEF NobodyOutside, Held, Outside, SessionInv, TypeOK
<1>5. \A q \in Children : /\ Held(q)' /\ process'[q].parent = "supervisor"
                         /\ process'[q].id = process[q].id
  BY <1>2, <1>3 DEF Children, Held
<1> QED BY <1>2, <1>3, <1>4, <1>5, OutsideKeeps
-----------------------------------------------------------------------------
(* What the supervisor does                                                 *)

LEMMA FaultType ==
    ASSUME TypeOK, Fault
    PROVE  faults' \in 0..MaxFaults
BY ProcessFacts DEF TypeOK, Fault

LEMMA AppendType ==
    ASSUME TypeOK, NEW already \in SUBSET {"capture", "journal"}, AppendThen(already)
    PROVE  faults' \in 0..MaxFaults /\ failed' \subseteq {"capture", "journal"}
<1>1. faults \in 0..MaxFaults
  BY DEF TypeOK
<1>2. faults' \in 0..MaxFaults
  BY <1>1, FaultType DEF AppendThen
<1> QED BY <1>2 DEF AppendThen

(* Outside the loop there is nobody, and nothing is believed of anybody.    *)
LEMMA NobodyYet ==
    ASSUME SessionInv, stage \notin Inside
    PROVE  /\ \A p \in Pids : ~Held(p) /\ children[p] = None
           /\ listed = {} /\ Children = {}
<1>1. \A p \in Pids : ~Held(p)
  BY DEF SessionInv, NobodyOutside
<1>2. Children = {} /\ listed = {}
  BY <1>1 DEF SessionInv, ListedAreChildren, Children
<1> QED BY <1>1, <1>2 DEF SessionInv, EvidenceIsOfTheProcess

(* A step of the supervisor that leaves the processes alone.                *)
LEMMA KernelKept ==
    ASSUME SessionInv, UNCHANGED <<process, created>>
    PROVE  /\ FamilyIsRooted' /\ Children' = Children
           /\ \A p \in Pids : Held(p)' <=> Held(p)
           /\ process' \in [Pids -> {None} \cup Process] /\ created' \in 0..MaxProcesses
BY DEF SessionInv, FamilyIsRooted, Rooted, Running, Held, Children, TypeOK, Process

LEMMA StartupKeeps == SessionInv /\ (StartupStep \/ StartupFails) => SessionInv'
<1> SUFFICES ASSUME SessionInv, StartupStep \/ StartupFails PROVE SessionInv'
  OBVIOUS
<1>1. /\ UNCHANGED <<process, created, captures, root, children, listed, status, failed>>
      /\ stage \in Startups
      /\ \/ /\ stage' \in Startups /\ result' = result /\ faults' = faults
            /\ stage' \in Adopting => subreaper'
         \/ /\ stage' = "ended" /\ result' \in {"journalError", "startupError"}
            /\ Fault
      /\ subreaper' \in BOOLEAN
  <2>1. CASE StartupStep
    <3>1. PICK i \in 1..7 :
            /\ stage = Startup[i] /\ stage' = Startup[i + 1]
            /\ subreaper' = (subreaper \/ stage = "enableSubreaper")
            /\ UNCHANGED <<process, created, captures, root, children, listed, status, failed,
                           result, faults>>
      BY <2>1 DEF StartupStep
    <3>2. stage \in Startups /\ stage' \in Startups
      BY <3>1, StartupOrder
    <3>3. stage' \in Adopting => stage \in Adopting \cup {"enableSubreaper"}
      BY <3>1, StartupOrder
    <3>4. /\ stage' \in Adopting => subreaper'
          /\ subreaper' \in BOOLEAN
      BY <3>1, <3>3 DEF SessionInv, SubreaperFirst, TypeOK
    <3> QED BY <3>1, <3>2, <3>4
  <2>2. CASE StartupFails
    BY <2>2 DEF StartupFails, Return, kernel, SessionInv, TypeOK
  <2> QED BY <2>1, <2>2
<1>2. stage \notin Inside /\ stage' \notin Inside /\ stage' # "finish" /\ stage # "finish"
      /\ stage # "ended"
  BY <1>1, StagesApart
<1>3. /\ \A p \in Pids : ~Held(p) /\ children[p] = None
      /\ listed = {} /\ Children = {}
  BY <1>2, NobodyYet
<1>4. /\ FamilyIsRooted' /\ Children' = Children
      /\ \A p \in Pids : Held(p)' <=> Held(p)
  BY <1>1, KernelKept
<1>5. TypeOK'
  <2>1. faults' \in 0..MaxFaults
    BY <1>1, FaultType DEF SessionInv, TypeOK
  <2>2. result' \in Results \cup {None} /\ stage' \in Startups \cup Loop \cup {"ended"}
    BY <1>1 DEF SessionInv, TypeOK, Results
  <2> QED BY <1>1, <2>1, <2>2 DEF SessionInv, TypeOK
<1>6. SubreaperFirst'
  BY <1>1, StagesApart DEF SubreaperFirst, Adopting, Inside
<1>7. NobodyOutside' /\ ListedAreChildren' /\ EvidenceIsOfTheProcess'
  BY <1>1, <1>3, <1>4 DEF NobodyOutside, ListedAreChildren, EvidenceIsOfTheProcess
<1>8. RootIsAwaited'
  <2>1. result = None
    BY <1>2 DEF SessionInv, RootIsAwaited
  <2>2. result' \notin AfterSpawn /\ (result' # None => stage' = "ended")
    BY <1>1, <2>1, ProcessFacts DEF Results, AfterSpawn
  <2> QED BY <1>2, <2>2 DEF RootIsAwaited
<1> QED BY <1>4, <1>5, <1>6, <1>7, <1>8 DEF SessionInv

LEMMA SpawnKeeps == SessionInv /\ Spawn => SessionInv'
<1> SUFFICES ASSUME SessionInv, Spawn PROVE SessionInv'
  OBVIOUS
<1>1. PICK p \in Pids :
        /\ Create(p, "supervisor") /\ root' = p
        /\ children' = [children EXCEPT ![p] = Observed(created', created')]
  BY DEF Spawn
<1>2. /\ stage = "spawn" /\ stage' = "scan" /\ result' = result
      /\ UNCHANGED <<subreaper, listed, status>>
      /\ captures' \in BOOLEAN
      /\ failed' \subseteq {"capture", "journal"} /\ faults' \in 0..MaxFaults
  <2>1. failed \in SUBSET {"capture", "journal"} /\ captures \in BOOLEAN /\ TypeOK
    BY DEF SessionInv, TypeOK
  <2>2. failed' \subseteq {"capture", "journal"} /\ faults' \in 0..MaxFaults
    <3>1. CASE AppendThen(failed)
      BY <2>1, <3>1, AppendType
    <3>2. CASE Fault /\ failed' = {"capture"}
      BY <2>1, <3>2, FaultType
    <3> QED BY <3>1, <3>2 DEF Spawn
  <2> QED BY <2>1, <2>2 DEF Spawn, Looping
<1>3. stage \notin Inside /\ stage' \in Inside
  BY <1>2 DEF Inside
<1>4. /\ \A q \in Pids : ~Held(q) /\ children[q] = None
      /\ listed = {} /\ Children = {}
  BY <1>3, NobodyYet
<1>5. /\ process' \in [Pids -> {None} \cup Process] /\ created' \in 1..MaxProcesses
      /\ process'[p] = [id |-> created', parent |-> "supervisor", ended |-> FALSE]
      /\ Held(p)'
      /\ \A q \in Pids \ {p} : process'[q] = process[q]
      /\ FamilyIsRooted'
  <2>1. TypeOK /\ FamilyIsRooted /\ ~Held(p) /\ "supervisor" \in Pids \cup {"supervisor"}
        /\ ("supervisor" \in Pids => Running("supervisor"))
    BY <1>4, SessionAssumption DEF SessionInv
  <2> QED BY <1>1, <2>1, CreateKeepsFamily
<1>6. children' \in [Pids -> {None} \cup Child]
  BY <1>1, <1>5 DEF SessionInv, TypeOK, Child, Observed
<1>7. TypeOK'
  <2>1. created' \in 0..MaxProcesses /\ stage' \in Loop
    BY <1>2, <1>5, ProcessFacts DEF Loop
  <2> QED BY <1>1, <1>2, <1>5, <1>6, <2>1 DEF SessionInv, TypeOK, Process, Child
<1>8. SubreaperFirst' /\ NobodyOutside'
  BY <1>2, <1>3 DEF SessionInv, SubreaperFirst, NobodyOutside, Adopting, Inside
<1>9. RootIsAwaited'
  <2>1. result' = None
    BY <1>2 DEF SessionInv, RootIsAwaited
  <2>2. root' \in Children'
    BY <1>1, <1>5 DEF Children
  <2> QED BY <1>2, <2>1, <2>2, ProcessFacts DEF RootIsAwaited, Results
<1>10. ListedAreChildren'
  BY <1>2, <1>4 DEF ListedAreChildren
<1>11. EvidenceIsOfTheProcess'
  <2>1. /\ children'[p].since = created' /\ children'[p].named = created'
        /\ \A q \in Pids \ {p} : children'[q] = None
    BY <1>1, <1>4 DEF SessionInv, TypeOK, Observed
  <2> QED BY <1>5, <2>1 DEF EvidenceIsOfTheProcess
<1> QED BY <1>5, <1>7, <1>8, <1>9, <1>10, <1>11 DEF SessionInv
(* A step within the loop that waits for nobody: only what is believed of   *)
(* the children, and what is left of a scan, can change.                    *)
LEMMA LoopKeeps ==
    ASSUME SessionInv, stage \in Inside, stage' \in Inside,
           UNCHANGED <<kernel, captures, root, status, result>>,
           children' \in [Pids -> {None} \cup Child],
           failed' \subseteq {"capture", "journal"}, faults' \in 0..MaxFaults,
           listed' \subseteq Children, stage' # "refresh" => listed' = {},
           EvidenceIsOfTheProcess'
    PROVE  SessionInv'
<1>1. /\ FamilyIsRooted' /\ Children' = Children
      /\ \A p \in Pids : Held(p)' <=> Held(p)
      /\ process' \in [Pids -> {None} \cup Process] /\ created' \in 0..MaxProcesses
  BY KernelKept DEF kernel
<1>2. TypeOK'
  <2>1. stage' \in Loop /\ listed' \subseteq Pids
    BY DEF Inside, Loop, Children
  <2> QED BY <1>1, <2>1 DEF SessionInv, TypeOK, Process, Child, kernel
<1>3. SubreaperFirst' /\ NobodyOutside'
  BY <1>1 DEF SessionInv, SubreaperFirst, NobodyOutside, Adopting, kernel
<1>4. RootIsAwaited'
  <2>1. result' = None /\ stage' # "finish"
    BY StagesApart DEF SessionInv, RootIsAwaited
  <2> QED BY <1>1, <2>1, ProcessFacts DEF SessionInv, RootIsAwaited, Results
<1>5. ListedAreChildren'
  BY <1>1 DEF ListedAreChildren
<1> QED BY <1>1, <1>2, <1>3, <1>4, <1>5 DEF SessionInv

(* Nothing is believed otherwise: what is believed stays true.              *)
LEMMA BeliefsKept ==
    ASSUME SessionInv, UNCHANGED <<kernel, children>>
    PROVE  EvidenceIsOfTheProcess' /\ children' \in [Pids -> {None} \cup Child]
BY DEF SessionInv, EvidenceIsOfTheProcess, Held, TypeOK, Child, kernel

LEMMA ScanKeeps ==
    SessionInv /\ (Scan \/ ScanFails \/ Refreshed \/ StillRunning \/ WaitFails)
        => SessionInv'
<1> SUFFICES ASSUME SessionInv, Scan \/ ScanFails \/ Refreshed \/ StillRunning \/ WaitFails
             PROVE  SessionInv'
  OBVIOUS
<1>1. /\ UNCHANGED <<kernel, captures, root, children, status, result, failed>>
      /\ stage \in Inside /\ stage' \in Inside
      /\ UNCHANGED faults \/ Fault
  BY DEF Scan, ScanFails, Refreshed, StillRunning, WaitFails, Looping, Inside
<1>2. faults' \in 0..MaxFaults /\ failed' \subseteq {"capture", "journal"}
  BY <1>1, FaultType DEF SessionInv, TypeOK
<1>3. listed' \subseteq Children /\ (stage' # "refresh" => listed' = {})
  <2>1. CASE Scan
    BY <2>1 DEF Scan
  <2>2. CASE ScanFails \/ Refreshed \/ StillRunning \/ WaitFails
    <3>1. listed' = listed /\ (stage = "refresh" => listed = {})
      BY <2>2 DEF ScanFails, Refreshed, StillRunning, WaitFails
    <3> QED BY <3>1 DEF SessionInv, ListedAreChildren
  <2> QED BY <2>1, <2>2
<1>4. EvidenceIsOfTheProcess' /\ children' \in [Pids -> {None} \cup Child]
  BY <1>1, BeliefsKept
<1> QED BY <1>1, <1>2, <1>3, <1>4, LoopKeeps

LEMMA RefreshKeeps == SessionInv /\ Refresh => SessionInv'
<1> SUFFICES ASSUME SessionInv, Refresh PROVE SessionInv'
  OBVIOUS
<1>1. PICK p \in listed : \E named \in Identified(p) :
        /\ listed' = listed \ {p}
        /\ IF children[p] = None
           THEN /\ children' = [children EXCEPT ![p] = Observed(process[p].id, named)]
                /\ AppendThen(failed)
           ELSE IF MoreSpecific(named, children[p])
           THEN /\ children' = [children EXCEPT ![p].named = named]
                /\ AppendThen(failed)
           ELSE UNCHANGED <<children, failed, faults>>
  BY DEF Refresh
<1>2. PICK named \in Identified(p) :
        /\ listed' = listed \ {p}
        /\ \/ /\ children' = [children EXCEPT ![p] = Observed(process[p].id, named)]
              /\ children[p] = None
              /\ AppendThen(failed)
           \/ /\ children' = [children EXCEPT ![p].named = named]
              /\ children[p] # None
              /\ AppendThen(failed)
           \/ UNCHANGED <<children, failed, faults>>
  BY <1>1
<1>3. /\ stage = "refresh" /\ stage \in Inside /\ stage' = stage
      /\ UNCHANGED <<kernel, captures, root, status, result>>
  BY DEF Refresh, Looping, Inside
<1>4. /\ p \in Pids /\ Held(p) /\ process[p].parent = "supervisor"
      /\ process[p].id \in 1..MaxProcesses
      /\ named \in {process[p].id, None} /\ named \in 1..MaxProcesses \cup {None}
  <2>1. p \in Pids /\ Held(p) /\ process[p].parent = "supervisor"
    BY DEF SessionInv, ListedAreChildren, Children
  <2>2. process[p].id \in 1..MaxProcesses
    BY <2>1 DEF SessionInv, TypeOK, Held
  <2> QED BY <2>1, <2>2 DEF Identified
<1>5. failed' \subseteq {"capture", "journal"} /\ faults' \in 0..MaxFaults
  <2>1. TypeOK /\ failed \in SUBSET {"capture", "journal"} /\ faults \in 0..MaxFaults
    BY DEF SessionInv, TypeOK
  <2> QED BY <1>2, <2>1, AppendType
<1>6. children' \in [Pids -> {None} \cup Child] /\ EvidenceIsOfTheProcess'
  <2>0. children \in [Pids -> {None} \cup Child]
    BY DEF SessionInv, TypeOK, Child
  <2>1. CASE children' = children
    BY <1>3, <2>1, BeliefsKept
  <2>2. CASE children' = [children EXCEPT ![p] = Observed(process[p].id, named)]
    <3>1. Observed(process[p].id, named) \in Child
      BY <1>4 DEF Observed, Child
    <3>2. /\ children' \in [Pids -> {None} \cup Child]
          /\ children'[p] = Observed(process[p].id, named)
          /\ \A q \in Pids \ {p} : children'[q] = children[q]
      BY <1>4, <2>0, <2>2, <3>1
    <3> QED
      BY <1>3, <1>4, <3>2 DEF SessionInv, EvidenceIsOfTheProcess, Held, Observed, kernel
  <2>3. CASE children' = [children EXCEPT ![p].named = named] /\ children[p] # None
    <3>1. children[p] \in Child /\ [children[p] EXCEPT !.named = named] \in Child
      BY <1>4, <2>0, <2>3 DEF Child
    <3>2. /\ children' \in [Pids -> {None} \cup Child]
          /\ children'[p] = [children[p] EXCEPT !.named = named]
          /\ \A q \in Pids \ {p} : children'[q] = children[q]
      BY <1>4, <2>0, <2>3, <3>1
    <3>3. children'[p].named = named /\ children'[p].since = children[p].since
      BY <3>1, <3>2 DEF Child
    <3> QED
      BY <1>3, <1>4, <2>3, <3>2, <3>3
      DEF SessionInv, EvidenceIsOfTheProcess, Held, kernel
  <2> QED BY <1>2, <2>1, <2>2, <2>3
<1>7. listed' \subseteq Children
  BY <1>2 DEF SessionInv, ListedAreChildren
<1> QED BY <1>3, <1>5, <1>6, <1>7, LoopKeeps

(* Who is reaped is forgotten with his process, and if it is the root his   *)
(* status is known from then on.                                            *)
LEMMA ReapKeeps == SessionInv /\ Reap => SessionInv'
<1> SUFFICES ASSUME SessionInv, Reap PROVE SessionInv'
  OBVIOUS
<1>1. PICK p \in Reapable :
        /\ process' = [process EXCEPT ![p] = None]
        /\ children' = Forget(p)
        /\ status' = IF p = root THEN process[p].id ELSE status
  BY DEF Reap
<1>2. /\ stage = "reap" /\ stage \in Inside
      /\ UNCHANGED <<created, subreaper, stage, captures, root, listed, result>>
      /\ AppendThen(failed)
  BY DEF Reap, Looping, Inside
<1>3. /\ p \in Pids /\ Held(p) /\ process[p].ended
      /\ process[p].id \in 1..MaxProcesses
  <2>1. p \in Pids /\ Held(p) /\ process[p].ended
    BY DEF Reapable, Children
  <2> QED BY <2>1 DEF SessionInv, TypeOK, Held
<1>4. /\ process' \in [Pids -> {None} \cup Process]
      /\ ~Held(p)'
      /\ \A q \in Pids \ {p} : process'[q] = process[q]
      /\ FamilyIsRooted'
  BY <1>1, <1>2, <1>3, ReapKeepsFamily DEF SessionInv
<1>5. /\ children' \in [Pids -> {None} \cup Child]
      /\ children'[p] = None /\ \A q \in Pids \ {p} : children'[q] = children[q]
  BY <1>1, <1>3 DEF SessionInv, TypeOK, Child, Forget
<1>6. TypeOK'
  <2>1. failed' \subseteq {"capture", "journal"} /\ faults' \in 0..MaxFaults
    BY <1>2, AppendType DEF SessionInv, TypeOK
  <2>2. status' \in 1..MaxProcesses \cup {None}
    BY <1>1, <1>3 DEF SessionInv, TypeOK
  <2> QED BY <1>2, <1>4, <1>5, <2>1, <2>2 DEF SessionInv, TypeOK, Process, Child
<1>7. SubreaperFirst' /\ NobodyOutside' /\ ListedAreChildren'
  <2>1. listed' = {}
    BY <1>2 DEF SessionInv, ListedAreChildren
  <2> QED BY <1>2, <2>1 DEF SessionInv, SubreaperFirst, NobodyOutside, ListedAreChildren
<1>8. RootIsAwaited'
  <2>1. result' = None /\ stage' # "finish"
    BY <1>2, StagesApart DEF SessionInv, RootIsAwaited
  <2>2. status' # None \/ root' \in Children'
    <3>1. CASE p = root
      BY <1>1, <1>3, <3>1, ProcessFacts
    <3>2. CASE p # root
      <4>1. status # None \/ root \in Children
        BY <1>2 DEF SessionInv, RootIsAwaited
      <4> QED BY <1>1, <1>2, <1>4, <3>2, <4>1 DEF Children, Held
    <3> QED BY <3>1, <3>2
  <2> QED BY <2>1, <2>2, ProcessFacts DEF RootIsAwaited, Results
<1>9. EvidenceIsOfTheProcess'
  BY <1>3, <1>4, <1>5 DEF SessionInv, EvidenceIsOfTheProcess, Held
<1> QED BY <1>4, <1>6, <1>7, <1>8, <1>9 DEF SessionInv

(* Without children there is nobody, and so the root has been waited for.   *)
LEMMA EndKeeps == SessionInv /\ (NobodyToWaitFor \/ Finish) => SessionInv'
<1> SUFFICES ASSUME SessionInv, NobodyToWaitFor \/ Finish PROVE SessionInv'
  OBVIOUS
<1>1. UNCHANGED <<kernel, captures, root, children, listed, status>>
  BY DEF NobodyToWaitFor, Finish
<1>2. /\ FamilyIsRooted' /\ Children' = Children
      /\ \A p \in Pids : Held(p)' <=> Held(p)
      /\ process' \in [Pids -> {None} \cup Process] /\ created' \in 0..MaxProcesses
  BY <1>1, KernelKept DEF kernel
<1>3. EvidenceIsOfTheProcess' /\ children' \in [Pids -> {None} \cup Child]
  BY <1>1, BeliefsKept
<1>4. /\ status # None /\ \A p \in Pids : ~Held(p)
      /\ stage \in Loop
      /\ \/ stage' = "finish" /\ result' = result /\ UNCHANGED <<failed, faults>>
         \/ stage' = "ended" /\ result' \in AfterSpawn /\ Finish
  <2>1. CASE NobodyToWaitFor
    <3>1. stage = "reap" /\ stage \in Inside /\ Children = {}
      BY <2>1 DEF NobodyToWaitFor, NoChildren, Inside
    <3>2. status # None
      BY <3>1 DEF SessionInv, RootIsAwaited
    <3>3. \A p \in Pids : ~Held(p)
      BY <3>1, FamilyHasARoot DEF SessionInv
    <3> QED BY <2>1, <3>1, <3>2, <3>3 DEF NobodyToWaitFor, Looping, Loop
  <2>2. CASE Finish
    <3>1. stage = "finish"
      BY <2>2 DEF Finish
    <3>2. status # None /\ \A p \in Pids : ~Held(p)
      BY <3>1, StagesApart DEF SessionInv, RootIsAwaited, NobodyOutside
    <3> QED BY <2>2, <3>1, <3>2 DEF Finish, Return, AfterSpawn, Loop
  <2> QED BY <2>1, <2>2
<1>5. TypeOK'
  <2>1. failed' \subseteq {"capture", "journal"} /\ faults' \in 0..MaxFaults
    <3>1. /\ TypeOK /\ failed \in SUBSET {"capture", "journal"} /\ faults \in 0..MaxFaults
      BY DEF SessionInv, TypeOK
    <3>2. \/ UNCHANGED <<failed, faults>> \/ AppendThen(failed)
          \/ Fault /\ failed' = failed \cup {"capture"}
      BY <1>4 DEF Finish
    <3> QED BY <3>1, <3>2, AppendType, FaultType
  <2>2. stage' \in Loop \cup {"ended"} /\ result' \in Results \cup {None}
    BY <1>4 DEF Loop, Results, SessionInv, TypeOK
  <2> QED BY <1>1, <1>2, <1>3, <2>1, <2>2 DEF SessionInv, TypeOK, Process, Child, kernel
<1>6. SubreaperFirst' /\ NobodyOutside'
  BY <1>2, <1>4 DEF SubreaperFirst, NobodyOutside, Adopting, Inside
<1>7. RootIsAwaited'
  <2>1. result = None
    BY <1>4, StagesApart DEF SessionInv, RootIsAwaited, Loop
  <2>2. status' # None /\ stage' \notin Inside
    BY <1>1, <1>4, StagesApart
  <2> QED BY <1>4, <2>1, <2>2, ProcessFacts DEF RootIsAwaited, Results
<1>8. ListedAreChildren'
  <2>1. listed = {}
    BY <1>4 DEF SessionInv, ListedAreChildren, Children
  <2> QED BY <1>1, <2>1 DEF ListedAreChildren
<1> QED BY <1>2, <1>3, <1>5, <1>6, <1>7, <1>8 DEF SessionInv
-----------------------------------------------------------------------------
LEMMA SessionStep == SessionInv /\ [Next]_vars => SessionInv'
<1>1. SessionInv /\ UNCHANGED vars => SessionInv'
  BY DEF SessionInv, TypeOK, SubreaperFirst, NobodyOutside, FamilyIsRooted, Rooted, Running,
         Held, RootIsAwaited, ListedAreChildren, Children, EvidenceIsOfTheProcess, vars
<1> QED
  BY <1>1, ForkKeeps, ExitKeeps, ParentReapsKeeps, StartupKeeps, SpawnKeeps, ScanKeeps,
     RefreshKeeps, ReapKeeps, EndKeeps
  DEF Next, Supervise

LEMMA SessionInvariance == Spec => []SessionInv
BY InitialSession, SessionStep, PTL DEF Spec

(* The table of the kernel and the supervisor's own stay within their types *)
(* for every number of pids, processes and failing calls.                   *)
THEOREM SessionTypeCorrect == Spec => []TypeOK
<1>1. SessionInv => TypeOK
  BY DEF SessionInv
<1> QED BY <1>1, SessionInvariance, PTL

(* docs/process-lifecycle.md: when the owner returns after the spawn it has *)
(* a status, of some holder of the root's pid, and no process of the        *)
(* session is left, however the processes                                   *)
(* forked and in whatever order they ended.                                 *)
THEOREM LeavesNobody == Spec => []NothingIsLeftBehind
<1>1. SessionInv => NothingIsLeftBehind
  <2> SUFFICES ASSUME SessionInv, result \in AfterSpawn
               PROVE  status # None /\ \A p \in Pids : ~Held(p)
    BY DEF NothingIsLeftBehind
  <2>1. result # None
    BY ProcessFacts DEF Results
  <2>2. stage = "ended" /\ status # None
    BY <2>1 DEF SessionInv, RootIsAwaited
  <2> QED BY <2>2, StagesApart DEF SessionInv, NobodyOutside
<1> QED BY <1>1, SessionInvariance, PTL

(* The supervisor's table of children describes nobody but the process that *)
(* holds the pid, though pids are given out again.                          *)
THEOREM EvidenceOfTheProcess == Spec => []EvidenceIsOfTheProcess
<1>1. SessionInv => EvidenceIsOfTheProcess
  BY DEF SessionInv
<1> QED BY <1>1, SessionInvariance, PTL
=============================================================================
