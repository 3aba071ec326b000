---------------------------- MODULE AgentTargets ----------------------------
(***************************************************************************)
(* scripts/resolve_agent_targets.py: which agents a provisioning run has   *)
(* to plan, and which removals it has to describe.  The operator provisions*)
(* everything once, and from then on resolves the diff between the         *)
(* revision resolved last and the head of the repository.                  *)
(*                                                                         *)
(* A tree is a function from paths to contents.  A path is a pair of a     *)
(* directory under agents/ and a file, or one of the shared agent paths.   *)
(* Simplifications: the revisions a run is given do not move while it      *)
(* runs, and git and the file system answer.                               *)
(***************************************************************************)
EXTENDS Integers, FiniteSets

CONSTANTS
  Name,        \* directories under agents/
  BadName,     \* those that AGENT_NAME_PATTERN does not match
  File,        \* files inside such a directory
  Manifest,    \* agent.yaml
  Shared,      \* SHARED_AGENT_PATHS and SHARED_AGENT_FILES
  Content,
  Output,      \* paths for --retirement-output
  MaxEdits,    \* bound of commits
  None

VARIABLES
  head,      \* the tree of the head of the repository
  resolved,  \* the tree of the revision resolved last, None at first
  run,       \* a resolution that has written its retirements, or None
  output,    \* the descriptors in each retirement file, {} if it is not there
  planned,   \* history: the inputs each agent was last planned with
  edits

vars == <<head, resolved, run, output, planned, edits>>

Path == (Name \X File) \cup Shared
Tree == [Path -> Content \cup {None}]
Inputs(t, n) == [files |-> [f \in File |-> t[<<n, f>>]],
                 shared |-> [p \in Shared |-> t[p]]]
Descriptor == [name : Name, tree : [File -> Content \cup {None}]]

ASSUME TargetsAssumption ==
  /\ BadName \subseteq Name
  /\ Manifest \in File
  /\ Shared \cap (Name \X File) = {}
  /\ None \notin Content /\ None \notin Path
  /\ None \notin Tree
  /\ None \notin [base : Tree, head : Tree, targets : SUBSET Name]
  /\ None \notin [files : [File -> Content \cup {None}], shared : [Shared -> Content \cup {None}]]
  /\ MaxEdits \in Nat

-----------------------------------------------------------------------------
(* git diff --name-status *)

Added(base, new)    == {p \in Path : base[p] = None /\ new[p] # None}
Deleted(base, new)  == {p \in Path : base[p] # None /\ new[p] = None}
Modified(base, new) == {p \in Path : base[p] # None /\ new[p] # None /\ base[p] # new[p]}

(* Where git says an added file comes from: a file of the base that it     *)
(* finds similar, renamed when that one is deleted, and copied otherwise.  *)
Origins(base, new) ==
  {from \in [Added(base, new) -> Path \cup {None}] :
     /\ \A p \in Added(base, new) : from[p] # None => base[from[p]] # None
     /\ \A p, q \in Added(base, new) :
          from[p] = from[q] /\ p # q => from[p] \notin Deleted(base, new)}

Lines(base, new, from) ==
  LET renamed == {p \in Added(base, new) : from[p] \in Deleted(base, new)}
  IN  {[status |-> IF p \in renamed THEN "R" ELSE IF from[p] = None THEN "A" ELSE "C",
        path |-> from[p], to |-> p] : p \in Added(base, new)}
      \cup {[status |-> "D", path |-> p, to |-> p] :
              p \in Deleted(base, new) \ {from[q] : q \in renamed}}
      \cup {[status |-> "M", path |-> p, to |-> p] : p \in Modified(base, new)}

-----------------------------------------------------------------------------
(* diff_targets *)

Event(status, p) == [status |-> status, path |-> p]

(* A plausible slip: a rename is an event of its new path only. *)
EventsOfNewPath(l) ==
  IF l.status \in {"R", "C"} THEN {Event("A", l.to)} ELSE {Event(l.status, l.to)}

Events(l) ==
  IF l.status = "R" THEN {Event("D", l.path), Event("A", l.to)}
  ELSE IF l.status = "C" THEN {Event("A", l.to)}
  ELSE {Event(l.status, l.to)}

(* manifests_at_revision *)
Names(t) == {n \in Name : t[<<n, Manifest>>] # None}

(* A removed manifest alone does not make its agent a changed one. *)
Touches(e, n) == \E f \in File : e.path = <<n, f>> /\ (e.status = "D" => f # Manifest)

(* The agents with changed files and, after a shared change, those of both *)
(* trees.                                                                  *)
Changed(base, new, from) ==
  LET events == UNION {Events(l) : l \in Lines(base, new, from)}
  IN  {n \in Name : \/ \E e \in events : Touches(e, n)
                    \/ /\ \E e \in events : e.path \in Shared
                       /\ n \in Names(base) \cup Names(new)}
      \ (Names(base) \ Names(new))

(* A plausible slip: a changed directory need not have a manifest. *)
AcceptedUnchecked(base, new, changed, ack) ==
  /\ Names(base) \ Names(new) = ack
  /\ (Names(base) \cup Names(new) \cup changed) \cap BadName = {}

(* No errors: every removal is acknowledged, every acknowledgement is of a *)
(* removal, every name is valid, and what changed has a manifest.          *)
Accepted(base, new, changed, ack) ==
  /\ Names(base) \ Names(new) = ack
  /\ (Names(base) \cup Names(new) \cup changed) \cap BadName = {}
  /\ changed \subseteq Names(new)

(* The descriptor pins the agent's directory in the base revision. *)
RetirementDescriptor(base, n) ==
  [name |-> n, tree |-> [f \in File |-> base[<<n, f>>]]]

-----------------------------------------------------------------------------
(* main *)

Plan(t, targets) ==
  planned' = [n \in Name |-> IF n \in targets THEN Inputs(t, n) ELSE planned[n]]

(* A commit changes a path; a resolution may see several commits at once. *)
Commit ==
  /\ edits < MaxEdits
  /\ edits' = edits + 1
  /\ \E p \in Path, c \in Content \cup {None} :
       head[p] # c /\ head' = [head EXCEPT ![p] = c]
  /\ UNCHANGED <<resolved, run, output, planned>>

(* Without --diff: every manifest is a target. *)
EnumerateTargets ==
  /\ resolved = None
  /\ Names(head) \cap BadName = {}
  /\ Plan(head, Names(head))
  /\ resolved' = head
  /\ UNCHANGED <<head, run, output, edits>>

(* A plausible slip: the retirement file may exist. *)
WriteOver(file, base, ack) ==
  output' = [output EXCEPT ![file] = {RetirementDescriptor(base, n) : n \in ack}]

(* The retirement file must be a new one. *)
WriteRetirementOutput(file, base, ack) ==
  /\ output[file] = {}
  /\ output' = [output EXCEPT ![file] = {RetirementDescriptor(base, n) : n \in ack}]

DiffTargets ==
  /\ resolved # None /\ run = None
  /\ \E from \in Origins(resolved, head), ack \in SUBSET Name :
       LET changed == Changed(resolved, head, from)
       IN  /\ Accepted(resolved, head, changed, ack)
           /\ IF ack = {}
              THEN UNCHANGED output
              ELSE \E file \in Output :
                     WriteRetirementOutput(file, resolved, ack)
           /\ run' = [base |-> resolved, head |-> head, targets |-> changed]
  /\ UNCHANGED <<head, resolved, planned, edits>>

(* The targets are printed, and each of them is planned. *)
PrintTargets ==
  /\ run # None
  /\ Plan(run.head, run.targets)
  /\ resolved' = run.head
  /\ run' = None
  /\ UNCHANGED <<head, output, edits>>

(* The run stops before it has printed a target. *)
Interrupted ==
  /\ run # None
  /\ run' = None
  /\ UNCHANGED <<head, resolved, output, planned, edits>>

Init ==
  /\ head = [p \in Path |-> None]
  /\ resolved = None
  /\ run = None
  /\ output = [file \in Output |-> {}]
  /\ planned = [n \in Name |-> None]
  /\ edits = 0

Next ==
  \/ Commit
  \/ EnumerateTargets
  \/ DiffTargets
  \/ PrintTargets
  \/ Interrupted

Spec == Init /\ [][Next]_vars

-----------------------------------------------------------------------------
(* Properties *)

TypeOK ==
  /\ head \in Tree
  /\ resolved \in Tree \cup {None}
  /\ run \in [base : Tree, head : Tree, targets : SUBSET Name] \cup {None}
  /\ output \in [Output -> SUBSET Descriptor]
  /\ \A n \in Name :
       planned[n] # None => /\ n \notin BadName
                            /\ planned[n].files[Manifest] \in Content
  /\ edits \in 0..MaxEdits

(* Every agent of the revision resolved last was planned with the files it *)
(* has there, shared files included, however the diffs on the way were     *)
(* cut and whatever git took for a rename or a copy.                       *)
PlannedAsResolved ==
  resolved # None =>
    \A n \in Names(resolved) : planned[n] = Inputs(resolved, n)

(* An agent that was planned and has no manifest any more has a retirement *)
(* descriptor, which pins the very files it was planned with: what a       *)
(* manifest's absence leaves behind is never silently forgotten.           *)
RemovalsDescribed ==
  resolved # None =>
    \A n \in Name \ Names(resolved) :
      planned[n] # None =>
        \E file \in Output : [name |-> n, tree |-> planned[n].files] \in output[file]
=============================================================================
