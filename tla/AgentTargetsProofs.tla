------------------------- MODULE AgentTargetsProofs -------------------------
(***************************************************************************)
(* Proofs about target resolution, for any agents, files and contents.     *)
(***************************************************************************)
EXTENDS AgentTargets, TLAPS

AllEvents(base, new, from) == UNION {Events(l) : l \in Lines(base, new, from)}

(* Every path that differs is the path of an event, which is a deletion    *)
(* only if the new revision lacks the path: a rename hides neither end.    *)
LEMMA EventOfPath ==
  ASSUME NEW base \in Tree, NEW new \in Tree, NEW from \in Origins(base, new),
         NEW p \in Path, base[p] # new[p]
  PROVE  \E e \in AllEvents(base, new, from) :
           e.path = p /\ (e.status = "D" => new[p] = None)
<1> DEFINE renamed == {q \in Added(base, new) : from[q] \in Deleted(base, new)}
<1>1. SUFFICES \E l \in Lines(base, new, from) : \E e \in Events(l) :
                 e.path = p /\ (e.status = "D" => new[p] = None)
  BY DEF AllEvents
<1>2. CASE p \in Added(base, new)
  <2> DEFINE l == [status |-> IF p \in renamed THEN "R"
                              ELSE IF from[p] = None THEN "A" ELSE "C",
                   path |-> from[p], to |-> p]
  <2>1. l \in Lines(base, new, from)
    BY <1>2 DEF Lines
  <2>2. Event("A", p) \in Events(l)
    BY DEF Events
  <2>3. Event("A", p).path = p /\ Event("A", p).status # "D"
    BY DEF Event
  <2> QED BY <2>1, <2>2, <2>3
<1>3. CASE p \in Deleted(base, new) /\ p \in {from[q] : q \in renamed}
  <2>1. PICK q \in renamed : p = from[q]
    BY <1>3
  <2> DEFINE l == [status |-> "R", path |-> from[q], to |-> q]
  <2>2. l \in Lines(base, new, from)
    <3>1. l = [status |-> IF q \in renamed THEN "R"
                          ELSE IF from[q] = None THEN "A" ELSE "C",
               path |-> from[q], to |-> q]
      OBVIOUS
    <3>2. q \in Added(base, new)
      OBVIOUS
    <3> QED BY <3>1, <3>2 DEF Lines
  <2>3. Event("D", p) \in Events(l)
    BY <2>1 DEF Events
  <2>4. Event("D", p).path = p /\ new[p] = None
    BY <1>3 DEF Event, Deleted
  <2> QED BY <2>2, <2>3, <2>4
<1>4. CASE p \in Deleted(base, new) /\ p \notin {from[q] : q \in renamed}
  <2> DEFINE l == [status |-> "D", path |-> p, to |-> p]
  <2>1. l \in Lines(base, new, from)
    BY <1>4 DEF Lines
  <2>2. Event("D", p) \in Events(l)
    BY DEF Events
  <2>3. Event("D", p).path = p /\ new[p] = None
    BY <1>4 DEF Event, Deleted
  <2> QED BY <2>1, <2>2, <2>3
<1>5. CASE p \in Modified(base, new)
  <2> DEFINE l == [status |-> "M", path |-> p, to |-> p]
  <2>1. l \in Lines(base, new, from)
    BY <1>5 DEF Lines
  <2>2. Event("M", p) \in Events(l)
    BY DEF Events
  <2>3. Event("M", p).path = p /\ Event("M", p).status # "D"
    BY DEF Event
  <2> QED BY <2>1, <2>2, <2>3
<1>6. p \in Added(base, new) \cup Deleted(base, new) \cup Modified(base, new)
  BY DEF Added, Deleted, Modified
<1> QED BY <1>2, <1>3, <1>4, <1>5, <1>6

(* An agent of the new revision that is not a target has there just what   *)
(* it had in the base.                                                     *)
LEMMA UnchangedAgent ==
  ASSUME NEW base \in Tree, NEW new \in Tree, NEW from \in Origins(base, new),
         NEW n \in Names(new), n \notin Changed(base, new, from)
  PROVE  n \in Names(base) /\ Inputs(new, n) = Inputs(base, n)
<1> n \in Name /\ new[<<n, Manifest>>] # None
  BY DEF Names
<1>1. ASSUME NEW f \in File
      PROVE  base[<<n, f>>] = new[<<n, f>>]
  <2> SUFFICES ASSUME base[<<n, f>>] # new[<<n, f>>] PROVE FALSE
    OBVIOUS
  <2>1. PICK e \in AllEvents(base, new, from) :
          e.path = <<n, f>> /\ (e.status = "D" => new[<<n, f>>] = None)
    BY EventOfPath DEF Path
  <2>2. Touches(e, n)
    BY <2>1 DEF Touches
  <2> QED BY <2>2 DEF Changed, AllEvents, Names
<1>2. ASSUME NEW p \in Shared
      PROVE  base[p] = new[p]
  <2> SUFFICES ASSUME base[p] # new[p] PROVE FALSE
    OBVIOUS
  <2>1. PICK e \in AllEvents(base, new, from) : e.path = p
    BY EventOfPath DEF Path
  <2> QED BY <2>1 DEF Changed, AllEvents, Names
<1>3. base[<<n, Manifest>>] = new[<<n, Manifest>>]
  BY <1>1, TargetsAssumption
<1> QED BY <1>1, <1>2, <1>3 DEF Names, Inputs

-----------------------------------------------------------------------------
(* The invariant *)

(* What a resolution found, from the time it has written its retirements   *)
(* to the time it prints its targets.                                      *)
RunMeans ==
  run # None =>
    /\ resolved # None /\ run.base = resolved
    /\ run \in [base : Tree, head : Tree, targets : SUBSET Name]
    /\ run.targets \subseteq Names(run.head) \ BadName
    /\ \A n \in Names(run.head) :
         n \in run.targets
         \/ (n \in Names(resolved) /\ Inputs(run.head, n) = Inputs(resolved, n))
    /\ \A n \in Names(resolved) \ Names(run.head) :
         \E file \in Output : RetirementDescriptor(resolved, n) \in output[file]

NothingPlannedYet == resolved = None => \A n \in Name : planned[n] = None

TargetsInv ==
  /\ TypeOK
  /\ RunMeans
  /\ NothingPlannedYet
  /\ PlannedAsResolved
  /\ RemovalsDescribed

LEMMA InitTargets == Init => TargetsInv
<1> SUFFICES ASSUME Init PROVE TargetsInv
  OBVIOUS
<1> USE DEF Init
<1>1. TypeOK
  BY TargetsAssumption DEF TypeOK, Tree
<1>2. RunMeans /\ NothingPlannedYet /\ PlannedAsResolved /\ RemovalsDescribed
  BY DEF RunMeans, NothingPlannedYet, PlannedAsResolved, RemovalsDescribed
<1> QED BY <1>1, <1>2 DEF TargetsInv

LEMMA CommitStep ==
  ASSUME TargetsInv, Commit
  PROVE  TargetsInv'
<1> USE DEF TargetsInv
<1>1. head' \in Tree /\ edits' \in 0..MaxEdits
  BY TargetsAssumption DEF Commit, TypeOK, Tree
<1>2. TypeOK'
  BY <1>1 DEF Commit, TypeOK
<1>3. RunMeans' /\ NothingPlannedYet' /\ PlannedAsResolved' /\ RemovalsDescribed'
  BY DEF Commit, RunMeans, NothingPlannedYet, PlannedAsResolved, RemovalsDescribed
<1> QED BY <1>2, <1>3

LEMMA EnumerateStep ==
  ASSUME TargetsInv, EnumerateTargets
  PROVE  TargetsInv'
<1> USE DEF TargetsInv
<1>1. /\ resolved = None /\ resolved' = head /\ head \in Tree
      /\ Names(head) \cap BadName = {}
      /\ UNCHANGED <<head, run, output, edits>>
      /\ run = None
  BY DEF EnumerateTargets, TypeOK, RunMeans
<1>2. \A n \in Name :
        planned'[n] = IF n \in Names(head) THEN Inputs(head, n) ELSE None
  BY DEF EnumerateTargets, Plan, NothingPlannedYet
<1>3. \A n \in Names(head) : Inputs(head, n).files[Manifest] \in Content
  BY <1>1, TargetsAssumption DEF Names, Inputs, Tree, Path
<1>4. TypeOK'
  BY <1>1, <1>2, <1>3 DEF TypeOK
<1>5. RunMeans' /\ NothingPlannedYet'
  BY <1>1, TargetsAssumption DEF RunMeans, NothingPlannedYet
<1>6. PlannedAsResolved'
  BY <1>1, <1>2 DEF PlannedAsResolved, Names
<1>7. RemovalsDescribed'
  BY <1>1, <1>2 DEF RemovalsDescribed
<1> QED BY <1>4, <1>5, <1>6, <1>7

(* A retirement file that was there stays as it is. *)
LEMMA OutputKept ==
  ASSUME TypeOK, NEW file \in Output, NEW base \in Tree, NEW ack \in SUBSET Name,
         WriteRetirementOutput(file, base, ack)
  PROVE  /\ output' \in [Output -> SUBSET Descriptor]
         /\ \A n \in ack : RetirementDescriptor(base, n) \in output'[file]
         /\ \A f \in Output, d \in Descriptor : d \in output[f] => d \in output'[f]
<1>1. \A n \in ack : RetirementDescriptor(base, n) \in Descriptor
  BY DEF RetirementDescriptor, Descriptor, Tree, Path
<1> QED BY <1>1 DEF WriteRetirementOutput, TypeOK

LEMMA DiffStep ==
  ASSUME TargetsInv, DiffTargets
  PROVE  TargetsInv'
<1> USE DEF TargetsInv
<1>1. PICK from \in Origins(resolved, head), ack \in SUBSET Name :
        LET changed == Changed(resolved, head, from)
        IN  /\ Accepted(resolved, head, changed, ack)
            /\ IF ack = {}
               THEN UNCHANGED output
               ELSE \E file \in Output :
                      WriteRetirementOutput(file, resolved, ack)
            /\ run' = [base |-> resolved, head |-> head, targets |-> changed]
  BY DEF DiffTargets
<1> DEFINE changed == Changed(resolved, head, from)
<1>2. /\ resolved # None /\ UNCHANGED <<head, resolved, planned, edits>>
      /\ resolved \in Tree /\ head \in Tree
  BY DEF DiffTargets, TypeOK
<1>3. /\ output' \in [Output -> SUBSET Descriptor]
      /\ \A n \in ack : \E file \in Output :
           RetirementDescriptor(resolved, n) \in output'[file]
      /\ \A f \in Output, d \in Descriptor : d \in output[f] => d \in output'[f]
  <2>1. CASE ack = {}
    BY <1>1, <2>1 DEF TypeOK
  <2>2. CASE ack # {}
    <3>1. PICK file \in Output : WriteRetirementOutput(file, resolved, ack)
      BY <1>1, <2>2
    <3> QED BY <1>2, <3>1, OutputKept
  <2> QED BY <2>1, <2>2
<1>4. /\ changed \subseteq Name
      /\ changed \subseteq Names(head) \ BadName
      /\ Names(resolved) \ Names(head) = ack
  BY <1>1 DEF Accepted, Names
<1>5. run' \in [base : Tree, head : Tree, targets : SUBSET Name]
  BY <1>1, <1>2, <1>4
<1>6. TypeOK'
  BY <1>2, <1>3, <1>5 DEF TypeOK
<1>7. \A n \in Names(head) :
        n \in changed
        \/ (n \in Names(resolved) /\ Inputs(head, n) = Inputs(resolved, n))
  BY <1>2, UnchangedAgent
<1>8. RunMeans'
  BY <1>1, <1>2, <1>3, <1>4, <1>5, <1>7 DEF RunMeans
<1>9. NothingPlannedYet' /\ PlannedAsResolved'
  BY <1>2 DEF NothingPlannedYet, PlannedAsResolved
<1>10. RemovalsDescribed'
  <2> SUFFICES ASSUME NEW n \in Name \ Names(resolved), planned[n] # None
               PROVE  \E file \in Output :
                        [name |-> n, tree |-> planned[n].files] \in output'[file]
    BY <1>2 DEF RemovalsDescribed
  <2>1. PICK file \in Output :
          [name |-> n, tree |-> planned[n].files] \in output[file]
    BY <1>2 DEF RemovalsDescribed
  <2>2. [name |-> n, tree |-> planned[n].files] \in Descriptor
    BY <2>1 DEF TypeOK
  <2> QED BY <1>3, <2>1, <2>2
<1> QED BY <1>6, <1>8, <1>9, <1>10

LEMMA PrintStep ==
  ASSUME TargetsInv, PrintTargets
  PROVE  TargetsInv'
<1> USE DEF TargetsInv
<1>1. /\ run # None /\ run' = None /\ resolved' = run.head
      /\ UNCHANGED <<head, output, edits>>
      /\ resolved # None
      /\ run.head \in Tree
      /\ run.targets \subseteq Names(run.head) \ BadName
  BY DEF PrintTargets, RunMeans
<1>2. \A n \in Name :
        planned'[n] = IF n \in run.targets THEN Inputs(run.head, n) ELSE planned[n]
  BY DEF PrintTargets, Plan
<1>3. \A n \in Names(run.head) : Inputs(run.head, n).files[Manifest] \in Content
  BY <1>1, TargetsAssumption DEF Names, Inputs, Tree, Path
<1>4. TypeOK'
  BY <1>1, <1>2, <1>3 DEF TypeOK
<1>5. RunMeans' /\ NothingPlannedYet'
  BY <1>1, TargetsAssumption DEF RunMeans, NothingPlannedYet
<1>6. PlannedAsResolved'
  <2> SUFFICES ASSUME NEW n \in Names(run.head)
               PROVE  planned'[n] = Inputs(run.head, n)
    BY <1>1 DEF PlannedAsResolved
  <2>1. n \in Name
    BY DEF Names
  <2>2. CASE n \in run.targets
    BY <1>2, <2>1, <2>2
  <2>3. CASE n \notin run.targets
    <3>1. n \in Names(resolved) /\ Inputs(run.head, n) = Inputs(resolved, n)
      BY <1>1, <2>3 DEF RunMeans
    <3> QED BY <1>1, <1>2, <2>1, <2>3, <3>1 DEF PlannedAsResolved
  <2> QED BY <2>2, <2>3
<1>7. RemovalsDescribed'
  <2> SUFFICES ASSUME NEW n \in Name \ Names(run.head), planned'[n] # None
               PROVE  \E file \in Output :
                        [name |-> n, tree |-> planned'[n].files] \in output[file]
    BY <1>1 DEF RemovalsDescribed
  <2>1. planned'[n] = planned[n]
    BY <1>1, <1>2
  <2>2. CASE n \in Names(resolved)
    <3>1. PICK file \in Output : RetirementDescriptor(resolved, n) \in output[file]
      BY <1>1, <2>2 DEF RunMeans
    <3>2. planned[n] = Inputs(resolved, n)
      BY <1>1, <2>2 DEF PlannedAsResolved
    <3>3. RetirementDescriptor(resolved, n) = [name |-> n, tree |-> planned[n].files]
      BY <3>2 DEF RetirementDescriptor, Inputs
    <3> QED BY <2>1, <3>1, <3>3
  <2>3. CASE n \notin Names(resolved)
    BY <1>1, <2>1, <2>3 DEF RemovalsDescribed
  <2> QED BY <2>2, <2>3
<1> QED BY <1>4, <1>5, <1>6, <1>7

LEMMA InterruptedStep ==
  ASSUME TargetsInv, Interrupted
  PROVE  TargetsInv'
BY DEF TargetsInv, Interrupted, TypeOK, RunMeans, NothingPlannedYet, PlannedAsResolved,
       RemovalsDescribed

LEMMA NextTargets == TargetsInv /\ [Next]_vars => TargetsInv'
<1> SUFFICES ASSUME TargetsInv, [Next]_vars PROVE TargetsInv'
  OBVIOUS
<1>1. CASE Commit           BY <1>1, CommitStep
<1>2. CASE EnumerateTargets BY <1>2, EnumerateStep
<1>3. CASE DiffTargets      BY <1>3, DiffStep
<1>4. CASE PrintTargets     BY <1>4, PrintStep
<1>5. CASE Interrupted      BY <1>5, InterruptedStep
<1>6. CASE UNCHANGED vars
  BY <1>6 DEF vars, TargetsInv, TypeOK, RunMeans, NothingPlannedYet, PlannedAsResolved,
              RemovalsDescribed
<1> QED BY <1>1, <1>2, <1>3, <1>4, <1>5, <1>6 DEF Next

LEMMA TargetsInvariant == Spec => []TargetsInv
BY InitTargets, NextTargets, PTL DEF Spec

-----------------------------------------------------------------------------
(* The theorems *)

(* Only agents with a valid name and a manifest are ever planned. *)
THEOREM TargetsTypeCorrect == Spec => []TypeOK
<1>1. TargetsInv => TypeOK
  BY DEF TargetsInv
<1> QED BY <1>1, TargetsInvariant, PTL

(* However the diffs were cut and the renames detected, every agent of the *)
(* revision resolved last was planned with the files it has there.         *)
THEOREM AlwaysPlannedAsResolved == Spec => []PlannedAsResolved
<1>1. TargetsInv => PlannedAsResolved
  BY DEF TargetsInv
<1> QED BY <1>1, TargetsInvariant, PTL

(* No removed agent is forgotten: a retirement file pins what it was       *)
(* planned with, even when runs are interrupted or start over.             *)
THEOREM RemovalsAlwaysDescribed == Spec => []RemovalsDescribed
<1>1. TargetsInv => RemovalsDescribed
  BY DEF TargetsInv
<1> QED BY <1>1, TargetsInvariant, PTL
=============================================================================
