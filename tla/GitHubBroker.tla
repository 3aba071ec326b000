---------------------------- MODULE GitHubBroker ----------------------------
(***************************************************************************)
(* GitHubBroker of broker.py, as far as one call depends on another: an    *)
(* agent pulls a repository page by page (pullRepository), while the       *)
(* branch it names moves, by the agent's own putFile as well.              *)
(*                                                                         *)
(* A tree maps the paths of its files to blobs; its sha is a digest of     *)
(* that, so a tree is its own snapshot ID.  A call reads the tree once,    *)
(* and then blobs, which never change: it is one step.  A call that fails, *)
(* or whose answer is lost, leaves the agent where it is, to try again.    *)
(***************************************************************************)
EXTENDS Integers, Sequences, SequencesExt, FiniteSetsExt

CONSTANTS
  Path,       \* numbers, in the order of a listing
  Blob,       \* blob IDs
  Size,       \* how long each path's file is, None when it is not text
  PageSize, FileLimit, PageLimit,  \* 10 files, 32768 and 262144 bytes
  MaxMoves,   \* bound of the branch's moves
  None

VARIABLES
  tree,    \* the tree of the branch
  moves,   \* how often it has moved
  cursor,  \* where the agent's pull is, None when it has all pages
  pages    \* the answers that the agent has

vars == <<tree, moves, cursor, pages>>

ASSUME BrokerAssumption ==
  /\ Path \subseteq Nat /\ IsFiniteSet(Path)
  /\ Size \in [Path -> Nat \cup {None}]
  /\ PageSize \in Nat \ {0} /\ FileLimit \in Nat /\ PageLimit \in Nat
  /\ MaxMoves \in Nat
  /\ None \notin Nat

Tree == UNION {[S -> Blob] : S \in SUBSET Path}

Rank(p, t) == Cardinality({q \in DOMAIN t : q <= p})

Listing(t) ==
  [k \in 1..Cardinality(DOMAIN t) |-> CHOOSE p \in DOMAIN t : Rank(p, t) = k]

Slice(s, from) == SubSeq(s, from + 1, Min({from + PageSize, Len(s)}))

Fits(p, bytes) == Size[p] # None /\ Size[p] <= FileLimit /\ bytes + Size[p] <= PageLimit

(* The page's files, one after the other: what is not text, or too long    *)
(* for itself or for what is left of the page, is passed over.             *)
Files(page) ==
  FoldLeft(LAMBDA got, p :
             IF Fits(p, got.bytes)
             THEN [paths |-> Append(got.paths, p), bytes |-> got.bytes + Size[p]]
             ELSE got,
           [paths |-> <<>>, bytes |-> 0], page).paths

(* A plausible slip: the cursor counts the files that were returned. *)
AnswerByFiles(t, from) ==
  LET page == Slice(Listing(t), from)
      paths == Files(page)
      next == from + Len(paths)
  IN  [snapshot |-> t, cursor |-> from, next |-> next,
       more |-> next < Cardinality(DOMAIN t),
       files |-> {<<p, t[p]>> : p \in Range(paths)}]

(* A plausible slip: there is more as long as a page is full. *)
AnswerWhileFull(t, from) ==
  LET page == Slice(Listing(t), from)
      paths == Files(page)
  IN  [snapshot |-> t, cursor |-> from, next |-> from + Len(page),
       more |-> Len(paths) = PageSize,
       files |-> {<<p, t[p]>> : p \in Range(paths)}]

(* The answer to a call with this cursor, when the ref has this tree. *)
Answer(t, from) ==
  LET page == Slice(Listing(t), from)
      paths == Files(page)
      next == from + Len(page)
  IN  [snapshot |-> t, cursor |-> from, next |-> next,
       more |-> next < Cardinality(DOMAIN t),
       files |-> {<<p, t[p]>> : p \in Range(paths)}]

PullRepository ==
  /\ cursor # None
  /\ LET page == Answer(tree, cursor)
     IN  /\ pages' = pages \cup {page}
         /\ cursor' = IF page.more THEN page.next ELSE None
  /\ UNCHANGED <<tree, moves>>

Move(t) ==
  /\ moves < MaxMoves
  /\ t # tree
  /\ tree' = t
  /\ moves' = moves + 1
  /\ UNCHANGED <<cursor, pages>>

(* A plausible slip: content and sha are sent for one another. *)
PutFileSwapped(p, sha, blob) ==
  /\ IF p \in DOMAIN tree THEN sha = tree[p] ELSE sha = None
  /\ Move([q \in DOMAIN tree \cup {p} |-> IF q = p THEN sha ELSE tree[q]])

(* putFile replaces the blob that the agent names, or adds a file where    *)
(* there is none.                                                          *)
PutFile(p, sha, blob) ==
  /\ IF p \in DOMAIN tree THEN sha = tree[p] ELSE sha = None
  /\ Move([q \in DOMAIN tree \cup {p} |-> IF q = p THEN blob ELSE tree[q]])

(* Somebody else pushes to the branch. *)
Push == \E t \in Tree : Move(t)

Init ==
  /\ tree \in Tree
  /\ moves = 0
  /\ cursor = 0
  /\ pages = {}

Next ==
  \/ PullRepository
  \/ \E p \in Path, sha \in Blob \cup {None}, blob \in Blob : PutFile(p, sha, blob)
  \/ Push

Spec == Init /\ [][Next]_vars

(* The agent goes on with its pull, and its calls succeed sooner or later. *)
FairSpec == Spec /\ WF_vars(PullRepository)

-----------------------------------------------------------------------------
(* Properties *)

IsTree(t) == DOMAIN t \subseteq Path /\ \A p \in DOMAIN t : t[p] \in Blob

TypeOK ==
  /\ IsTree(tree)
  /\ moves \in 0..MaxMoves
  /\ cursor \in Nat \cup {None}
  /\ \A page \in pages :
       /\ IsTree(page.snapshot)
       /\ page.cursor \in Nat /\ page.next \in Nat /\ page.more \in BOOLEAN
       /\ page.files \subseteq Path \X Blob

(* A file that was left out for want of room: the files that its page has  *)
(* leave too little of it.                                                 *)
Crowded(p, t) ==
  \E page \in pages :
    /\ Rank(p, t) \in page.cursor + 1 .. page.next
    /\ MapThenSumSet(LAMBDA f : Size[f[1]], page.files) + Size[p] > PageLimit

(* When all pages name one snapshot, the agent has that snapshot: no file  *)
(* twice or of another tree, and every text file within the bounds.  When  *)
(* the branch moved between two pages, their snapshots show it.            *)
SnapshotIsWhole ==
  \A t \in {page.snapshot : page \in pages} :
    (\A page \in pages : page.snapshot = t) =>
      /\ \A page, other \in pages :
           page # other => page.files \cap other.files = {}
      /\ \A page \in pages : \A f \in page.files :
           f[1] \in DOMAIN t /\ f[2] = t[f[1]]
      /\ cursor = None =>
           \A p \in DOMAIN t :
             Fits(p, 0) /\ ~Crowded(p, t) => \E page \in pages : <<p, t[p]>> \in page.files

(* A pull ends, also when a page has no file to show, and when the branch  *)
(* moves, or loses files, meanwhile.                                       *)
PullEnds == <>(cursor = None)
=============================================================================
