------------------------- MODULE TreeEditorsProofs -------------------------
(***************************************************************************)
(* Theorems about the visual builder and the wizard, for every set of      *)
(* Agents and Tools.  The document is carried by SoundDocuments: every     *)
(* operation on documents keeps one that refers only to what it holds, so  *)
(* whatever the page, its history, a save on its way or the server has is  *)
(* sound.  The wizard edits lists: Coherent lists make sound documents,    *)
(* until an answer replaces them under an open editor.                     *)
(***************************************************************************)
EXTENDS StudioProofs, ToolsPageProofs, SequenceTheorems, WellFoundedInduction

-----------------------------------------------------------------------------
(* Documents.                                                              *)

\* A document that refers only to what it holds.
SoundDocuments == {d \in Documents : IsHierarchy(d)}

MayLead(up, a) ==
  \/ up \in Roots /\ a \in Managers
  \/ up \in Managers /\ a \in Specialists

Parents(A) ==
  {parent \in [A -> A \union {Nobody}] : \A a \in A : parent[a] # Nobody => MayLead(parent[a], a)}

LEMMA Roles ==
  /\ Roots \subseteq Nat /\ Managers \subseteq Nat /\ Specialists \subseteq Nat /\ Agents \subseteq Nat
  /\ Roots \cap Managers = {} /\ Roots \cap Specialists = {} /\ Managers \cap Specialists = {}
  /\ Agents = Roots \union Managers \union Specialists
  /\ Nobody \notin Agents /\ IsFiniteSet(Agents)
BY StudioAssumption DEF Agents

SmallerThan == {p \in Nat \X Nat : p[1] < p[2]}

LEMMA LeastOf ==
  ASSUME NEW S \in SUBSET Nat, S # {}
  PROVE  Min(S) \in S
<1>1. IsWellFoundedOn(SmallerThan, Nat)
  BY NatLessThanWellFounded DEF OpToRel, SmallerThan
<1>2. PICK x \in S : \A y \in S : ~(<<y, x>> \in SmallerThan)
  BY <1>1, WFMin
<1>3. ASSUME NEW y \in S
      PROVE  x <= y
  <2>1. x \in Nat /\ y \in Nat /\ ~(<<y, x>> \in SmallerThan)
    BY <1>2
  <2>2. ~(y < x)
    BY <2>1 DEF SmallerThan
  <2> QED  BY <2>1, <2>2
<1> QED  BY <1>2, <1>3 DEF Min

LEMMA LeastIsMember ==
  ASSUME NEW S \in {Roots, Managers, Specialists}
  PROVE  Min(S) \in S
<1>1. S # {} /\ S \in SUBSET Nat
  BY StudioAssumption DEF Agents
<1> QED  BY <1>1, LeastOf

\* Members of a set of one at most are equal.
LEMMA OneAtMost ==
  ASSUME NEW S, IsFiniteSet(S), Cardinality(S) <= 1, NEW x \in S, NEW y \in S
  PROVE  x = y
<1>1. CASE x # y
  <2>1. IsFiniteSet({x}) /\ Cardinality({x}) = 1
    BY FS_Singleton
  <2>2. IsFiniteSet({x} \union {y}) /\ Cardinality({x} \union {y}) = 2
    <3>1. y \notin {x}
      BY <1>1
    <3>2. Cardinality({x} \cup {y}) = Cardinality({x}) + 1 /\ IsFiniteSet({x} \cup {y})
      BY <2>1, <3>1, FS_AddElement
    <3> QED  BY <2>1, <3>2
  <2>3. {x} \union {y} \in SUBSET S
    OBVIOUS
  <2>4. Cardinality({x} \union {y}) <= Cardinality(S) /\ Cardinality(S) \in Nat
    BY <2>3, FS_Subset, FS_CardinalityType
  <2> QED  BY <2>2, <2>4
<1> QED  BY <1>1

\* What a sound document is made of.
LEMMA SoundHas ==
  ASSUME NEW d \in SoundDocuments
  PROVE  /\ d \in Documents /\ d.named \in BOOLEAN
         /\ Members(d) \subseteq Agents /\ d.parent \in Parents(Members(d))
         /\ \A x, y \in Roots \cap Members(d) : x = y
         /\ d.peers \subseteq Managers \X Managers
         /\ \A p \in d.peers : p[1] \in Members(d) /\ p[2] \in Members(d) /\ p[1] # p[2]
         /\ d.tools \subseteq Agents \X Tools /\ \A t \in d.tools : t[1] \in Members(d)
<1>1. d \in Documents /\ IsHierarchy(d)
  BY DEF SoundDocuments
<1>2. PICK A \in SUBSET Agents : d.parent \in [A -> A \union {Nobody}]
  BY <1>1 DEF Documents
<1>3. Members(d) = A
  BY <1>2 DEF Members
<1>4. /\ d.named \in BOOLEAN /\ d.peers \subseteq Managers \X Managers
      /\ d.tools \subseteq Agents \X Tools
  BY <1>1 DEF Documents
<1>5. ASSUME NEW a \in A, d.parent[a] # Nobody
      PROVE  MayLead(d.parent[a], a)
  <2>1. <<d.parent[a], a>> \in HierarchyEdges(d)
    BY <1>3, <1>5 DEF HierarchyEdges
  <2>2. canConnect(d, d.parent[a], a)
    BY <1>1, <2>1 DEF IsHierarchy
  <2> QED  BY <2>2 DEF canConnect, MayLead
<1>6. d.parent \in Parents(Members(d))
  BY <1>2, <1>3, <1>5 DEF Parents
<1>7. ASSUME NEW x \in Roots \cap Members(d), NEW y \in Roots \cap Members(d)
      PROVE  x = y
  <2>1. IsFiniteSet(Roots \cap Members(d))
    BY Roles, FS_Subset
  <2>2. Cardinality(Roots \cap Members(d)) <= 1
    BY <1>1 DEF IsHierarchy
  <2> QED  BY <1>7, <2>1, <2>2, OneAtMost
<1>8. \A p \in d.peers : p[1] \in Members(d) /\ p[2] \in Members(d) /\ p[1] # p[2]
  BY <1>1 DEF IsHierarchy, PeersExist
<1>9. \A t \in d.tools : t[1] \in Members(d)
  BY <1>1 DEF IsHierarchy
<1> QED  BY <1>1, <1>3, <1>4, <1>6, <1>7, <1>8, <1>9

LEMMA OneOrNoneCounts ==
  ASSUME NEW S, \A x, y \in S : x = y
  PROVE  Cardinality(S) <= 1
<1>1. CASE S = {}
  BY <1>1, FS_EmptySet
<1>2. ASSUME NEW x \in S
      PROVE  Cardinality(S) <= 1
  <2>1. S = {x}
    BY <1>2
  <2> QED  BY <2>1, FS_Singleton
<1> QED  BY <1>1, <1>2

\* And that whatever is made so is sound.
LEMMA MakesSound ==
  ASSUME NEW A \in SUBSET Agents, NEW parent \in Parents(A),
         \A x, y \in Roots \cap A : x = y,
         NEW peers \in SUBSET (Managers \X Managers),
         \A p \in peers : p[1] \in A /\ p[2] \in A /\ p[1] # p[2],
         NEW bound \in SUBSET (Agents \X Tools), \A t \in bound : t[1] \in A,
         NEW d, d.named \in BOOLEAN,
         d = [named |-> d.named, parent |-> parent, peers |-> peers, tools |-> bound]
  PROVE  d \in SoundDocuments /\ Members(d) = A
<1>1. parent \in [A -> A \union {Nobody}] /\ \A a \in A : parent[a] # Nobody => MayLead(parent[a], a)
  BY DEF Parents
<1>2. d \in Documents
  BY <1>1 DEF Documents
<1>3. Members(d) = A
  BY <1>1 DEF Members
<1>4. ASSUME NEW e \in HierarchyEdges(d)
      PROVE  canConnect(d, e[1], e[2])
  <2>1. PICK a \in A : parent[a] # Nobody /\ e = <<parent[a], a>>
    BY <1>3 DEF HierarchyEdges
  <2>2. MayLead(parent[a], a) /\ parent[a] \in A
    BY <1>1, <2>1
  <2> QED  BY <1>3, <2>1, <2>2 DEF canConnect, MayLead
<1>5. Cardinality(Roots \cap Members(d)) <= 1
  BY <1>3, OneOrNoneCounts
<1> QED  BY <1>2, <1>3, <1>4, <1>5 DEF SoundDocuments, IsHierarchy, PeersExist

LEMMA SoundRecord ==
  ASSUME NEW d \in SoundDocuments
  PROVE  d = [named |-> d.named, parent |-> d.parent, peers |-> d.peers, tools |-> d.tools]
BY DEF SoundDocuments, Documents

-----------------------------------------------------------------------------
(* The operations on documents keep them sound.                            *)

LEMMA EmptyIsSound == newDocument \in SoundDocuments
<1>1. [a \in {} |-> Nobody] \in [{} -> {} \union {Nobody}]
  OBVIOUS
<1>2. newDocument \in Documents
  BY <1>1 DEF newDocument, Documents
<1>3. Members(newDocument) = {} /\ HierarchyEdges(newDocument) = {}
  BY DEF newDocument, Members, HierarchyEdges
<1>4. Cardinality(Roots \cap Members(newDocument)) <= 1
  BY <1>3, OneOrNoneCounts
<1>5. newDocument.peers = {} /\ newDocument.tools = {}
  BY DEF newDocument
<1> QED  BY <1>2, <1>3, <1>4, <1>5 DEF SoundDocuments, IsHierarchy, PeersExist

LEMMA RenamedIsSound ==
  ASSUME NEW d \in SoundDocuments
  PROVE  [d EXCEPT !.named = ~@] \in SoundDocuments
<1>1. PICK e : e = [d EXCEPT !.named = ~@]
  OBVIOUS
<1>2. d \in Documents /\ IsHierarchy(d)
  BY DEF SoundDocuments
<1>3. e \in Documents
  BY <1>1, <1>2 DEF Documents
<1>4. e.parent = d.parent /\ e.peers = d.peers /\ e.tools = d.tools
  BY <1>1, <1>2 DEF Documents
<1>5. Members(e) = Members(d) /\ HierarchyEdges(e) = HierarchyEdges(d)
  BY <1>4 DEF Members, HierarchyEdges
<1>6. IsHierarchy(e)
  BY <1>2, <1>4, <1>5 DEF IsHierarchy, canConnect, PeersExist
<1> QED  BY <1>1, <1>3, <1>6 DEF SoundDocuments

LEMMA PeersAreSound ==
  ASSUME NEW d \in SoundDocuments, NEW peers \in SUBSET (Managers \X Managers),
         \A p \in peers : p[1] \in Members(d) /\ p[2] \in Members(d) /\ p[1] # p[2]
  PROVE  [d EXCEPT !.peers = peers] \in SoundDocuments
<1>1. [d EXCEPT !.peers = peers] = [named |-> d.named, parent |-> d.parent, peers |-> peers, tools |-> d.tools]
  BY SoundRecord
<1> QED  BY <1>1, SoundHas, MakesSound

LEMMA ToolsAreSound ==
  ASSUME NEW d \in SoundDocuments, NEW bound \in SUBSET (Agents \X Tools),
         \A t \in bound : t[1] \in Members(d)
  PROVE  [d EXCEPT !.tools = bound] \in SoundDocuments
<1>1. [d EXCEPT !.tools = bound] = [named |-> d.named, parent |-> d.parent, peers |-> d.peers, tools |-> bound]
  BY SoundRecord
<1> QED  BY <1>1, SoundHas, MakesSound

LEMMA ParentsAreSound ==
  ASSUME NEW d \in SoundDocuments, NEW parent \in Parents(Members(d))
  PROVE  [d EXCEPT !.parent = parent] \in SoundDocuments
<1>1. [d EXCEPT !.parent = parent] = [named |-> d.named, parent |-> parent, peers |-> d.peers, tools |-> d.tools]
  BY SoundRecord
<1>2. /\ d.named \in BOOLEAN /\ Members(d) \in SUBSET Agents
      /\ \A x, y \in Roots \cap Members(d) : x = y
      /\ d.peers \in SUBSET (Managers \X Managers)
      /\ \A p \in d.peers : p[1] \in Members(d) /\ p[2] \in Members(d) /\ p[1] # p[2]
      /\ d.tools \in SUBSET (Agents \X Tools) /\ \A t \in d.tools : t[1] \in Members(d)
  BY SoundHas
<1> HIDE DEF SoundDocuments, Parents, Members
<1> QED  BY <1>1, <1>2, MakesSound

LEMMA AttachedIsSound ==
  ASSUME NEW d \in SoundDocuments, NEW a \in Members(d), NEW t \in Tools
  PROVE  attachTool(d, a, t) \in SoundDocuments
<1>1. d.tools \union {<<a, t>>} \in SUBSET (Agents \X Tools)
  BY SoundHas
<1>2. \A b \in d.tools \union {<<a, t>>} : b[1] \in Members(d)
  BY SoundHas
<1>3. attachTool(d, a, t) = [d EXCEPT !.tools = d.tools \union {<<a, t>>}]
  BY DEF attachTool
<1> QED  BY <1>1, <1>2, <1>3, ToolsAreSound

LEMMA DetachedIsSound ==
  ASSUME NEW d \in SoundDocuments, NEW a, NEW t
  PROVE  detachTool(d, a, t) \in SoundDocuments
<1>1. d.tools \ {<<a, t>>} \in SUBSET (Agents \X Tools)
  BY SoundHas
<1>2. \A b \in d.tools \ {<<a, t>>} : b[1] \in Members(d)
  BY SoundHas
<1>3. detachTool(d, a, t) = [d EXCEPT !.tools = d.tools \ {<<a, t>>}]
  BY DEF detachTool
<1> QED  BY <1>1, <1>2, <1>3, ToolsAreSound

LEMMA AddedIsSound ==
  ASSUME NEW d \in SoundDocuments, NEW a, CanAdd(d, a)
  PROVE  addAgent(d, a) \in SoundDocuments /\ Members(addAgent(d, a)) = Members(d) \union {a}
<1> DEFINE A == Members(d) \union {a}
           parent == [b \in A |-> IF b = a THEN Nobody ELSE d.parent[b]]
<1>1. a \in Agents /\ a \notin Members(d) /\ (a \in Roots => Roots \cap Members(d) = {})
  BY DEF CanAdd
<1>2. d.parent \in [Members(d) -> Members(d) \union {Nobody}]
      /\ \A b \in Members(d) : d.parent[b] # Nobody => MayLead(d.parent[b], b)
  BY SoundHas DEF Parents
<1>3. parent \in Parents(A)
  BY <1>1, <1>2 DEF Parents
<1>4. A \in SUBSET Agents /\ \A x, y \in Roots \cap A : x = y
  BY <1>1, SoundHas
<1>5. addAgent(d, a) = [named |-> d.named, parent |-> parent, peers |-> d.peers, tools |-> d.tools]
  BY SoundRecord DEF addAgent
<1>6. d.named \in BOOLEAN /\ d.peers \in SUBSET (Managers \X Managers) /\ d.tools \in SUBSET (Agents \X Tools)
  BY SoundHas
<1>7. /\ \A p \in d.peers : p[1] \in A /\ p[2] \in A /\ p[1] # p[2]
      /\ \A t \in d.tools : t[1] \in A
  BY SoundHas
<1> HIDE DEF A, parent
<1>8. addAgent(d, a) \in SoundDocuments /\ Members(addAgent(d, a)) = A
  BY <1>3, <1>4, <1>5, <1>6, <1>7, MakesSound
<1> QED  BY <1>8 DEF A

LEMMA ConnectedIsSound ==
  ASSUME NEW d \in SoundDocuments, NEW up, NEW a, canConnect(d, up, a)
  PROVE  connectAgents(d, up, a) \in SoundDocuments
<1>1. up \in Members(d) /\ a \in Members(d) /\ MayLead(up, a)
  BY DEF canConnect, MayLead
<1>2. d.parent \in [Members(d) -> Members(d) \union {Nobody}]
      /\ \A b \in Members(d) : d.parent[b] # Nobody => MayLead(d.parent[b], b)
  BY SoundHas DEF Parents
<1>3. [d.parent EXCEPT ![a] = up] \in Parents(Members(d))
  BY <1>1, <1>2 DEF Parents
<1>4. connectAgents(d, up, a) = [d EXCEPT !.parent = [d.parent EXCEPT ![a] = up]]
  BY DEF connectAgents
<1> QED  BY <1>3, <1>4, ParentsAreSound

LEMMA OrphanIsSound ==
  ASSUME NEW d \in SoundDocuments, NEW a \in Members(d)
  PROVE  [d EXCEPT !.parent[a] = Nobody] \in SoundDocuments
<1>2. d.parent \in [Members(d) -> Members(d) \union {Nobody}]
      /\ \A b \in Members(d) : d.parent[b] # Nobody => MayLead(d.parent[b], b)
  BY SoundHas DEF Parents
<1>3. [d.parent EXCEPT ![a] = Nobody] \in Parents(Members(d))
  BY <1>2 DEF Parents
<1>4. [d EXCEPT !.parent[a] = Nobody] = [d EXCEPT !.parent = [d.parent EXCEPT ![a] = Nobody]]
  OBVIOUS
<1> QED  BY <1>3, <1>4, ParentsAreSound

\* The hierarchy has two levels: what is below the deleted Agents goes with
\* them, and no Agent that stays has lost its parent.
LEMMA ParentsStay ==
  ASSUME NEW d \in SoundDocuments, NEW ids \in SUBSET Members(d),
         NEW a \in Members(d) \ descendants(d, ids), d.parent[a] # Nobody
  PROVE  d.parent[a] \in Members(d) \ descendants(d, ids)
<1>1. d.parent \in [Members(d) -> Members(d) \union {Nobody}]
      /\ \A b \in Members(d) : d.parent[b] # Nobody => MayLead(d.parent[b], b)
  BY SoundHas DEF Parents
<1>2. d.parent[a] \in Members(d) /\ MayLead(d.parent[a], a)
  BY <1>1
<1>3. d.parent[a] \notin ids \union Children(d, ids)
  BY DEF descendants, Children
<1>4. ASSUME d.parent[a] \in Children(d, Children(d, ids))
      PROVE  FALSE
  <2>1. PICK c : c = d.parent[a] /\ c \in Members(d) /\ d.parent[c] \in Children(d, ids)
    BY <1>4 DEF Children
  <2>2. PICK b : b = d.parent[c] /\ b \in Members(d) /\ d.parent[b] \in ids
    BY <2>1 DEF Children
  <2>3. b # Nobody /\ d.parent[b] # Nobody /\ c # Nobody
    BY <1>2, <2>1, <2>2, Roles, SoundHas
  <2>4. MayLead(d.parent[b], b) /\ MayLead(b, c) /\ MayLead(c, a)
    BY <1>1, <1>2, <2>1, <2>2, <2>3
  <2> QED  BY <2>4, Roles DEF MayLead
<1> QED  BY <1>2, <1>3, <1>4 DEF descendants

LEMMA DeletedIsSound ==
  ASSUME NEW d \in SoundDocuments, NEW ids \in SUBSET Members(d)
  PROVE  deleteAgents(d, ids) \in SoundDocuments
<1> DEFINE A == Members(d) \ descendants(d, ids)
           parent == [a \in A |-> d.parent[a]]
           peers == {p \in d.peers : p[2] \in A /\ p[1] \in A}
           bound == {t \in d.tools : t[1] \in A}
<1>1. d.parent \in [Members(d) -> Members(d) \union {Nobody}]
      /\ \A b \in Members(d) : d.parent[b] # Nobody => MayLead(d.parent[b], b)
  BY SoundHas DEF Parents
<1>2. \A a \in A : d.parent[a] # Nobody => d.parent[a] \in A
  BY ParentsStay
<1>3. parent \in Parents(A)
  BY <1>1, <1>2 DEF Parents
<1>4. A \in SUBSET Agents /\ \A x, y \in Roots \cap A : x = y
  BY SoundHas
<1>5. deleteAgents(d, ids) = [named |-> d.named, parent |-> parent, peers |-> peers, tools |-> bound]
  <2>1. deleteAgents(d, ids) = [d EXCEPT !.parent = parent, !.peers = peers, !.tools = bound]
    BY DEF deleteAgents
  <2> HIDE DEF parent, peers, bound
  <2> QED  BY <2>1, SoundRecord
<1>6. d.named \in BOOLEAN /\ peers \in SUBSET (Managers \X Managers) /\ bound \in SUBSET (Agents \X Tools)
  BY SoundHas
<1>7. /\ \A p \in peers : p[1] \in A /\ p[2] \in A /\ p[1] # p[2]
      /\ \A t \in bound : t[1] \in A
  BY SoundHas
<1> HIDE DEF A, parent, peers, bound
<1> QED  BY <1>3, <1>4, <1>5, <1>6, <1>7, MakesSound

\* The Tree that the page finds at the server.
LEMMA StoredIsSound == Stored \in SoundDocuments
<1> DEFINE A == {Min(Roots), Min(Managers)} \union Specialists
           parent == [a \in A |-> CASE a \in Roots -> Nobody [] a \in Managers -> Min(Roots)
                                    [] OTHER -> Min(Managers)]
           bound == Specialists \X Tools
<1>1. Min(Roots) \in Roots /\ Min(Managers) \in Managers
  BY LeastIsMember
<1>2. \A a \in A : \/ a \in Roots /\ a = Min(Roots) /\ parent[a] = Nobody
                   \/ a \in Managers /\ parent[a] = Min(Roots)
                   \/ a \in Specialists /\ parent[a] = Min(Managers)
  BY <1>1, Roles
<1>3. parent \in [A -> A \union {Nobody}]
  BY <1>2
<1>4. parent \in Parents(A)
  BY <1>1, <1>2, <1>3 DEF Parents, MayLead
<1>5. A \in SUBSET Agents /\ \A x, y \in Roots \cap A : x = y
  BY <1>1, Roles
<1>6. /\ Stored.named \in BOOLEAN
      /\ Stored = [named |-> Stored.named, parent |-> parent, peers |-> {}, tools |-> bound]
  <2>1. Stored = [newDocument EXCEPT !.parent = parent, !.tools = bound]
    BY DEF Stored
  <2> HIDE DEF parent, bound
  <2> QED  BY <2>1 DEF newDocument
<1>7. /\ bound \in SUBSET (Agents \X Tools) /\ \A t \in bound : t[1] \in A
      /\ {} \in SUBSET (Managers \X Managers)
      /\ \A p \in {} : p[1] \in A /\ p[2] \in A /\ p[1] # p[2]
  BY Roles
<1> HIDE DEF A, parent, bound
<1> QED  BY <1>4, <1>5, <1>6, <1>7, MakesSound

-----------------------------------------------------------------------------
(* The builder.                                                            *)

BuilderSnaps == [doc : SoundDocuments, look : {"loaded", "between", "arranged", "tidy"}]
MaybeSound   == SoundDocuments \union {NoDocument}
BuilderRoutes == 0..MaxSaves + 1
Verdicts     == {"none", "valid", "invalid"}
Checks       == {"idle", "due"}
Histories    == Seq(BuilderSnaps)
BuilderRows  == [doc : MaybeSound, ready : BOOLEAN]

BuilderPages ==
  [open : BOOLEAN, route : BuilderRoutes, tree : BuilderRoutes, ready : BOOLEAN,
   snap : BuilderSnaps, committed : BuilderSnaps, past : Histories,
   future : Histories, baseline : MaybeSound, loading : BOOLEAN,
   load : {"idle", "asked", "answered"}, read : BuilderRows,
   verdict : Verdicts, check : Checks, saving : BOOLEAN,
   blocked : BOOLEAN, origin : MaybeSound]

BuilderSaves ==
  [at : {"idle", "put", "mark", "get", "done", "failed", "over"}, doc : MaybeSound,
   mark : BOOLEAN, leaving : BOOLEAN, tree : BuilderRoutes, ready : BOOLEAN, fresh : BOOLEAN]

\* The verdict is of the document on screen.
VerdictHolds(page) == page.verdict = "valid" => Valid(page.snap.doc)
\* The history holds no more than it may, and is anchored in what is shown.
HistoryHolds(page) ==
  /\ Len(page.past) + Len(page.future) <= HistoryLimit
  /\ page.open /\ page.snap.look # "between" => page.committed = page.snap
PageHolds(page) == page \in BuilderPages /\ VerdictHolds(page) /\ HistoryHolds(page)

\* What the page takes for saved is what the server has.
BaseHolds(page, trees, torn) ==
  page.open /\ page.tree # 0 /\ ~torn
    => page.baseline # NoDocument /\ page.baseline = trees[page.tree].doc

\* A row without a document is none, and a save past its first answer has one.
RowHolds(row)  == row.doc = NoDocument => row = NoTree
SaveHolds(c, trees) ==
  /\ c.at \in {"put", "mark", "get", "done"} => c.doc # NoDocument
  /\ c.at \in {"mark", "get", "done"} => c.tree # 0 /\ trees[c.tree].doc # NoDocument

BuilderInv ==
  /\ tbTrees \in [TreeIds -> BuilderRows] /\ \A t \in TreeIds : RowHolds(tbTrees[t])
  /\ PageHolds(tbPage) /\ RowHolds(tbPage.read)
  /\ tbSaves \in [1..MaxSaves -> BuilderSaves]
  /\ \A k \in 1..MaxSaves : SaveHolds(tbSaves[k], tbTrees)
  /\ tbTorn \in BOOLEAN
  /\ BaseHolds(tbPage, tbTrees, tbTorn)

LEMMA BuilderBounds ==
  /\ MaxSaves \in Nat /\ HistoryLimit \in Nat \ {0}
  /\ NoDocument \notin SoundDocuments /\ TreeIds \subseteq BuilderRoutes
  /\ 0 \in BuilderRoutes /\ 0 \notin TreeIds /\ 1 \in TreeIds
BY StudioAssumption DEF SoundDocuments, TreeIds, BuilderRoutes

LEMMA PartIsSmaller ==
  ASSUME NEW a \in Nat, NEW b \in Nat, NEW c \in Nat, a + b <= c
  PROVE  a <= c /\ b <= c
OBVIOUS

LEMMA SnapshotIsSnap ==
  ASSUME NEW d \in SoundDocuments, NEW look \in {"loaded", "between", "arranged", "tidy"}
  PROVE  /\ Snapshot(d, look) \in BuilderSnaps
         /\ Snapshot(d, look).doc = d /\ Snapshot(d, look).look = look
BY DEF Snapshot, BuilderSnaps

\* What a page shows is replaced, with its verdict.
Turned(page, snap, verdict, check) ==
  [page EXCEPT !.snap = snap, !.verdict = verdict, !.check = check]

LEMMA TurnedIs ==
  ASSUME NEW page \in BuilderPages, NEW snap \in BuilderSnaps,
         NEW verdict \in Verdicts, NEW check \in Checks
  PROVE  \E q \in BuilderPages :
           /\ q = Turned(page, snap, verdict, check) /\ q.snap = snap /\ q.verdict = verdict
           /\ q.open = page.open /\ q.tree = page.tree /\ q.baseline = page.baseline
           /\ q.committed = page.committed /\ q.past = page.past /\ q.future = page.future
           /\ q.read = page.read
<1>1. PICK q : q = Turned(page, snap, verdict, check)
  OBVIOUS
<1>2. q \in BuilderPages
  BY <1>1 DEF Turned, BuilderPages, Verdicts, Checks
<1> QED  BY <1>1, <1>2 DEF Turned, BuilderPages, Verdicts, Checks

LEMMA ShownTurns ==
  ASSUME NEW page \in BuilderPages, NEW snap \in BuilderSnaps, VerdictHolds(page)
  PROVE  \E verdict \in Verdicts, check \in Checks :
           /\ Shown(page, snap) = Turned(page, snap, verdict, check)
           /\ verdict = "valid" => Valid(snap.doc)
<1>1. page.verdict \in Verdicts /\ page.check \in Checks
  BY DEF BuilderPages
<1>2. CASE snap.doc = page.snap.doc
  <2>1. Shown(page, snap) = Turned(page, snap, page.verdict, page.check)
    BY <1>2 DEF Shown, Turned, BuilderPages
  <2>2. page.verdict = "valid" => Valid(snap.doc)
    BY <1>2 DEF VerdictHolds
  <2> QED  BY <1>1, <2>1, <2>2
<1>3. CASE snap.doc # page.snap.doc
  <2>1. Shown(page, snap) = Rechecked([page EXCEPT !.snap = snap])
    BY <1>3 DEF Shown
  <2>2. \/ Shown(page, snap) = Turned(page, snap, "none", "due")
        \/ Shown(page, snap) = Turned(page, snap, "invalid", "idle")
    BY <2>1 DEF Rechecked, Turned, BuilderPages
  <2>3. {"none", "invalid"} \subseteq Verdicts /\ {"due", "idle"} \subseteq Checks
    BY DEF Verdicts, Checks
  <2> QED  BY <2>2, <2>3
<1> QED  BY <1>2, <1>3

LEMMA ShownKeeps ==
  ASSUME NEW page \in BuilderPages, NEW snap \in BuilderSnaps, VerdictHolds(page)
  PROVE  \E q \in BuilderPages :
           /\ q = Shown(page, snap) /\ VerdictHolds(q) /\ q.snap = snap
           /\ q.open = page.open /\ q.tree = page.tree /\ q.baseline = page.baseline
           /\ q.committed = page.committed /\ q.past = page.past /\ q.future = page.future
           /\ q.read = page.read
<1>1. PICK verdict \in Verdicts, check \in Checks :
        /\ Shown(page, snap) = Turned(page, snap, verdict, check)
        /\ verdict = "valid" => Valid(snap.doc)
  BY ShownTurns
<1>2. PICK q \in BuilderPages :
        /\ q = Turned(page, snap, verdict, check) /\ q.snap = snap /\ q.verdict = verdict
        /\ q.open = page.open /\ q.tree = page.tree /\ q.baseline = page.baseline
        /\ q.committed = page.committed /\ q.past = page.past /\ q.future = page.future
        /\ q.read = page.read
  BY TurnedIs
<1>3. VerdictHolds(q)
  BY <1>1, <1>2 DEF VerdictHolds
<1> QED  BY <1>1, <1>2, <1>3

\* The history of a page is replaced.
WithHistory(page, past, future, committed) ==
  [page EXCEPT !.past = past, !.future = future, !.committed = committed]

LEMMA WithHistoryIs ==
  ASSUME NEW page \in BuilderPages, NEW past \in Histories, NEW future \in Histories,
         NEW committed \in BuilderSnaps
  PROVE  \E q \in BuilderPages :
           /\ q = WithHistory(page, past, future, committed)
           /\ q.past = past /\ q.future = future /\ q.committed = committed
           /\ q.open = page.open /\ q.tree = page.tree /\ q.baseline = page.baseline
           /\ q.snap = page.snap /\ q.verdict = page.verdict /\ q.read = page.read
<1>1. PICK q : q = WithHistory(page, past, future, committed)
  OBVIOUS
<1>2. q \in BuilderPages
  BY <1>1 DEF WithHistory, BuilderPages
<1> QED  BY <1>1, <1>2 DEF WithHistory, BuilderPages

\* A commit anchors the history in what it shows.
LEMMA RecordedHolds ==
  ASSUME NEW page \in BuilderPages, PageHolds(page), NEW snap \in BuilderSnaps
  PROVE  \E q \in BuilderPages :
           /\ q = Recorded(page, snap) /\ PageHolds(q)
           /\ q.open = page.open /\ q.tree = page.tree /\ q.baseline = page.baseline
           /\ q.read = page.read
<1>1. VerdictHolds(page) /\ HistoryHolds(page)
  BY DEF PageHolds
<1>2. PICK s \in BuilderPages :
        /\ s = Shown(page, snap) /\ VerdictHolds(s) /\ s.snap = snap
        /\ s.open = page.open /\ s.tree = page.tree /\ s.baseline = page.baseline
        /\ s.committed = page.committed /\ s.past = page.past /\ s.future = page.future
        /\ s.read = page.read
  BY <1>1, ShownKeeps
<1>4. CASE page.committed = snap
  <2>1. s = Recorded(page, snap)
    BY <1>2, <1>4 DEF Recorded
  <2>2. HistoryHolds(s)
    BY <1>1, <1>2, <1>4 DEF HistoryHolds
  <2> QED  BY <1>2, <2>1, <2>2 DEF PageHolds
<1>5. CASE page.committed # snap
  <2> DEFINE room == IF Len(s.past) < HistoryLimit THEN s.past ELSE Tail(s.past)
             past == Append(room, page.committed)
  <2>1. page.committed \in BuilderSnaps /\ s.past \in Seq(BuilderSnaps) /\ Len(s.past) <= HistoryLimit
    <3>1. page.past \in Seq(BuilderSnaps) /\ page.future \in Seq(BuilderSnaps) /\ page.committed \in BuilderSnaps
      BY DEF BuilderPages, Histories
    <3>2. Len(page.past) \in Nat /\ Len(page.future) \in Nat
      BY <3>1, LenProperties
    <3>3. Len(page.past) + Len(page.future) <= HistoryLimit
      BY <1>1 DEF HistoryHolds
    <3>4. Len(page.past) <= HistoryLimit
      BY <3>2, <3>3, BuilderBounds, PartIsSmaller
    <3> QED  BY <1>2, <3>1, <3>4
  <2>2. room \in Seq(BuilderSnaps) /\ Len(room) + 1 <= HistoryLimit
    <3>1. CASE Len(s.past) < HistoryLimit
      BY <2>1, <3>1, LenProperties, BuilderBounds
    <3>2. CASE ~(Len(s.past) < HistoryLimit)
      <4>1. Len(s.past) = HistoryLimit /\ s.past # <<>>
        BY <2>1, <3>2, LenProperties, BuilderBounds
      <4>2. Tail(s.past) \in Seq(BuilderSnaps) /\ Len(Tail(s.past)) = Len(s.past) - 1
        BY <2>1, <4>1, HeadTailProperties
      <4> QED  BY <3>2, <4>1, <4>2, BuilderBounds
    <3> QED  BY <3>1, <3>2
  <2>3. past \in Seq(BuilderSnaps) /\ Len(past) <= HistoryLimit
    <3> HIDE DEF room
    <3> QED  BY <2>1, <2>2, AppendProperties
  <2>4. Recorded(page, snap) = WithHistory(s, past, <<>>, snap)
    <3>1. Recorded(page, snap)
            = [s EXCEPT !.past = Append(IF Len(@) < HistoryLimit THEN @ ELSE Tail(@), page.committed),
                        !.future = <<>>, !.committed = snap]
      BY <1>2, <1>5 DEF Recorded
    <3> QED  BY <3>1 DEF WithHistory
  <2>5. <<>> \in Seq(BuilderSnaps) /\ Len(<<>>) = 0
    BY EmptySeq
  <2> HIDE DEF past, room
  <2>6. PICK q \in BuilderPages :
          /\ q = WithHistory(s, past, <<>>, snap)
          /\ q.past = past /\ q.future = <<>> /\ q.committed = snap
          /\ q.open = s.open /\ q.tree = s.tree /\ q.baseline = s.baseline
          /\ q.snap = s.snap /\ q.verdict = s.verdict /\ q.read = s.read
    <3>1. past \in Histories /\ <<>> \in Histories
      BY <2>3, <2>5 DEF Histories
    <3> QED  BY <3>1, WithHistoryIs
  <2>7. Len(past) + Len(<<>>) <= HistoryLimit
    BY <2>3, <2>5, LenProperties, BuilderBounds
  <2>8. VerdictHolds(q) /\ HistoryHolds(q)
    BY <1>2, <2>6, <2>7 DEF VerdictHolds, HistoryHolds
  <2> QED  BY <1>2, <2>4, <2>6, <2>8 DEF PageHolds
<1> QED  BY <1>4, <1>5

-----------------------------------------------------------------------------
(* Steps of the builder's page alone.                                      *)

LEMMA PageMoves ==
  ASSUME BuilderInv, NEW q \in BuilderPages, tbPage' = q, PageHolds(q), RowHolds(q.read),
         BaseHolds(q, tbTrees, tbTorn), UNCHANGED <<tbTrees, tbSaves, tbTorn>>
  PROVE  BuilderInv'
<1>1. tbTrees' = tbTrees /\ tbSaves' = tbSaves /\ tbTorn' = tbTorn
  OBVIOUS
<1> QED  BY <1>1 DEF BuilderInv

LEMMA EditMoves ==
  ASSUME BuilderInv, NEW q \in BuilderPages, tbPage' = q, PageHolds(q), q.read = tbPage.read,
         q.open = tbPage.open, q.tree = tbPage.tree, q.baseline = tbPage.baseline,
         UNCHANGED <<tbTrees, tbSaves, tbTorn>>
  PROVE  BuilderInv'
<1>1. RowHolds(q.read)
  BY DEF BuilderInv
<1>2. BaseHolds(q, tbTrees, tbTorn)
  BY DEF BuilderInv, BaseHolds
<1> QED  BY <1>1, <1>2, PageMoves

LEMMA BuilderFacts ==
  ASSUME BuilderInv
  PROVE  /\ tbPage \in BuilderPages /\ PageHolds(tbPage) /\ VerdictHolds(tbPage) /\ HistoryHolds(tbPage)
         /\ tbPage.snap \in BuilderSnaps /\ Doc \in SoundDocuments
         /\ Doc = tbPage.snap.doc /\ tbPage.snap.look \in {"loaded", "between", "arranged", "tidy"}
         /\ tbPage.origin \in MaybeSound
<1>1. tbPage \in BuilderPages /\ PageHolds(tbPage) /\ VerdictHolds(tbPage) /\ HistoryHolds(tbPage)
  BY DEF BuilderInv, PageHolds
<1>2. tbPage.snap \in BuilderSnaps /\ tbPage.origin \in MaybeSound
  BY <1>1 DEF BuilderPages
<1> QED  BY <1>1, <1>2 DEF Doc, BuilderSnaps

LEMMA EditedStep ==
  ASSUME BuilderInv, NEW doc \in SoundDocuments, Edited(doc)
  PROVE  BuilderInv'
<1>1. PICK snap \in BuilderSnaps : snap = Snapshot(doc, tbPage.snap.look)
  BY BuilderFacts, SnapshotIsSnap
<1>2. PICK q \in BuilderPages :
        /\ q = Recorded(tbPage, snap) /\ PageHolds(q)
        /\ q.open = tbPage.open /\ q.tree = tbPage.tree /\ q.baseline = tbPage.baseline
        /\ q.read = tbPage.read
  BY BuilderFacts, RecordedHolds
<1>3. tbPage' = q /\ UNCHANGED <<tbTrees, tbSaves, tbTorn>>
  BY <1>1, <1>2 DEF Edited, Commits, Becomes
<1> QED  BY <1>2, <1>3, EditMoves

LEMMA RenameStep ==
  ASSUME BuilderInv, rename
  PROVE  BuilderInv'
<1>1. [Doc EXCEPT !.named = ~@] \in SoundDocuments
  BY BuilderFacts, RenamedIsSound
<1> QED  BY <1>1, EditedStep DEF rename

LEMMA DropStep ==
  ASSUME BuilderInv, drop
  PROVE  BuilderInv'
<1>1. ASSUME NEW a \in Agents, CanAdd(Doc, a), Edited(addAgent(Doc, a))
      PROVE  BuilderInv'
  <2>1. addAgent(Doc, a) \in SoundDocuments
    BY <1>1, BuilderFacts, AddedIsSound
  <2> QED  BY <1>1, <2>1, EditedStep
<1>2. ASSUME NEW a \in Agents, CanAdd(Doc, a), NEW up \in Members(Doc),
             canConnect(addAgent(Doc, a), up, a), Edited(connectAgents(addAgent(Doc, a), up, a))
      PROVE  BuilderInv'
  <2>1. PICK d \in SoundDocuments : d = addAgent(Doc, a)
    BY <1>2, BuilderFacts, AddedIsSound
  <2>2. canConnect(d, up, a)
    BY <1>2, <2>1
  <2>3. connectAgents(d, up, a) \in SoundDocuments
    BY <2>2, ConnectedIsSound
  <2> QED  BY <1>2, <2>1, <2>3, EditedStep
<1>3. ASSUME NEW a \in Members(Doc), NEW t \in Tools, Edited(attachTool(Doc, a, t))
      PROVE  BuilderInv'
  <2>1. attachTool(Doc, a, t) \in SoundDocuments
    BY BuilderFacts, AttachedIsSound
  <2> QED  BY <1>3, <2>1, EditedStep
<1> QED  BY <1>1, <1>2, <1>3 DEF drop

LEMMA ConnectStep ==
  ASSUME BuilderInv, connect
  PROVE  BuilderInv'
<1>1. ASSUME NEW up \in Members(Doc), NEW a \in Members(Doc), canConnect(Doc, up, a),
             Edited(connectAgents(Doc, up, a))
      PROVE  BuilderInv'
  <2>1. connectAgents(Doc, up, a) \in SoundDocuments
    BY <1>1, BuilderFacts, ConnectedIsSound
  <2> QED  BY <1>1, <2>1, EditedStep
<1>2. ASSUME NEW a \in Members(Doc), Edited([Doc EXCEPT !.parent[a] = Nobody])
      PROVE  BuilderInv'
  <2>1. [Doc EXCEPT !.parent[a] = Nobody] \in SoundDocuments
    BY BuilderFacts, OrphanIsSound
  <2> QED  BY <1>2, <2>1, EditedStep
<1> QED  BY <1>1, <1>2 DEF connect

LEMMA DisconnectStep ==
  ASSUME BuilderInv, disconnectResource
  PROVE  BuilderInv'
<1>1. PICK t \in Doc.tools : Edited(detachTool(Doc, t[1], t[2]))
  BY DEF disconnectResource
<1>2. detachTool(Doc, t[1], t[2]) \in SoundDocuments
  BY BuilderFacts, DetachedIsSound
<1> QED  BY <1>1, <1>2, EditedStep

LEMMA PeerStep ==
  ASSUME BuilderInv, togglePeer
  PROVE  BuilderInv'
<1>1. PICK p \in Managers \X Managers :
        /\ {p[1], p[2]} \subseteq Members(Doc) /\ p[1] # p[2]
        /\ Edited([Doc EXCEPT !.peers = IF p \in @ THEN @ \ {p} ELSE @ \union {p}])
  BY DEF togglePeer
<1>2. PICK peers : peers = IF p \in Doc.peers THEN Doc.peers \ {p} ELSE Doc.peers \union {p}
  OBVIOUS
<1>3. /\ Doc.peers \subseteq Managers \X Managers
      /\ \A o \in Doc.peers : o[1] \in Members(Doc) /\ o[2] \in Members(Doc) /\ o[1] # o[2]
  BY BuilderFacts, SoundHas
<1>4. /\ peers \in SUBSET (Managers \X Managers)
      /\ \A o \in peers : o[1] \in Members(Doc) /\ o[2] \in Members(Doc) /\ o[1] # o[2]
  BY <1>1, <1>2, <1>3
<1>5. [Doc EXCEPT !.peers = peers] \in SoundDocuments
  BY <1>4, BuilderFacts, PeersAreSound
<1>6. [Doc EXCEPT !.peers = IF p \in @ THEN @ \ {p} ELSE @ \union {p}] = [Doc EXCEPT !.peers = peers]
  BY <1>2
<1> QED  BY <1>1, <1>5, <1>6, EditedStep

LEMMA DeleteStep ==
  ASSUME BuilderInv, deleteSelection
  PROVE  BuilderInv'
<1>1. PICK ids \in SUBSET Members(Doc) : Edited(deleteAgents(Doc, ids))
  BY DEF deleteSelection
<1>2. deleteAgents(Doc, ids) \in SoundDocuments
  BY BuilderFacts, DeletedIsSound
<1> QED  BY <1>1, <1>2, EditedStep

\* Dragging and the animation.
LEMMA OriginIs ==
  ASSUME NEW page \in BuilderPages, PageHolds(page), NEW origin \in MaybeSound
  PROVE  \E q \in BuilderPages :
           /\ q = [page EXCEPT !.origin = origin] /\ PageHolds(q) /\ q.snap = page.snap
           /\ q.open = page.open /\ q.tree = page.tree /\ q.baseline = page.baseline
           /\ q.read = page.read
<1>1. PICK q : q = [page EXCEPT !.origin = origin]
  OBVIOUS
<1>2. q \in BuilderPages
  BY <1>1 DEF BuilderPages
<1>3. /\ q.open = page.open /\ q.tree = page.tree /\ q.baseline = page.baseline
      /\ q.snap = page.snap /\ q.committed = page.committed /\ q.past = page.past
      /\ q.future = page.future /\ q.verdict = page.verdict /\ q.read = page.read
  BY <1>1 DEF BuilderPages
<1>4. PageHolds(q)
  BY <1>2, <1>3 DEF PageHolds, VerdictHolds, HistoryHolds
<1> QED  BY <1>1, <1>2, <1>3, <1>4

LEMMA BetweenHolds ==
  ASSUME NEW page \in BuilderPages, PageHolds(page), NEW d \in SoundDocuments
  PROVE  \E q \in BuilderPages :
           /\ q = Shown(page, Snapshot(d, "between")) /\ PageHolds(q)
           /\ q.open = page.open /\ q.tree = page.tree /\ q.baseline = page.baseline
           /\ q.read = page.read
<1>1. PICK snap \in BuilderSnaps : snap = Snapshot(d, "between") /\ snap.look = "between"
  BY SnapshotIsSnap
<1>2. VerdictHolds(page) /\ HistoryHolds(page)
  BY DEF PageHolds
<1>3. PICK q \in BuilderPages :
        /\ q = Shown(page, snap) /\ VerdictHolds(q) /\ q.snap = snap
        /\ q.open = page.open /\ q.tree = page.tree /\ q.baseline = page.baseline
        /\ q.committed = page.committed /\ q.past = page.past /\ q.future = page.future
        /\ q.read = page.read
  BY <1>2, ShownKeeps
<1>4. HistoryHolds(q)
  BY <1>1, <1>2, <1>3 DEF HistoryHolds
<1> QED  BY <1>1, <1>3, <1>4 DEF PageHolds

LEMMA ArrangeStep ==
  ASSUME BuilderInv, Arrange
  PROVE  BuilderInv'
<1>1. NoDocument \in MaybeSound
  BY DEF MaybeSound
<1>2. PICK s \in BuilderPages :
        /\ s = [tbPage EXCEPT !.origin = NoDocument] /\ PageHolds(s) /\ s.snap = tbPage.snap
        /\ s.open = tbPage.open /\ s.tree = tbPage.tree /\ s.baseline = tbPage.baseline
        /\ s.read = tbPage.read
  BY <1>1, BuilderFacts, OriginIs
<1>3. CASE Turns(Shown(s, Snapshot(Doc, "between")))
  <2>1. PICK q \in BuilderPages :
          /\ q = Shown(s, Snapshot(Doc, "between")) /\ PageHolds(q)
          /\ q.open = s.open /\ q.tree = s.tree /\ q.baseline = s.baseline /\ q.read = s.read
    BY <1>2, BuilderFacts, BetweenHolds
  <2>2. tbPage' = q /\ UNCHANGED <<tbTrees, tbSaves, tbTorn>>
    BY <1>3, <2>1 DEF Turns, Becomes
  <2> QED  BY <1>2, <2>1, <2>2, EditMoves
<1>4. CASE Commits(Recorded(s, Snapshot(Doc, "arranged")))
  <2>1. PICK snap \in BuilderSnaps : snap = Snapshot(Doc, "arranged")
    BY BuilderFacts, SnapshotIsSnap
  <2>2. PICK q \in BuilderPages :
          /\ q = Recorded(s, snap) /\ PageHolds(q)
          /\ q.open = s.open /\ q.tree = s.tree /\ q.baseline = s.baseline /\ q.read = s.read
    BY <1>2, RecordedHolds
  <2>3. tbPage' = q /\ UNCHANGED <<tbTrees, tbSaves, tbTorn>>
    BY <1>4, <2>1, <2>2 DEF Commits, Becomes
  <2> QED  BY <1>2, <2>2, <2>3, EditMoves
<1> QED  BY <1>2, <1>3, <1>4 DEF Arrange

LEMMA LayoutStep ==
  ASSUME BuilderInv, layout
  PROVE  BuilderInv'
<1>1. Doc \in MaybeSound
  BY BuilderFacts DEF MaybeSound
<1>2. PICK q \in BuilderPages :
        /\ q = [tbPage EXCEPT !.origin = Doc] /\ PageHolds(q) /\ q.snap = tbPage.snap
        /\ q.open = tbPage.open /\ q.tree = tbPage.tree /\ q.baseline = tbPage.baseline
        /\ q.read = tbPage.read
  BY <1>1, BuilderFacts, OriginIs
<1>3. tbPage' = q /\ UNCHANGED <<tbTrees, tbSaves, tbTorn>>
  BY <1>2 DEF layout, Turns, Becomes
<1> QED  BY <1>2, <1>3, EditMoves

LEMMA FrameStep ==
  ASSUME BuilderInv, Frame
  PROVE  BuilderInv'
<1>1. PICK d \in SoundDocuments : d = tbPage.origin
  BY BuilderFacts DEF Frame, MaybeSound
<1>2. CASE Turns(Shown(tbPage, Snapshot(tbPage.origin, "between")))
  <2>1. PICK q \in BuilderPages :
          /\ q = Shown(tbPage, Snapshot(d, "between")) /\ PageHolds(q)
          /\ q.open = tbPage.open /\ q.tree = tbPage.tree /\ q.baseline = tbPage.baseline
          /\ q.read = tbPage.read
    BY BuilderFacts, BetweenHolds
  <2>2. tbPage' = q /\ UNCHANGED <<tbTrees, tbSaves, tbTorn>>
    BY <1>1, <1>2, <2>1 DEF Turns, Becomes
  <2> QED  BY <2>1, <2>2, EditMoves
<1>3. CASE Commits(Recorded([tbPage EXCEPT !.origin = NoDocument], Snapshot(tbPage.origin, "tidy")))
  <2>1. NoDocument \in MaybeSound
    BY DEF MaybeSound
  <2>2. PICK s \in BuilderPages :
          /\ s = [tbPage EXCEPT !.origin = NoDocument] /\ PageHolds(s) /\ s.snap = tbPage.snap
          /\ s.open = tbPage.open /\ s.tree = tbPage.tree /\ s.baseline = tbPage.baseline
          /\ s.read = tbPage.read
    BY <2>1, BuilderFacts, OriginIs
  <2>3. PICK snap \in BuilderSnaps : snap = Snapshot(d, "tidy")
    BY SnapshotIsSnap
  <2>4. PICK q \in BuilderPages :
          /\ q = Recorded(s, snap) /\ PageHolds(q)
          /\ q.open = s.open /\ q.tree = s.tree /\ q.baseline = s.baseline /\ q.read = s.read
    BY <2>2, RecordedHolds
  <2>5. tbPage' = q /\ UNCHANGED <<tbTrees, tbSaves, tbTorn>>
    BY <1>1, <1>3, <2>2, <2>3, <2>4 DEF Commits, Becomes
  <2> QED  BY <2>2, <2>4, <2>5, EditMoves
<1> QED  BY <1>2, <1>3 DEF Frame

-----------------------------------------------------------------------------
(* Undo, the check, loading and leaving.                                   *)

LEMMA LastAndFront ==
  ASSUME NEW s \in Histories, s # <<>>
  PROVE  Last(s) \in BuilderSnaps /\ Front(s) \in Histories /\ Len(Front(s)) = Len(s) - 1
<1>1. /\ s \in Seq(BuilderSnaps) /\ Len(s) \in Nat \ {0}
      /\ \A i \in 1..Len(s) : s[i] \in BuilderSnaps
  BY EmptySeq, LenProperties, ElementOfSeq DEF Histories
<1>2. Last(s) \in BuilderSnaps
  BY <1>1 DEF Last
<1>3. /\ 1 \in Int /\ Len(s) - 1 \in Int
      /\ \A i \in 1..Len(s) - 1 : s[i] \in BuilderSnaps
  BY <1>1
<1>4. /\ SubSeq(s, 1, Len(s) - 1) \in Seq(BuilderSnaps)
      /\ Len(SubSeq(s, 1, Len(s) - 1)) = IF 1 <= Len(s) - 1 THEN Len(s) - 1 - 1 + 1 ELSE 0
  BY <1>3, SubSeqProperties
<1>5. Len(SubSeq(s, 1, Len(s) - 1)) = Len(s) - 1
  <2>1. PICK n \in Nat \ {0} : n = Len(s)
    BY <1>1
  <2>2. (IF 1 <= n - 1 THEN n - 1 - 1 + 1 ELSE 0) = n - 1
    OBVIOUS
  <2> QED  BY <1>4, <2>1, <2>2
<1>6. Front(s) \in Histories /\ Len(Front(s)) = Len(s) - 1
  BY <1>4, <1>5 DEF Front, Histories
<1> QED  BY <1>2, <1>6

LEMMA LongerHistory ==
  ASSUME NEW s \in Histories, NEW snap \in BuilderSnaps
  PROVE  Append(s, snap) \in Histories /\ Len(Append(s, snap)) = Len(s) + 1
<1>1. s \in Seq(BuilderSnaps)
  BY DEF Histories
<1>2. Append(s, snap) \in Seq(BuilderSnaps) /\ Len(Append(s, snap)) = Len(s) + 1
  BY <1>1, AppendProperties
<1> QED  BY <1>2 DEF Histories

LEMMA Shifted ==
  ASSUME NEW a \in Nat, NEW b \in Nat, NEW c \in Nat, a + b <= c
  PROVE  (a - 1) + (b + 1) <= c /\ (a + 1) + (b - 1) <= c
OBVIOUS

LEMMA HistoryStep ==
  ASSUME BuilderInv, undo \/ redo
  PROVE  BuilderInv'
<1>1. /\ tbPage \in BuilderPages /\ PageHolds(tbPage) /\ VerdictHolds(tbPage)
      /\ tbPage.past \in Histories /\ tbPage.future \in Histories /\ tbPage.snap \in BuilderSnaps
      /\ Len(tbPage.past) \in Nat /\ Len(tbPage.future) \in Nat
      /\ Len(tbPage.past) + Len(tbPage.future) <= HistoryLimit
  <2>1. tbPage \in BuilderPages /\ PageHolds(tbPage) /\ VerdictHolds(tbPage) /\ HistoryHolds(tbPage)
    BY BuilderFacts
  <2>2. tbPage.past \in Histories /\ tbPage.future \in Histories /\ tbPage.snap \in BuilderSnaps
    BY <2>1 DEF BuilderPages
  <2>3. Len(tbPage.past) \in Nat /\ Len(tbPage.future) \in Nat
    BY <2>2, LenProperties DEF Histories
  <2> QED  BY <2>1, <2>2, <2>3 DEF HistoryHolds
<1>2. ASSUME NEW past \in Histories, NEW future \in Histories, NEW next \in BuilderSnaps,
             Len(past) + Len(future) <= HistoryLimit,
             tbPage' = WithHistory(Shown(tbPage, next), past, future, next),
             UNCHANGED <<tbTrees, tbSaves, tbTorn>>
      PROVE  BuilderInv'
  <2>1. PICK s \in BuilderPages :
          /\ s = Shown(tbPage, next) /\ VerdictHolds(s) /\ s.snap = next
          /\ s.open = tbPage.open /\ s.tree = tbPage.tree /\ s.baseline = tbPage.baseline
          /\ s.committed = tbPage.committed /\ s.past = tbPage.past /\ s.future = tbPage.future
          /\ s.read = tbPage.read
    BY <1>1, ShownKeeps
  <2>2. PICK q \in BuilderPages :
          /\ q = WithHistory(s, past, future, next)
          /\ q.past = past /\ q.future = future /\ q.committed = next
          /\ q.open = s.open /\ q.tree = s.tree /\ q.baseline = s.baseline
          /\ q.snap = s.snap /\ q.verdict = s.verdict /\ q.read = s.read
    BY WithHistoryIs
  <2>3. HistoryHolds(q)
    BY <1>2, <2>1, <2>2 DEF HistoryHolds
  <2>4. VerdictHolds(q)
    BY <2>1, <2>2 DEF VerdictHolds
  <2>5. PageHolds(q) /\ tbPage' = q
    BY <1>2, <2>1, <2>2, <2>3, <2>4 DEF PageHolds
  <2> QED  BY <1>2, <2>1, <2>2, <2>5, EditMoves
<1>3. ASSUME undo
      PROVE  BuilderInv'
  <2>1. tbPage.past # <<>>
    BY <1>3 DEF undo
  <2>2. PICK next \in BuilderSnaps, past \in Histories :
          next = Last(tbPage.past) /\ past = Front(tbPage.past) /\ Len(past) = Len(tbPage.past) - 1
    BY <1>1, <2>1, LastAndFront
  <2>3. PICK future \in Histories :
          future = Append(tbPage.future, tbPage.snap) /\ Len(future) = Len(tbPage.future) + 1
    BY <1>1, LongerHistory
  <2>4. Len(past) + Len(future) <= HistoryLimit
    BY <1>1, <2>2, <2>3, Shifted, BuilderBounds
  <2>5. PICK s : s = Shown(tbPage, next) /\ s.past = tbPage.past /\ s.future = tbPage.future
    BY <1>1, ShownKeeps
  <2>6. tbPage' = [s EXCEPT !.past = Front(@), !.committed = next, !.future = Append(@, tbPage.snap)]
    BY <1>3, <2>2, <2>5 DEF undo, Turns, Becomes
  <2>7. tbPage' = WithHistory(s, past, future, next)
    BY <2>2, <2>3, <2>5, <2>6 DEF WithHistory
  <2>8. UNCHANGED <<tbTrees, tbSaves, tbTorn>>
    BY <1>3 DEF undo, Turns, Becomes
  <2> QED  BY <1>2, <2>4, <2>5, <2>7, <2>8
<1>4. ASSUME redo
      PROVE  BuilderInv'
  <2>1. tbPage.future # <<>>
    BY <1>4 DEF redo
  <2>2. PICK next \in BuilderSnaps, future \in Histories :
          /\ next = Last(tbPage.future) /\ future = Front(tbPage.future)
          /\ Len(future) = Len(tbPage.future) - 1
    BY <1>1, <2>1, LastAndFront
  <2>3. PICK past \in Histories :
          past = Append(tbPage.past, tbPage.snap) /\ Len(past) = Len(tbPage.past) + 1
    BY <1>1, LongerHistory
  <2>4. Len(past) + Len(future) <= HistoryLimit
    BY <1>1, <2>2, <2>3, Shifted, BuilderBounds
  <2>5. PICK s : s = Shown(tbPage, next) /\ s.past = tbPage.past /\ s.future = tbPage.future
    BY <1>1, ShownKeeps
  <2>6. tbPage' = [s EXCEPT !.future = Front(@), !.committed = next, !.past = Append(@, tbPage.snap)]
    BY <1>4, <2>2, <2>5 DEF redo, Turns, Becomes
  <2>7. tbPage' = WithHistory(s, past, future, next)
    BY <2>2, <2>3, <2>5, <2>6 DEF WithHistory
  <2>8. UNCHANGED <<tbTrees, tbSaves, tbTorn>>
    BY <1>4 DEF redo, Turns, Becomes
  <2> QED  BY <1>2, <2>4, <2>5, <2>7, <2>8
<1> QED  BY <1>3, <1>4

LEMMA CheckStep ==
  ASSUME BuilderInv, CheckAnswered
  PROVE  BuilderInv'
<1>1. PICK verdict \in {"none", IF Valid(Doc) THEN "valid" ELSE "invalid"} :
        Turns([tbPage EXCEPT !.check = "idle", !.verdict = verdict])
  BY DEF CheckAnswered
<1>2. verdict \in Verdicts /\ "idle" \in Checks /\ (verdict = "valid" => Valid(Doc))
  BY DEF Verdicts, Checks
<1>3. tbPage \in BuilderPages /\ tbPage.snap \in BuilderSnaps /\ HistoryHolds(tbPage) /\ Doc = tbPage.snap.doc
  BY BuilderFacts
<1>4. PICK q \in BuilderPages :
        /\ q = Turned(tbPage, tbPage.snap, verdict, "idle") /\ q.snap = tbPage.snap /\ q.verdict = verdict
        /\ q.open = tbPage.open /\ q.tree = tbPage.tree /\ q.baseline = tbPage.baseline
        /\ q.committed = tbPage.committed /\ q.past = tbPage.past /\ q.future = tbPage.future
        /\ q.read = tbPage.read
  BY <1>2, <1>3, TurnedIs
<1>5. q = [tbPage EXCEPT !.check = "idle", !.verdict = verdict]
  BY <1>3, <1>4 DEF Turned, BuilderPages
<1>6. tbPage' = q /\ UNCHANGED <<tbTrees, tbSaves, tbTorn>>
  BY <1>1, <1>5 DEF Turns, Becomes
<1>7. VerdictHolds(q) /\ HistoryHolds(q)
  BY <1>2, <1>3, <1>4 DEF VerdictHolds, HistoryHolds
<1> QED  BY <1>4, <1>6, <1>7, EditMoves DEF PageHolds

\* A new page, and the page that was left.
LEMMA FreshHolds ==
  ASSUME NEW r \in BuilderRoutes
  PROVE  \E q \in BuilderPages :
           q = FreshPage(r) /\ PageHolds(q) /\ RowHolds(q.read) /\ q.tree = 0
<1>1. /\ Blank \in BuilderSnaps /\ NoDocument \in MaybeSound /\ NoTree \in BuilderRows
      /\ <<>> \in Histories /\ 0 \in BuilderRoutes /\ "none" \in Verdicts /\ "idle" \in Checks
  BY EmptyIsSound, SnapshotIsSnap, EmptySeq, BuilderBounds
     DEF Blank, MaybeSound, NoTree, BuilderRows, Histories, Verdicts, Checks
<1>2. PICK q : q = FreshPage(r)
  OBVIOUS
<1>3. q \in BuilderPages
  BY <1>1, <1>2 DEF FreshPage, BuilderPages
<1>4. /\ q.verdict = "none" /\ q.past = <<>> /\ q.future = <<>> /\ q.committed = q.snap
      /\ q.read = NoTree /\ q.tree = 0
  BY <1>2 DEF FreshPage
<1>5. PageHolds(q)
  BY <1>3, <1>4, EmptySeq, BuilderBounds DEF PageHolds, VerdictHolds, HistoryHolds
<1> QED  BY <1>2, <1>3, <1>4, <1>5 DEF RowHolds

LEMMA LeftHolds ==
  \E q \in BuilderPages : q = Left /\ PageHolds(q) /\ RowHolds(q.read) /\ q.open = FALSE
<1>1. PICK p \in BuilderPages :
        p = FreshPage(0) /\ PageHolds(p) /\ RowHolds(p.read) /\ p.tree = 0
  BY FreshHolds, BuilderBounds
<1>2. PICK q : q = Left
  OBVIOUS
<1>3. q \in BuilderPages
  BY <1>1, <1>2 DEF Left, BuilderPages
<1>4. /\ q.open = FALSE /\ q.snap = p.snap /\ q.verdict = p.verdict /\ q.past = p.past
      /\ q.future = p.future /\ q.read = p.read
  BY <1>1, <1>2 DEF Left, BuilderPages
<1>5. PageHolds(q)
  BY <1>1, <1>3, <1>4 DEF PageHolds, VerdictHolds, HistoryHolds
<1> QED  BY <1>1, <1>2, <1>3, <1>4, <1>5

LEMMA LeaveStep ==
  ASSUME BuilderInv, Leave \/ Stay \/ Discard
  PROVE  BuilderInv'
<1>1. UNCHANGED <<tbTrees, tbSaves, tbTorn>>
  BY DEF Leave, Stay, Discard, Turns, Becomes
<1>2. CASE tbPage' = Left
  <2>1. PICK q \in BuilderPages : q = Left /\ PageHolds(q) /\ RowHolds(q.read) /\ q.open = FALSE
    BY LeftHolds
  <2>2. BaseHolds(q, tbTrees, tbTorn)
    BY <2>1 DEF BaseHolds
  <2> QED  BY <1>1, <1>2, <2>1, <2>2, PageMoves
<1>3. ASSUME NEW b \in BOOLEAN, tbPage' = [tbPage EXCEPT !.blocked = b]
      PROVE  BuilderInv'
  <2>1. PICK q : q = [tbPage EXCEPT !.blocked = b]
    OBVIOUS
  <2>2. tbPage \in BuilderPages /\ VerdictHolds(tbPage) /\ HistoryHolds(tbPage)
    BY BuilderFacts
  <2>3. q \in BuilderPages
    BY <2>1, <2>2 DEF BuilderPages
  <2>4. /\ q.open = tbPage.open /\ q.tree = tbPage.tree /\ q.baseline = tbPage.baseline
        /\ q.snap = tbPage.snap /\ q.committed = tbPage.committed /\ q.past = tbPage.past
        /\ q.future = tbPage.future /\ q.verdict = tbPage.verdict /\ q.read = tbPage.read
    BY <2>1, <2>2 DEF BuilderPages
  <2>5. PageHolds(q)
    BY <2>2, <2>3, <2>4 DEF PageHolds, VerdictHolds, HistoryHolds
  <2> QED  BY <1>1, <1>3, <2>1, <2>3, <2>4, <2>5, EditMoves
<1>4. \/ tbPage' = Left \/ tbPage' = [tbPage EXCEPT !.blocked = TRUE]
      \/ tbPage' = [tbPage EXCEPT !.blocked = FALSE]
  BY DEF Leave, Stay, Discard, Turns, Becomes
<1>5. TRUE \in BOOLEAN /\ FALSE \in BOOLEAN
  OBVIOUS
<1> QED  BY <1>2, <1>3, <1>4, <1>5

-----------------------------------------------------------------------------
(* Loading: the page takes the answer for what is saved.                   *)

Loads == {"idle", "asked", "answered"}
Loading(page, load, loading, read) == [page EXCEPT !.load = load, !.loading = loading, !.read = read]

LEMMA LoadingHolds ==
  ASSUME NEW page \in BuilderPages, PageHolds(page), NEW load \in Loads, NEW loading,
         loading \in BOOLEAN, NEW read \in BuilderRows
  PROVE  \E q \in BuilderPages :
           /\ q = Loading(page, load, loading, read) /\ PageHolds(q) /\ q.read = read
           /\ q.open = page.open /\ q.tree = page.tree /\ q.baseline = page.baseline
<1>1. PICK q : q = Loading(page, load, loading, read)
  OBVIOUS
<1>2. q \in BuilderPages
  BY <1>1 DEF Loading, BuilderPages, Loads
<1>3. /\ q.open = page.open /\ q.tree = page.tree /\ q.baseline = page.baseline
      /\ q.snap = page.snap /\ q.committed = page.committed /\ q.past = page.past
      /\ q.future = page.future /\ q.verdict = page.verdict /\ q.read = read
  BY <1>1 DEF Loading, BuilderPages
<1>4. PageHolds(q)
  BY <1>2, <1>3 DEF PageHolds, VerdictHolds, HistoryHolds
<1> QED  BY <1>1, <1>2, <1>3, <1>4

LEMMA RecheckedHolds ==
  ASSUME NEW page \in BuilderPages, HistoryHolds(page)
  PROVE  \E q \in BuilderPages :
           /\ q = Rechecked(page) /\ PageHolds(q) /\ q.read = page.read
           /\ q.open = page.open /\ q.tree = page.tree /\ q.baseline = page.baseline
<1>1. PICK verdict \in Verdicts, check \in Checks :
        verdict # "valid" /\ Rechecked(page) = Turned(page, page.snap, verdict, check)
  <2>1. \/ Rechecked(page) = Turned(page, page.snap, "none", "due")
        \/ Rechecked(page) = Turned(page, page.snap, "invalid", "idle")
    BY DEF Rechecked, Turned, BuilderPages
  <2>2. {"none", "invalid"} \subseteq Verdicts /\ {"due", "idle"} \subseteq Checks
    BY DEF Verdicts, Checks
  <2> QED  BY <2>1, <2>2
<1>2. page.snap \in BuilderSnaps
  BY DEF BuilderPages
<1>3. PICK q \in BuilderPages :
        /\ q = Turned(page, page.snap, verdict, check) /\ q.snap = page.snap /\ q.verdict = verdict
        /\ q.open = page.open /\ q.tree = page.tree /\ q.baseline = page.baseline
        /\ q.committed = page.committed /\ q.past = page.past /\ q.future = page.future
        /\ q.read = page.read
  BY <1>2, TurnedIs
<1>4. VerdictHolds(q) /\ HistoryHolds(q)
  BY <1>1, <1>3 DEF VerdictHolds, HistoryHolds
<1> QED  BY <1>1, <1>3, <1>4 DEF PageHolds

\* What the server answered is shown, and begins a new history.
Rebased(page, tree, ready, snap) ==
  [page EXCEPT !.tree = tree, !.ready = ready, !.snap = snap, !.committed = snap,
               !.baseline = snap.doc, !.past = <<>>, !.future = <<>>]

LEMMA RebasedHolds ==
  ASSUME NEW page \in BuilderPages, NEW tree \in BuilderRoutes, NEW ready, ready \in BOOLEAN,
         NEW snap \in BuilderSnaps
  PROVE  \E q \in BuilderPages :
           /\ q = Rebased(page, tree, ready, snap) /\ HistoryHolds(q) /\ q.read = page.read
           /\ q.open = page.open /\ q.tree = tree /\ q.baseline = snap.doc
<1>1. <<>> \in Histories /\ snap.doc \in MaybeSound
  BY EmptySeq DEF Histories, MaybeSound, BuilderSnaps
<1>2. PICK q : q = Rebased(page, tree, ready, snap)
  OBVIOUS
<1>3. q \in BuilderPages
  BY <1>1, <1>2 DEF Rebased, BuilderPages
<1>4. /\ q.open = page.open /\ q.tree = tree /\ q.baseline = snap.doc /\ q.read = page.read
      /\ q.snap = snap /\ q.committed = snap /\ q.past = <<>> /\ q.future = <<>>
  BY <1>2 DEF Rebased, BuilderPages
<1>5. HistoryHolds(q)
  BY <1>4, EmptySeq, BuilderBounds DEF HistoryHolds
<1> QED  BY <1>2, <1>3, <1>4, <1>5

LEMMA RowFacts ==
  ASSUME BuilderInv
  PROVE  /\ NoTree \in BuilderRows /\ RowHolds(NoTree) /\ tbPage.read \in BuilderRows
         /\ tbPage.route \in BuilderRoutes /\ tbPage.tree \in BuilderRoutes
         /\ tbPage.route # 0 => tbPage.route \in TreeIds
         /\ tbPage.tree # 0 => tbPage.tree \in TreeIds
         /\ \A t \in TreeIds : tbTrees[t] \in BuilderRows /\ RowHolds(tbTrees[t])
<1>1. NoTree \in BuilderRows /\ RowHolds(NoTree)
  BY DEF NoTree, BuilderRows, MaybeSound, RowHolds
<1>2. tbPage \in BuilderPages
  BY BuilderFacts
<1>3. tbPage.read \in BuilderRows /\ tbPage.route \in BuilderRoutes /\ tbPage.tree \in BuilderRoutes
  BY <1>2 DEF BuilderPages
<1>4. \A t \in BuilderRoutes : t # 0 => t \in TreeIds
  BY BuilderBounds DEF BuilderRoutes, TreeIds
<1> QED  BY <1>1, <1>3, <1>4 DEF BuilderInv

LEMMA LoadReadsStep ==
  ASSUME BuilderInv, LoadReads
  PROVE  BuilderInv'
<1>1. PICK read \in {tbTrees[t] : t \in {tbPage.route} \ {0}} \union {NoTree} :
        Turns([tbPage EXCEPT !.load = "answered", !.read = read])
  BY DEF LoadReads
<1>2. read \in BuilderRows /\ RowHolds(read)
  BY <1>1, RowFacts
<1>3. tbPage.loading \in BOOLEAN /\ tbPage \in BuilderPages /\ PageHolds(tbPage) /\ "answered" \in Loads
  BY BuilderFacts DEF BuilderPages, Loads
<1>4. PICK q \in BuilderPages :
        /\ q = Loading(tbPage, "answered", tbPage.loading, read) /\ PageHolds(q) /\ q.read = read
        /\ q.open = tbPage.open /\ q.tree = tbPage.tree /\ q.baseline = tbPage.baseline
  BY <1>2, <1>3, LoadingHolds
<1>5. [tbPage EXCEPT !.load = "answered", !.read = read] = Loading(tbPage, "answered", tbPage.loading, read)
  BY <1>3 DEF Loading, BuilderPages
<1>6. tbPage' = q /\ UNCHANGED <<tbTrees, tbSaves, tbTorn>>
  BY <1>1, <1>4, <1>5 DEF Turns, Becomes
<1>7. BaseHolds(q, tbTrees, tbTorn)
  BY <1>4 DEF BuilderInv, BaseHolds
<1> QED  BY <1>2, <1>4, <1>6, <1>7, PageMoves

LEMMA LoadAnsweredStep ==
  ASSUME BuilderInv, LoadAnswered
  PROVE  BuilderInv'
<1>1. FALSE \in BOOLEAN /\ tbPage \in BuilderPages /\ PageHolds(tbPage) /\ "idle" \in Loads /\ NoTree \in BuilderRows
  BY BuilderFacts, RowFacts DEF Loads
<1>2. PICK d \in BuilderPages :
        /\ d = Loading(tbPage, "idle", FALSE, NoTree) /\ PageHolds(d) /\ d.read = NoTree
        /\ d.open = tbPage.open /\ d.tree = tbPage.tree /\ d.baseline = tbPage.baseline
  BY <1>1, LoadingHolds
<1>3. d = [tbPage EXCEPT !.load = "idle", !.loading = FALSE, !.read = NoTree]
  BY <1>2 DEF Loading
<1>4. CASE tbPage.route # 0 /\ tbPage.read = NoTree
  <2>1. Turns(IF tbPage.loading THEN Rechecked(d) ELSE d)
    BY <1>3, <1>4 DEF LoadAnswered
  <2>2. HistoryHolds(d)
    BY <1>2 DEF PageHolds
  <2>3. PICK r \in BuilderPages :
          /\ r = Rechecked(d) /\ PageHolds(r) /\ r.read = d.read
          /\ r.open = d.open /\ r.tree = d.tree /\ r.baseline = d.baseline
    BY <2>2, RecheckedHolds
  <2>4. PICK q \in BuilderPages :
          /\ q = (IF tbPage.loading THEN Rechecked(d) ELSE d) /\ PageHolds(q) /\ q.read = NoTree
          /\ q.open = tbPage.open /\ q.tree = tbPage.tree /\ q.baseline = tbPage.baseline
    BY <1>2, <2>3
  <2>5. tbPage' = q /\ UNCHANGED <<tbTrees, tbSaves, tbTorn>>
    BY <2>1, <2>4 DEF Turns, Becomes
  <2>6. BaseHolds(q, tbTrees, tbTorn) /\ RowHolds(q.read)
    BY <2>4, RowFacts DEF BuilderInv, BaseHolds
  <2> QED  BY <2>4, <2>5, <2>6, PageMoves
<1>5. CASE ~(tbPage.route # 0 /\ tbPage.read = NoTree)
  <2>1. PICK doc : doc = IF tbPage.route = 0 THEN newDocument ELSE tbPage.read.doc
    OBVIOUS
  <2>2. doc \in SoundDocuments
    <3>1. CASE tbPage.route = 0
      BY <2>1, <3>1, EmptyIsSound
    <3>2. CASE tbPage.route # 0
      <4>1. tbPage.read.doc # NoDocument
        BY <1>5, <3>2 DEF BuilderInv, RowHolds
      <4>2. tbPage.read.doc \in MaybeSound
        BY RowFacts DEF BuilderRows
      <4> QED  BY <2>1, <3>2, <4>1, <4>2 DEF MaybeSound
    <3> QED  BY <3>1, <3>2
  <2>3. PICK snap \in BuilderSnaps : snap = Snapshot(doc, "loaded") /\ snap.doc = doc
    BY <2>2, SnapshotIsSnap
  <2>4. tbPage.read.ready \in BOOLEAN /\ tbPage.route \in BuilderRoutes
    BY RowFacts DEF BuilderRows
  <2>5. PICK b \in BuilderPages :
          /\ b = Rebased(d, tbPage.route, tbPage.read.ready, snap) /\ HistoryHolds(b) /\ b.read = d.read
          /\ b.open = d.open /\ b.tree = tbPage.route /\ b.baseline = snap.doc
    BY <2>4, RebasedHolds
  <2>6. PICK q \in BuilderPages :
          /\ q = Rechecked(b) /\ PageHolds(q) /\ q.read = b.read
          /\ q.open = b.open /\ q.tree = b.tree /\ q.baseline = b.baseline
    BY <2>5, RecheckedHolds
  <2>7. b = [d EXCEPT !.tree = tbPage.route, !.ready = tbPage.read.ready, !.snap = snap,
                      !.committed = snap, !.baseline = doc, !.past = <<>>, !.future = <<>>]
    BY <2>3, <2>5 DEF Rebased
  <2>8. /\ tbPage' = q
        /\ tbTorn' = (tbPage.route # 0 /\ tbPage.read.doc # tbTrees[tbPage.route].doc)
        /\ UNCHANGED <<tbTrees, tbSaves>>
    BY <1>3, <1>5, <2>1, <2>3, <2>6, <2>7 DEF LoadAnswered
  <2>9. RowHolds(q.read)
    BY <1>2, <2>5, <2>6, RowFacts
  <2>10. BaseHolds(q, tbTrees, tbTorn') /\ tbTorn' \in BOOLEAN
    <3>1. q.baseline = doc /\ q.tree = tbPage.route /\ doc # NoDocument
      BY <2>2, <2>3, <2>5, <2>6, BuilderBounds
    <3> QED  BY <2>1, <2>8, <3>1 DEF BaseHolds
  <2>11. tbTrees' = tbTrees /\ tbSaves' = tbSaves
    BY <2>8
  <2> QED  BY <2>6, <2>8, <2>9, <2>10, <2>11 DEF BuilderInv
<1> QED  BY <1>4, <1>5

-----------------------------------------------------------------------------
(* Saving.                                                                 *)

SaveIds == 1..MaxSaves
SaveSteps == {"idle", "put", "mark", "get", "done", "failed", "over"}

LEMMA SaveFacts ==
  ASSUME BuilderInv, NEW k \in SaveIds
  PROVE  /\ tbSaves \in [SaveIds -> BuilderSaves] /\ tbSaves[k] \in BuilderSaves
         /\ SaveHolds(tbSaves[k], tbTrees)
         /\ tbSaves[k].tree \in BuilderRoutes
         /\ tbSaves[k].tree # 0 => tbSaves[k].tree \in TreeIds
         /\ tbSaves[k].at \in {"put", "mark", "get", "done"} => tbSaves[k].doc \in SoundDocuments
<1>1. tbSaves \in [SaveIds -> BuilderSaves] /\ SaveHolds(tbSaves[k], tbTrees)
  BY DEF BuilderInv, SaveIds
<1>2. tbSaves[k] \in BuilderSaves
  BY <1>1
<1>3. tbSaves[k].tree \in BuilderRoutes /\ tbSaves[k].doc \in MaybeSound
  BY <1>2 DEF BuilderSaves
<1>4. \A t \in BuilderRoutes : t # 0 => t \in TreeIds
  BY BuilderBounds DEF BuilderRoutes, TreeIds
<1> QED  BY <1>1, <1>2, <1>3, <1>4 DEF SaveHolds, MaybeSound

\* A save moves, and so may the rows, which keep their documents or get new ones.
LEMMA SaveMoves ==
  ASSUME BuilderInv, NEW k \in SaveIds, NEW c \in BuilderSaves,
         NEW trees \in [TreeIds -> BuilderRows], NEW q \in BuilderPages,
         tbSaves' = [tbSaves EXCEPT ![k] = c], tbTrees' = trees, tbPage' = q,
         \A t \in TreeIds : RowHolds(trees[t]) /\ (tbTrees[t].doc # NoDocument => trees[t].doc # NoDocument),
         SaveHolds(c, trees), PageHolds(q), RowHolds(q.read),
         tbTorn' \in BOOLEAN, BaseHolds(q, trees, tbTorn')
  PROVE  BuilderInv'
<1>1. tbSaves' \in [SaveIds -> BuilderSaves]
  BY SaveFacts
<1>2. ASSUME NEW j \in SaveIds
      PROVE  SaveHolds(tbSaves'[j], tbTrees')
  <2>1. CASE j = k
    BY <2>1, SaveFacts
  <2>2. CASE j # k
    <3>1. tbSaves'[j] = tbSaves[j]
      BY <2>2, SaveFacts
    <3>2. SaveHolds(tbSaves[j], tbTrees) /\ (tbSaves[j].tree # 0 => tbSaves[j].tree \in TreeIds)
      BY SaveFacts
    <3>3. SaveHolds(tbSaves[j], trees)
      BY <3>2 DEF SaveHolds
    <3> QED  BY <3>1, <3>3
  <2> QED  BY <2>1, <2>2
<1> QED  BY <1>1, <1>2 DEF BuilderInv, SaveIds

\* The page stays, and the rows as well.
LEMMA SaveAloneMoves ==
  ASSUME BuilderInv, NEW k \in SaveIds, NEW c \in BuilderSaves,
         tbSaves' = [tbSaves EXCEPT ![k] = c], SaveHolds(c, tbTrees),
         UNCHANGED <<tbTrees, tbPage, tbTorn>>
  PROVE  BuilderInv'
<1>1. /\ tbTrees \in [TreeIds -> BuilderRows] /\ \A t \in TreeIds : RowHolds(tbTrees[t])
      /\ tbPage \in BuilderPages /\ PageHolds(tbPage) /\ RowHolds(tbPage.read)
      /\ tbTorn \in BOOLEAN /\ BaseHolds(tbPage, tbTrees, tbTorn)
  BY DEF BuilderInv, PageHolds
<1>2. tbTrees' = tbTrees /\ tbPage' = tbPage /\ tbTorn' = tbTorn
  OBVIOUS
<1> QED  BY <1>1, <1>2, SaveMoves

\* A save goes to its next step, for a Tree and a document.
Goes(c, at, tree, doc) == [c EXCEPT !.at = at, !.tree = tree, !.doc = doc]

LEMMA GoesIs ==
  ASSUME NEW c \in BuilderSaves, NEW at \in SaveSteps, NEW tree \in BuilderRoutes, NEW doc \in MaybeSound
  PROVE  \E s \in BuilderSaves :
           s = Goes(c, at, tree, doc) /\ s.at = at /\ s.tree = tree /\ s.doc = doc
<1>1. PICK s : s = Goes(c, at, tree, doc)
  OBVIOUS
<1>2. s \in BuilderSaves
  BY <1>1 DEF Goes, BuilderSaves, SaveSteps
<1> QED  BY <1>1, <1>2 DEF Goes, BuilderSaves

\* A save that fails holds on to what it had.
LEMMA FailsIs ==
  ASSUME NEW c \in BuilderSaves, NEW trees
  PROVE  \E s \in BuilderSaves : s = [c EXCEPT !.at = "failed"] /\ SaveHolds(s, trees)
<1>1. PICK s : s = [c EXCEPT !.at = "failed"]
  OBVIOUS
<1>2. s \in BuilderSaves /\ s.at = "failed"
  BY <1>1 DEF BuilderSaves
<1> QED  BY <1>1, <1>2 DEF SaveHolds

LEMMA SavingHolds ==
  ASSUME NEW page \in BuilderPages, PageHolds(page), NEW saving, saving \in BOOLEAN
  PROVE  \E q \in BuilderPages :
           /\ q = [page EXCEPT !.saving = saving] /\ PageHolds(q) /\ q.read = page.read
           /\ q.open = page.open /\ q.tree = page.tree /\ q.baseline = page.baseline
<1>1. PICK q : q = [page EXCEPT !.saving = saving]
  OBVIOUS
<1>2. q \in BuilderPages
  BY <1>1 DEF BuilderPages
<1>3. /\ q.open = page.open /\ q.tree = page.tree /\ q.baseline = page.baseline
      /\ q.snap = page.snap /\ q.committed = page.committed /\ q.past = page.past
      /\ q.future = page.future /\ q.verdict = page.verdict /\ q.read = page.read
  BY <1>1 DEF BuilderPages
<1>4. PageHolds(q)
  BY <1>2, <1>3 DEF PageHolds, VerdictHolds, HistoryHolds
<1> QED  BY <1>1, <1>2, <1>3, <1>4

LEMMA RowIs ==
  ASSUME NEW row \in BuilderRows, NEW doc \in MaybeSound
  PROVE  /\ [row EXCEPT !.doc = doc] \in BuilderRows /\ [row EXCEPT !.doc = doc].doc = doc
         /\ row.doc \in MaybeSound
BY DEF BuilderRows

LEMMA SaveBeginsStep ==
  ASSUME BuilderInv, NEW k \in SaveIds, SaveBegins(k)
  PROVE  BuilderInv'
<1>1. PICK mark \in BOOLEAN :
        tbSaves' = [tbSaves EXCEPT ![k] =
            [at |-> "put", doc |-> Doc, mark |-> mark, leaving |-> tbPage.blocked,
             tree |-> tbPage.tree, ready |-> tbPage.ready, fresh |-> tbPage.route = 0]]
  BY DEF SaveBegins
<1>2. PICK c : c = [at |-> "put", doc |-> Doc, mark |-> mark, leaving |-> tbPage.blocked,
                    tree |-> tbPage.tree, ready |-> tbPage.ready, fresh |-> tbPage.route = 0]
  OBVIOUS
<1>3. tbPage \in BuilderPages /\ PageHolds(tbPage) /\ Doc \in SoundDocuments
  BY BuilderFacts
<1>4. tbPage.blocked \in BOOLEAN /\ tbPage.ready \in BOOLEAN /\ tbPage.tree \in BuilderRoutes /\ Doc \in MaybeSound
  BY <1>3 DEF BuilderPages, MaybeSound
<1>5. c \in BuilderSaves
  BY <1>2, <1>4 DEF BuilderSaves
<1>6. c.at = "put" /\ c.doc = Doc /\ Doc # NoDocument
  BY <1>2, <1>3, BuilderBounds
<1>7. SaveHolds(c, tbTrees)
  BY <1>6 DEF SaveHolds
<1>8. PICK q \in BuilderPages :
        /\ q = [tbPage EXCEPT !.saving = TRUE] /\ PageHolds(q) /\ q.read = tbPage.read
        /\ q.open = tbPage.open /\ q.tree = tbPage.tree /\ q.baseline = tbPage.baseline
  BY <1>3, SavingHolds
<1>9. tbPage' = q /\ tbTrees' = tbTrees /\ tbTorn' = tbTorn
  BY <1>8 DEF SaveBegins
<1>10. /\ tbTrees \in [TreeIds -> BuilderRows] /\ \A t \in TreeIds : RowHolds(tbTrees[t])
       /\ tbTorn \in BOOLEAN /\ RowHolds(q.read)
  BY <1>8 DEF BuilderInv
<1>11. BaseHolds(q, tbTrees, tbTorn)
  BY <1>8 DEF BuilderInv, BaseHolds
<1> QED  BY <1>1, <1>2, <1>5, <1>7, <1>8, <1>9, <1>10, <1>11, SaveMoves

LEMMA PutStep ==
  ASSUME BuilderInv, NEW k \in SaveIds, Put(k)
  PROVE  BuilderInv'
<1>1. PICK c \in BuilderSaves :
        c = tbSaves[k] /\ c.tree \in BuilderRoutes /\ (c.tree # 0 => c.tree \in TreeIds)
  BY SaveFacts
<1>2. c.at = "put"
  BY <1>1 DEF Put
<1>3. c.doc \in SoundDocuments
  BY <1>1, <1>2, SaveFacts
<1>4. PICK f \in BuilderSaves : f = [c EXCEPT !.at = "failed"] /\ \A trees : SaveHolds(f, trees)
  <2>1. PICK f : f = [c EXCEPT !.at = "failed"]
    OBVIOUS
  <2>2. f \in BuilderSaves /\ f.at = "failed"
    BY <2>1 DEF BuilderSaves
  <2> QED  BY <2>1, <2>2 DEF SaveHolds
<1>5. CASE Moves(k, [c EXCEPT !.at = "failed"]) /\ UNCHANGED <<tbTrees, tbTorn>>
  BY <1>4, <1>5, SaveAloneMoves DEF Moves
<1>6. ASSUME NEW t \in IF c.tree # 0 THEN {c.tree} ELSE FirstFree,
             tbTrees' = [tbTrees EXCEPT ![t].doc = c.doc], tbTorn' = (tbTorn \/ t = tbPage.tree),
             \/ Moves(k, [c EXCEPT !.at = IF c.mark /\ ~c.ready THEN "mark" ELSE "done", !.tree = t])
             \/ Moves(k, [c EXCEPT !.at = "failed"])
      PROVE  BuilderInv'
  <2>1. t \in TreeIds
    BY <1>1, <1>6 DEF FirstFree
  <2>2. PICK row \in BuilderRows : row = [tbTrees[t] EXCEPT !.doc = c.doc] /\ row.doc = c.doc
    <3>1. PICK old \in BuilderRows : old = tbTrees[t]
      BY <2>1, RowFacts
    <3>2. PICK d \in MaybeSound : d = c.doc
      BY <1>3 DEF MaybeSound
    <3>3. [old EXCEPT !.doc = d] \in BuilderRows /\ [old EXCEPT !.doc = d].doc = d
      BY RowIs
    <3> QED  BY <3>1, <3>2, <3>3
  <2>3. c.doc # NoDocument
    BY <1>3, BuilderBounds
  <2>4. tbTrees \in [TreeIds -> BuilderRows]
    BY DEF BuilderInv
  <2>5. PICK trees \in [TreeIds -> BuilderRows] :
          trees = tbTrees' /\ trees[t] = row /\ \A u \in TreeIds : u # t => trees[u] = tbTrees[u]
    <3>1. tbTrees' = [tbTrees EXCEPT ![t] = row]
      BY <1>6, <2>2
    <3> QED  BY <2>1, <2>4, <3>1
  <2>6. \A u \in TreeIds : RowHolds(trees[u]) /\ (tbTrees[u].doc # NoDocument => trees[u].doc # NoDocument)
    BY <2>2, <2>3, <2>5, RowFacts DEF RowHolds
  <2>7. /\ tbPage \in BuilderPages /\ PageHolds(tbPage) /\ RowHolds(tbPage.read)
        /\ tbTorn \in BOOLEAN /\ BaseHolds(tbPage, tbTrees, tbTorn)
    BY DEF BuilderInv, PageHolds
  <2>8. BaseHolds(tbPage, trees, tbTorn') /\ tbTorn' \in BOOLEAN
    BY <1>6, <2>5, <2>7, RowFacts DEF BaseHolds
  <2>9. CASE Moves(k, [c EXCEPT !.at = "failed"])
    <3>1. tbSaves' = [tbSaves EXCEPT ![k] = f] /\ tbPage' = tbPage
      BY <1>4, <2>9 DEF Moves
    <3>2. SaveHolds(f, trees)
      BY <1>4
    <3> QED  BY <1>4, <2>5, <2>6, <2>7, <2>8, <3>1, <3>2, SaveMoves
  <2>10. CASE Moves(k, [c EXCEPT !.at = IF c.mark /\ ~c.ready THEN "mark" ELSE "done", !.tree = t])
    <3>1. PICK at \in SaveSteps : at = IF c.mark /\ ~c.ready THEN "mark" ELSE "done"
      BY DEF SaveSteps
    <3>2. t \in BuilderRoutes /\ c.doc \in MaybeSound /\ t # 0
      BY <1>3, <2>1, BuilderBounds DEF MaybeSound
    <3>3. PICK s \in BuilderSaves : s = Goes(c, at, t, c.doc) /\ s.at = at /\ s.tree = t /\ s.doc = c.doc
      BY <3>2, GoesIs
    <3>4. [c EXCEPT !.at = at, !.tree = t] = s
      BY <3>3 DEF Goes, BuilderSaves
    <3>5. tbSaves' = [tbSaves EXCEPT ![k] = s] /\ tbPage' = tbPage
      BY <2>10, <3>1, <3>4 DEF Moves
    <3>6. SaveHolds(s, trees)
      BY <2>2, <2>3, <2>5, <3>2, <3>3 DEF SaveHolds
    <3> QED  BY <2>5, <2>6, <2>7, <2>8, <3>5, <3>6, SaveMoves
  <2> QED  BY <1>6, <2>9, <2>10
<1>7. \/ Moves(k, [c EXCEPT !.at = "failed"]) /\ UNCHANGED <<tbTrees, tbTorn>>
      \/ \E t \in IF c.tree # 0 THEN {c.tree} ELSE FirstFree :
           /\ tbTrees' = [tbTrees EXCEPT ![t].doc = c.doc] /\ tbTorn' = (tbTorn \/ t = tbPage.tree)
           /\ \/ Moves(k, [c EXCEPT !.at = IF c.mark /\ ~c.ready THEN "mark" ELSE "done", !.tree = t])
              \/ Moves(k, [c EXCEPT !.at = "failed"])
  BY <1>1 DEF Put
<1> QED  BY <1>5, <1>6, <1>7

LEMMA MarkStep ==
  ASSUME BuilderInv, NEW k \in SaveIds, Mark(k)
  PROVE  BuilderInv'
<1>1. PICK c \in BuilderSaves :
        c = tbSaves[k] /\ c.tree \in BuilderRoutes /\ (c.tree # 0 => c.tree \in TreeIds) /\ SaveHolds(c, tbTrees)
  BY SaveFacts
<1>2. c.at = "mark" /\ tbTorn' = tbTorn
  BY <1>1 DEF Mark
<1>3. c.doc \in MaybeSound /\ c.doc # NoDocument /\ c.tree \in TreeIds /\ c.tree # 0 /\ tbTrees[c.tree].doc # NoDocument
  BY <1>1, <1>2 DEF SaveHolds, BuilderSaves
<1>4. CASE tbTrees' = tbTrees /\ Moves(k, [c EXCEPT !.at = "failed"])
  <2>1. PICK f \in BuilderSaves : f = [c EXCEPT !.at = "failed"] /\ SaveHolds(f, tbTrees)
    BY FailsIs
  <2> QED  BY <1>2, <1>4, <2>1, SaveAloneMoves DEF Moves
<1>5. CASE tbTrees' = [tbTrees EXCEPT ![c.tree].ready = TRUE] /\ Moves(k, [c EXCEPT !.at = "get"])
  <2>1. PICK row \in BuilderRows :
          row = [tbTrees[c.tree] EXCEPT !.ready = TRUE] /\ row.doc = tbTrees[c.tree].doc
    <3>1. PICK old \in BuilderRows : old = tbTrees[c.tree]
      BY <1>3, RowFacts
    <3>2. [old EXCEPT !.ready = TRUE] \in BuilderRows /\ [old EXCEPT !.ready = TRUE].doc = old.doc
      BY DEF BuilderRows
    <3> QED  BY <3>1, <3>2
  <2>2. tbTrees \in [TreeIds -> BuilderRows]
    BY DEF BuilderInv
  <2>3. PICK trees \in [TreeIds -> BuilderRows] :
          /\ trees = tbTrees' /\ trees[c.tree] = row
          /\ \A u \in TreeIds : u # c.tree => trees[u] = tbTrees[u]
    <3>1. tbTrees' = [tbTrees EXCEPT ![c.tree] = row]
      BY <1>5, <2>1
    <3> QED  BY <1>3, <2>2, <3>1
  <2>4. \A u \in TreeIds : trees[u].doc = tbTrees[u].doc
    BY <2>1, <2>3
  <2>5. \A u \in TreeIds : RowHolds(trees[u])
    BY <1>3, <2>1, <2>3, RowFacts DEF RowHolds
  <2>6. /\ tbPage \in BuilderPages /\ PageHolds(tbPage) /\ RowHolds(tbPage.read)
        /\ tbTorn \in BOOLEAN /\ BaseHolds(tbPage, tbTrees, tbTorn)
    BY DEF BuilderInv, PageHolds
  <2>7. BaseHolds(tbPage, trees, tbTorn)
    BY <2>4, <2>6, RowFacts DEF BaseHolds
  <2>8. "get" \in SaveSteps
    BY DEF SaveSteps
  <2>9. PICK s \in BuilderSaves : s = Goes(c, "get", c.tree, c.doc) /\ s.at = "get" /\ s.tree = c.tree /\ s.doc = c.doc
    BY <1>1, <1>3, <2>8, GoesIs
  <2>10. s = [c EXCEPT !.at = "get"]
    BY <2>9 DEF Goes, BuilderSaves
  <2>11. SaveHolds(s, trees)
    BY <1>3, <2>4, <2>9 DEF SaveHolds
  <2>12. tbSaves' = [tbSaves EXCEPT ![k] = s] /\ tbPage' = tbPage
    BY <1>5, <2>10 DEF Moves
  <2> QED  BY <1>2, <2>3, <2>4, <2>5, <2>6, <2>7, <2>11, <2>12, SaveMoves
<1> QED  BY <1>1, <1>4, <1>5 DEF Mark

LEMMA GetStep ==
  ASSUME BuilderInv, NEW k \in SaveIds, Get(k)
  PROVE  BuilderInv'
<1>1. PICK c \in BuilderSaves :
        c = tbSaves[k] /\ c.tree \in BuilderRoutes /\ (c.tree # 0 => c.tree \in TreeIds) /\ SaveHolds(c, tbTrees)
  BY SaveFacts
<1>2. c.at = "get" /\ UNCHANGED <<tbTrees, tbTorn>>
  BY <1>1 DEF Get
<1>3. c.tree \in TreeIds /\ c.tree # 0 /\ tbTrees[c.tree].doc # NoDocument
  BY <1>1, <1>2 DEF SaveHolds
<1>4. CASE Moves(k, [c EXCEPT !.at = "failed"])
  <2>1. PICK f \in BuilderSaves : f = [c EXCEPT !.at = "failed"] /\ SaveHolds(f, tbTrees)
    BY FailsIs
  <2> QED  BY <1>2, <1>4, <2>1, SaveAloneMoves DEF Moves
<1>5. CASE Moves(k, [c EXCEPT !.at = "done", !.doc = tbTrees[c.tree].doc])
  <2>1. PICK d \in MaybeSound : d = tbTrees[c.tree].doc
    <3>1. PICK old \in BuilderRows : old = tbTrees[c.tree]
      BY <1>3, RowFacts
    <3> QED  BY <3>1, RowIs DEF BuilderRows
  <2>2. "done" \in SaveSteps
    BY DEF SaveSteps
  <2>3. PICK s \in BuilderSaves : s = Goes(c, "done", c.tree, d) /\ s.at = "done" /\ s.tree = c.tree /\ s.doc = d
    BY <1>1, <2>2, GoesIs
  <2>4. s = [c EXCEPT !.at = "done", !.doc = d]
    BY <2>3 DEF Goes, BuilderSaves
  <2>5. SaveHolds(s, tbTrees)
    BY <1>3, <2>1, <2>3 DEF SaveHolds
  <2>6. tbSaves' = [tbSaves EXCEPT ![k] = s] /\ tbPage' = tbPage
    BY <1>5, <2>1, <2>4 DEF Moves
  <2> QED  BY <1>2, <2>5, <2>6, SaveAloneMoves
<1> QED  BY <1>1, <1>4, <1>5 DEF Get

\* A save that is over.
LEMMA EndedHolds ==
  ASSUME BuilderInv, NEW k \in SaveIds, Ended(k), NEW q \in BuilderPages, tbPage' = q,
         PageHolds(q), RowHolds(q.read), tbTorn' \in BOOLEAN, BaseHolds(q, tbTrees, tbTorn')
  PROVE  BuilderInv'
<1>1. PICK s : s = [NoSave EXCEPT !.at = "over"]
  OBVIOUS
<1>2. s \in BuilderSaves /\ SaveHolds(s, tbTrees)
  BY <1>1, BuilderBounds DEF NoSave, BuilderSaves, MaybeSound, SaveHolds
<1>3. tbSaves' = [tbSaves EXCEPT ![k] = s] /\ tbTrees' = tbTrees
  BY <1>1 DEF Ended
<1>4. tbTrees \in [TreeIds -> BuilderRows] /\ \A t \in TreeIds : RowHolds(tbTrees[t])
  BY DEF BuilderInv
<1> QED  BY <1>2, <1>3, <1>4, SaveMoves

LEMMA SaveFailedStep ==
  ASSUME BuilderInv, NEW k \in SaveIds, SaveFailed(k)
  PROVE  BuilderInv'
<1>1. /\ tbPage \in BuilderPages /\ PageHolds(tbPage) /\ RowHolds(tbPage.read)
      /\ tbTorn \in BOOLEAN /\ BaseHolds(tbPage, tbTrees, tbTorn)
  BY DEF BuilderInv, PageHolds
<1>2. PICK s \in BuilderPages :
        /\ s = [tbPage EXCEPT !.saving = FALSE] /\ PageHolds(s) /\ s.read = tbPage.read
        /\ s.open = tbPage.open /\ s.tree = tbPage.tree /\ s.baseline = tbPage.baseline
  BY <1>1, SavingHolds
<1>3. PICK q \in BuilderPages :
        /\ q = (IF tbPage.open THEN [tbPage EXCEPT !.saving = FALSE] ELSE tbPage)
        /\ PageHolds(q) /\ q.read = tbPage.read
        /\ q.open = tbPage.open /\ q.tree = tbPage.tree /\ q.baseline = tbPage.baseline
  BY <1>1, <1>2
<1>4. Ended(k) /\ tbPage' = q /\ tbTorn' = tbTorn
  BY <1>3 DEF SaveFailed
<1>5. BaseHolds(q, tbTrees, tbTorn)
  BY <1>1, <1>3 DEF BaseHolds
<1> QED  BY <1>1, <1>3, <1>4, <1>5, EndedHolds

\* The page of a new Tree moves to its address.
LEMMA MovedHolds ==
  ASSUME NEW page \in BuilderPages, PageHolds(page), NEW r \in BuilderRoutes
  PROVE  \E q \in BuilderPages :
           /\ q = [page EXCEPT !.route = r, !.load = "asked", !.blocked = FALSE] /\ PageHolds(q)
           /\ q.read = page.read /\ q.open = page.open /\ q.tree = page.tree /\ q.baseline = page.baseline
<1>1. PICK q : q = [page EXCEPT !.route = r, !.load = "asked", !.blocked = FALSE]
  OBVIOUS
<1>2. q \in BuilderPages
  BY <1>1 DEF BuilderPages
<1>3. /\ q.open = page.open /\ q.tree = page.tree /\ q.baseline = page.baseline
      /\ q.snap = page.snap /\ q.committed = page.committed /\ q.past = page.past
      /\ q.future = page.future /\ q.verdict = page.verdict /\ q.read = page.read
  BY <1>1 DEF BuilderPages
<1>4. PageHolds(q)
  BY <1>2, <1>3 DEF PageHolds, VerdictHolds, HistoryHolds
<1> QED  BY <1>1, <1>2, <1>3, <1>4

LEMMA SaveDoneStep ==
  ASSUME BuilderInv, NEW k \in SaveIds, SaveDone(k)
  PROVE  BuilderInv'
<1>1. PICK c \in BuilderSaves :
        c = tbSaves[k] /\ c.tree \in BuilderRoutes /\ (c.tree # 0 => c.tree \in TreeIds) /\ SaveHolds(c, tbTrees)
  BY SaveFacts
<1>2. c.at = "done" /\ Ended(k) /\ tbTorn' = (c.doc # tbTrees[c.tree].doc)
  BY <1>1 DEF SaveDone
<1>3. c.doc \in SoundDocuments /\ c.doc # NoDocument
  BY <1>1, <1>2, SaveFacts, BuilderBounds
<1>4. /\ tbPage \in BuilderPages /\ PageHolds(tbPage) /\ RowHolds(tbPage.read)
      /\ tbPage.snap \in BuilderSnaps
      /\ tbPage.snap.look \in {"loaded", "between", "arranged", "tidy"}
  BY BuilderFacts DEF BuilderInv
<1>5. PICK snap \in BuilderSnaps :
        snap = Snapshot(c.doc, IF c.ready THEN "tidy" ELSE tbPage.snap.look) /\ snap.doc = c.doc
  <2>1. (IF c.ready THEN "tidy" ELSE tbPage.snap.look) \in {"loaded", "between", "arranged", "tidy"}
    BY <1>4
  <2> QED  BY <1>3, <2>1, SnapshotIsSnap
<1>6. PICK s \in BuilderPages :
        /\ s = [tbPage EXCEPT !.saving = FALSE] /\ PageHolds(s) /\ s.read = tbPage.read
        /\ s.open = tbPage.open /\ s.tree = tbPage.tree /\ s.baseline = tbPage.baseline
  BY <1>4, SavingHolds
<1>7. PICK ready : ready \in BOOLEAN /\ ready = (tbPage.ready \/ c.mark)
  OBVIOUS
<1>8. PICK b \in BuilderPages :
        /\ b = Rebased(s, c.tree, ready, snap) /\ HistoryHolds(b) /\ b.read = s.read
        /\ b.open = s.open /\ b.tree = c.tree /\ b.baseline = snap.doc
  <2>1. PICK t \in BuilderRoutes : t = c.tree
    BY <1>1
  <2>2. ready \in BOOLEAN
    BY <1>7
  <2>3. PICK b \in BuilderPages :
        /\ b = Rebased(s, t, ready, snap) /\ HistoryHolds(b) /\ b.read = s.read
        /\ b.open = s.open /\ b.tree = t /\ b.baseline = snap.doc
    BY <2>2, RebasedHolds
  <2> QED  BY <2>1, <2>3
<1>9. PICK kept \in BuilderPages :
        /\ kept = Rechecked(b) /\ PageHolds(kept) /\ kept.read = b.read
        /\ kept.open = b.open /\ kept.tree = b.tree /\ kept.baseline = b.baseline
  BY <1>8, RecheckedHolds
<1>10. b = [tbPage EXCEPT
              !.tree = c.tree, !.ready = @ \/ c.mark, !.snap = snap, !.committed = snap,
              !.baseline = c.doc, !.past = <<>>, !.future = <<>>, !.saving = FALSE]
  <2>1. b = [tbPage EXCEPT !.saving = FALSE, !.tree = c.tree, !.ready = ready, !.snap = snap,
                           !.committed = snap, !.baseline = c.doc, !.past = <<>>, !.future = <<>>]
    BY <1>5, <1>6, <1>8 DEF Rebased
  <2>2. b = [tbPage EXCEPT !.tree = c.tree, !.ready = ready, !.snap = snap, !.committed = snap,
                           !.baseline = c.doc, !.past = <<>>, !.future = <<>>, !.saving = FALSE]
    BY <1>4, <2>1 DEF BuilderPages
  <2> QED  BY <1>7, <2>2
<1>12. \/ tbPage' = FreshPage(c.tree)
       \/ ~tbPage.open /\ tbPage' = tbPage
       \/ tbPage' = Left
       \/ tbPage' = [kept EXCEPT !.route = c.tree, !.load = "asked", !.blocked = FALSE]
       \/ tbPage' = kept
  BY <1>1, <1>5, <1>9, <1>10 DEF SaveDone
<1>13. RowHolds(kept.read) /\ kept.tree = c.tree /\ kept.baseline = c.doc
  BY <1>4, <1>5, <1>6, <1>8, <1>9
<1>14. PICK torn \in BOOLEAN : torn = tbTorn'
  BY <1>2
<1>15. ASSUME NEW q \in BuilderPages, tbPage' = q, PageHolds(q), RowHolds(q.read),
              q.open => q.tree = 0 \/ (q.tree = c.tree /\ q.baseline = c.doc)
       PROVE  BuilderInv'
  <2>1. BaseHolds(q, tbTrees, torn)
    BY <1>2, <1>3, <1>14, <1>15 DEF BaseHolds
  <2> QED  BY <1>2, <1>14, <1>15, <2>1, EndedHolds
<1>16. CASE tbPage' = FreshPage(c.tree)
  <2>1. PICK q \in BuilderPages : q = FreshPage(c.tree) /\ PageHolds(q) /\ RowHolds(q.read) /\ q.tree = 0
    BY <1>1, FreshHolds
  <2> QED  BY <1>15, <1>16, <2>1
<1>17. CASE ~tbPage.open /\ tbPage' = tbPage
  BY <1>4, <1>15, <1>17
<1>18. CASE tbPage' = Left
  <2>1. PICK q \in BuilderPages : q = Left /\ PageHolds(q) /\ RowHolds(q.read) /\ q.open = FALSE
    BY LeftHolds
  <2> QED  BY <1>15, <1>18, <2>1
<1>19. CASE tbPage' = [kept EXCEPT !.route = c.tree, !.load = "asked", !.blocked = FALSE]
  <2>1. PICK q \in BuilderPages :
          /\ q = [kept EXCEPT !.route = c.tree, !.load = "asked", !.blocked = FALSE] /\ PageHolds(q)
          /\ q.read = kept.read /\ q.open = kept.open /\ q.tree = kept.tree /\ q.baseline = kept.baseline
    BY <1>1, <1>9, MovedHolds
  <2> QED  BY <1>13, <1>15, <1>19, <2>1
<1>20. CASE tbPage' = kept
  BY <1>9, <1>13, <1>15, <1>20
<1> QED  BY <1>12, <1>16, <1>17, <1>18, <1>19, <1>20

-----------------------------------------------------------------------------
(* The builder.                                                            *)

LEMMA BuilderBegins == TreeBuilderInit => BuilderInv
<1> SUFFICES ASSUME TreeBuilderInit
             PROVE  BuilderInv
  OBVIOUS
<1>1. PICK ready \in BOOLEAN :
        tbTrees = [t \in TreeIds |-> IF t = 1 THEN [doc |-> Stored, ready |-> ready] ELSE NoTree]
  BY DEF TreeBuilderInit
<1>2. PICK r \in {0, 1} : tbPage = FreshPage(r)
  BY DEF TreeBuilderInit
<1>3. r \in BuilderRoutes
  BY BuilderBounds DEF BuilderRoutes
<1>4. PICK q \in BuilderPages : q = FreshPage(r) /\ PageHolds(q) /\ RowHolds(q.read) /\ q.tree = 0
  BY <1>3, FreshHolds
<1>5. PICK stored \in SoundDocuments : stored = Stored
  BY StoredIsSound
<1>6. [doc |-> stored, ready |-> ready] \in BuilderRows /\ NoTree \in BuilderRows /\ stored # NoDocument
  BY BuilderBounds DEF BuilderRows, MaybeSound, NoTree
<1>7. tbTrees \in [TreeIds -> BuilderRows] /\ \A t \in TreeIds : RowHolds(tbTrees[t])
  BY <1>1, <1>5, <1>6 DEF RowHolds
<1>8. NoSave \in BuilderSaves /\ \A trees : SaveHolds(NoSave, trees)
  BY BuilderBounds DEF NoSave, BuilderSaves, MaybeSound, SaveHolds
<1>9. tbSaves = [k \in SaveIds |-> NoSave] /\ tbTorn = FALSE
  BY DEF TreeBuilderInit, SaveIds
<1>10. tbSaves \in [SaveIds -> BuilderSaves] /\ \A k \in SaveIds : SaveHolds(tbSaves[k], tbTrees)
  BY <1>8, <1>9
<1>11. PageHolds(tbPage) /\ RowHolds(tbPage.read) /\ BaseHolds(tbPage, tbTrees, tbTorn)
  BY <1>2, <1>4 DEF BaseHolds
<1> QED  BY <1>7, <1>9, <1>10, <1>11 DEF BuilderInv, SaveIds

LEMMA BuilderStep ==
  ASSUME BuilderInv, TreeBuilderNext \/ UNCHANGED tbVars
  PROVE  BuilderInv'
<1>1. CASE UNCHANGED tbVars
  <2>1. tbTrees' = tbTrees /\ tbPage' = tbPage /\ tbSaves' = tbSaves /\ tbTorn' = tbTorn
    BY <1>1 DEF tbVars
  <2> QED  BY <2>1 DEF BuilderInv
<1>2. ASSUME NEW k \in 1..MaxSaves, Saving(k)
      PROVE  BuilderInv'
  <2>1. k \in SaveIds
    BY DEF SaveIds
  <2> QED  BY <1>2, <2>1, SaveBeginsStep, PutStep, MarkStep, GetStep, SaveDoneStep, SaveFailedStep DEF Saving
<1>3. CASE LoadReads \/ LoadAnswered
  BY <1>3, LoadReadsStep, LoadAnsweredStep
<1>4. CASE rename \/ drop \/ connect \/ disconnectResource \/ togglePeer \/ deleteSelection
  BY <1>4, RenameStep, DropStep, ConnectStep, DisconnectStep, PeerStep, DeleteStep
<1>5. CASE Arrange \/ layout \/ Frame \/ undo \/ redo \/ CheckAnswered
  BY <1>5, ArrangeStep, LayoutStep, FrameStep, HistoryStep, CheckStep
<1>6. CASE Leave \/ Stay \/ Discard
  BY <1>6, LeaveStep
<1> QED  BY <1>1, <1>2, <1>3, <1>4, <1>5, <1>6 DEF TreeBuilderNext

LEMMA BuilderKnows ==
  ASSUME BuilderInv
  PROVE  /\ TreeBuilderTypeOK /\ CleanIsSaved /\ VerdictIsCurrent
         /\ HistoryIsAnchored /\ DocumentIsSound
<1>1. /\ tbPage \in BuilderPages /\ VerdictHolds(tbPage) /\ HistoryHolds(tbPage)
      /\ tbPage.snap \in BuilderSnaps /\ Doc \in SoundDocuments /\ Doc = tbPage.snap.doc
  BY BuilderFacts
<1>2. /\ tbPage.committed \in BuilderSnaps /\ tbPage.past \in Histories /\ tbPage.future \in Histories
      /\ tbPage.check \in Checks
  BY <1>1 DEF BuilderPages
<1>3. Doc \in Documents /\ IsHierarchy(Doc) /\ tbPage.committed.doc \in Documents
  BY <1>1, <1>2 DEF BuilderSnaps, SoundDocuments
<1>4. Len(tbPage.past) <= HistoryLimit /\ Len(tbPage.future) <= HistoryLimit
  <2>1. Len(tbPage.past) \in Nat /\ Len(tbPage.future) \in Nat
    BY <1>2, LenProperties DEF Histories
  <2>2. Len(tbPage.past) + Len(tbPage.future) <= HistoryLimit
    BY <1>1 DEF HistoryHolds
  <2> QED  BY <2>1, <2>2, BuilderBounds, PartIsSmaller
<1>5. TreeBuilderTypeOK
  <2>1. DOMAIN tbTrees = TreeIds /\ tbTorn \in BOOLEAN
    BY DEF BuilderInv
  <2> QED  BY <1>1, <1>2, <1>3, <1>4, <2>1 DEF TreeBuilderTypeOK, Checks
<1>6. CleanIsSaved
  <2>1. BaseHolds(tbPage, tbTrees, tbTorn)
    BY DEF BuilderInv
  <2> QED  BY <2>1 DEF CleanIsSaved, BaseHolds, Dirty
<1>7. VerdictIsCurrent
  BY <1>1 DEF VerdictIsCurrent, VerdictHolds
<1>8. HistoryIsAnchored
  BY <1>1 DEF HistoryIsAnchored, HistoryHolds
<1> QED  BY <1>3, <1>5, <1>6, <1>7, <1>8 DEF DocumentIsSound

-----------------------------------------------------------------------------
(* The wizard.                                                             *)

\* The wizard's own names for what both editors use.
LEMMA WizardWords ==
  /\ Wizard!Agents = Agents /\ Wizard!Documents = Documents
  /\ \A d : Wizard!Members(d) = Members(d)
  /\ \A d, S : Wizard!Children(d, S) = Children(d, S)
  /\ \A S : Wizard!Cardinality(S) = Cardinality(S)
  /\ \A S : Wizard!Min(S) = Min(S)
  /\ \A s : Wizard!ToSet(s) = ToSet(s)
  /\ \A s, i : Wizard!RemoveAt(s, i) = RemoveAt(s, i)
<1>1. \A S : Wizard!Cardinality(S) = Cardinality(S)
  BY DEF Wizard!Cardinality, Cardinality, Wizard!IsFiniteSet, IsFiniteSet
<1>2. \A d : Wizard!Members(d) = Members(d)
  BY DEF Wizard!Members, Members
<1>3. \A S : Wizard!Min(S) = Min(S)
  BY DEF Wizard!Min, Min
<1>4. \A s : Wizard!ToSet(s) = ToSet(s)
  BY DEF Wizard!ToSet, ToSet
<1>5. \A s, i : Wizard!RemoveAt(s, i) = RemoveAt(s, i)
  BY DEF Wizard!RemoveAt, RemoveAt
<1>6. Wizard!Agents = Agents
  BY DEF Wizard!Agents, Agents
<1>7. Wizard!Documents = Documents
  BY <1>6 DEF Wizard!Documents, Documents
<1>8. \A d, S : Wizard!Children(d, S) = Children(d, S)
  BY <1>2 DEF Wizard!Children, Children
<1> QED  BY <1>1, <1>2, <1>3, <1>4, <1>5, <1>6, <1>7, <1>8

LEMMA WizardDocuments ==
  /\ \A d : Wizard!Valid(d) <=> Valid(d)
  /\ \A d : Wizard!IsHierarchy(d) <=> IsHierarchy(d)
<1>1. \A d : Wizard!PeersExist(d) <=> PeersExist(d)
  BY WizardWords DEF Wizard!PeersExist, PeersExist
<1>2. \A d : Wizard!HierarchyEdges(d) = HierarchyEdges(d)
  BY WizardWords DEF Wizard!HierarchyEdges, HierarchyEdges
<1>3. \A d, x, y : Wizard!canConnect(d, x, y) <=> canConnect(d, x, y)
  BY WizardWords DEF Wizard!canConnect, canConnect
<1>4. \A d : Wizard!Valid(d) <=> Valid(d)
  BY <1>1, WizardWords DEF Wizard!Valid, Valid
<1>5. \A d : Wizard!IsHierarchy(d) <=> IsHierarchy(d)
  BY <1>1, <1>2, <1>3, WizardWords DEF Wizard!IsHierarchy, IsHierarchy
<1> QED  BY <1>4, <1>5

-----------------------------------------------------------------------------
(* What the wizard edits.                                                  *)

\* A document but for its peers.
LooseDocuments ==
  {d \in Documents : /\ d.parent \in Parents(Members(d))
                     /\ \A x, y \in Roots \cap Members(d) : x = y
                     /\ \A t \in d.tools : t[1] \in Members(d)}

Branch   == [agent : Managers, specialists : Seq(Specialists)]
Branches == Seq(Branch)
WizardStates == [named : BOOLEAN, root : Roots, managers : Branches,
                 peers : SUBSET (Managers \X Managers), tools : SUBSET (Agents \X Tools)]

\* A peer is another Manager of the list, and no Manager is in it twice.
PeersFit(w) ==
  \A p \in w.peers : p[1] # p[2] /\ \E i \in DOMAIN w.managers : w.managers[i].agent = p[2]
ManagersDiffer(w) ==
  \A i, j \in DOMAIN w.managers : w.managers[i].agent = w.managers[j].agent => i = j
Coherent(w) == PeersFit(w) /\ ManagersDiffer(w)

\* Both hold until the lists are replaced under an open editor.
Drafts(past)     == (IF past.moved THEN LooseDocuments ELSE SoundDocuments) \union {NoDraft}
DraftRows(past)  == [doc : Drafts(past), ready : BOOLEAN]
DraftRoutes      == 0..MaxDrafts + 1
WizardForms(past) == {w \in WizardStates : past.moved \/ Coherent(w)}
EditorKinds      == {"none", "manager", "specialist"}
Editors          == [kind : EditorKinds, manager : Nat, specialist : Nat, agent : Nat]

WizardPages(past) ==
  [open : BOOLEAN, route : DraftRoutes, tree : DraftRoutes, ready : BOOLEAN,
   state : WizardForms(past), dirty : BOOLEAN, loading : BOOLEAN, load : Loads,
   read : DraftRows(past), saving : BOOLEAN, editor : Editors, verdict : Verdicts,
   runnable : BOOLEAN]

WriteSteps == {"idle", "put", "saved", "failed", "validate", "valid", "invalid", "none", "over"}
Writes(past) ==
  [at : WriteSteps, doc : Drafts(past), tree : DraftRoutes, ready : BOOLEAN, new : BOOLEAN,
   unique : BOOLEAN, check : BOOLEAN, mark : BOOLEAN]

\* The editor is of an Agent of its kind; that of a Manager remembers its place.
EditorHolds(w, e, past) ==
  /\ e # Wizard!NoEditor => e.kind # "none"
  /\ e.kind = "manager" => e.agent \in Managers
  /\ e.kind = "specialist" => e.agent \in Specialists
  /\ ~past.moved /\ e.kind = "manager" =>
       IF e.manager = 0 THEN \A i \in DOMAIN w.managers : w.managers[i].agent # e.agent
       ELSE e.manager \in DOMAIN w.managers /\ w.managers[e.manager].agent = e.agent

DraftHolds(row) == row.doc = NoDraft => row = Wizard!NoTreeRow

-----------------------------------------------------------------------------
(* How many Trees there are.                                               *)

Used(trees) == {t \in Wizard!DraftIds : trees[t] # Wizard!NoTreeRow}
Busy(c)     == c.at \in {"put", "saved", "failed"}

AddressHolds(page, trees) ==
  /\ page.route # 0 => page.route \in Used(trees)
  /\ page.tree # 0 => page.tree \in Used(trees)
  /\ page.read # Wizard!NoTreeRow => page.route # 0
WriteHolds(c, trees) ==
  /\ c.at \in {"put", "saved"} => c.doc # NoDraft
  /\ c.at = "put" /\ ~c.new => c.tree \in Used(trees)
  /\ c.at \in {"saved", "validate"} => c.tree \in Used(trees)

OneIsBusy(page, saves) ==
  /\ \A j, k \in DOMAIN saves : Busy(saves[j]) /\ Busy(saves[k]) => j = k
  /\ \A k \in DOMAIN saves : page.open /\ Busy(saves[k]) => page.saving

\* Only the Tree of the beginning is there until a creation succeeds.
FewTrees(page, saves, trees) ==
  /\ \E x \in Wizard!DraftIds : Used(trees) \subseteq {1, x}
  /\ \A k \in DOMAIN saves :
       saves[k].new /\ saves[k].at \in {"put", "failed"} => Used(trees) \subseteq {1}
  /\ page.open /\ page.tree = 0 /\ (\A k \in DOMAIN saves : saves[k].new => saves[k].at # "saved")
       => Used(trees) \subseteq {1}

WizardInv ==
  /\ wzPast \in [lost : BOOLEAN, moved : BOOLEAN]
  /\ wzTrees \in [Wizard!DraftIds -> DraftRows(wzPast)]
  /\ \A t \in Wizard!DraftIds : DraftHolds(wzTrees[t])
  /\ wzPage \in WizardPages(wzPast) /\ DraftHolds(wzPage.read)
  /\ EditorHolds(wzPage.state, wzPage.editor, wzPast)
  /\ wzSaves \in [1..MaxDrafts -> Writes(wzPast)]
  /\ \A k \in 1..MaxDrafts : WriteHolds(wzSaves[k], wzTrees)
  /\ AddressHolds(wzPage, wzTrees) /\ OneIsBusy(wzPage, wzSaves)
  /\ ~wzPast.lost => FewTrees(wzPage, wzSaves, wzTrees)

-----------------------------------------------------------------------------
(* Sequences.                                                              *)

LEMMA RemoveAtIs ==
  ASSUME NEW S, NEW s \in Seq(S), NEW i \in 1..Len(s)
  PROVE  /\ RemoveAt(s, i) \in Seq(S) /\ Len(RemoveAt(s, i)) = Len(s) - 1
         /\ \A k \in 1..Len(s) - 1 : RemoveAt(s, i)[k] = IF k < i THEN s[k] ELSE s[k + 1]
<1> DEFINE a == SubSeq(s, 1, i - 1)
           b == SubSeq(s, i + 1, Len(s))
<1>1. Len(s) \in Nat /\ \A j \in 1..Len(s) : s[j] \in S
  BY LenProperties, ElementOfSeq
<1>2. /\ a \in Seq(S) /\ Len(a) = i - 1
      /\ \A k \in 1..i - 1 : a[k] = s[k]
  <2>1. 1 \in Int /\ i - 1 \in Int /\ \A j \in 1..i - 1 : s[j] \in S
    BY <1>1
  <2>2. /\ a \in Seq(S) /\ Len(a) = IF 1 <= i - 1 THEN i - 1 - 1 + 1 ELSE 0
        /\ \A k \in 1..(i - 1) - 1 + 1 : a[k] = s[1 + k - 1]
    BY <2>1, SubSeqProperties
  <2>3. \A k \in 1..i - 1 : k \in 1..(i - 1) - 1 + 1 /\ 1 + k - 1 = k
    BY <1>1
  <2>4. (IF 1 <= i - 1 THEN i - 1 - 1 + 1 ELSE 0) = i - 1
    BY <1>1
  <2> HIDE DEF a
  <2> QED  BY <2>2, <2>3, <2>4
<1>3. /\ b \in Seq(S) /\ Len(b) = Len(s) - i
      /\ \A k \in 1..Len(s) - i : b[k] = s[i + k]
  <2>1. i + 1 \in Int /\ Len(s) \in Int /\ \A j \in i + 1..Len(s) : s[j] \in S
    BY <1>1
  <2>2. /\ b \in Seq(S) /\ Len(b) = IF i + 1 <= Len(s) THEN Len(s) - (i + 1) + 1 ELSE 0
        /\ \A k \in 1..Len(s) - (i + 1) + 1 : b[k] = s[(i + 1) + k - 1]
    BY <2>1, SubSeqProperties
  <2>3. \A k \in 1..Len(s) - i : k \in 1..Len(s) - (i + 1) + 1 /\ (i + 1) + k - 1 = i + k
    BY <1>1
  <2>4. (IF i + 1 <= Len(s) THEN Len(s) - (i + 1) + 1 ELSE 0) = Len(s) - i
    BY <1>1
  <2> HIDE DEF b
  <2> QED  BY <2>2, <2>3, <2>4
<1> HIDE DEF a, b
<1>4. /\ a \o b \in Seq(S) /\ Len(a \o b) = Len(a) + Len(b)
      /\ \A k \in 1..Len(a) + Len(b) : (a \o b)[k] = IF k <= Len(a) THEN a[k] ELSE b[k - Len(a)]
  BY <1>2, <1>3, ConcatProperties
<1>5. RemoveAt(s, i) = a \o b
  BY DEF RemoveAt, a, b
<1>6. Len(a) + Len(b) = Len(s) - 1
  BY <1>1, <1>2, <1>3
<1>7. ASSUME NEW k \in 1..Len(s) - 1
      PROVE  (a \o b)[k] = IF k < i THEN s[k] ELSE s[k + 1]
  <2>1. k \in 1..Len(a) + Len(b)
    BY <1>6
  <2>2. (a \o b)[k] = IF k <= Len(a) THEN a[k] ELSE b[k - Len(a)]
    BY <1>4, <2>1
  <2>3. CASE k < i
    <3>1. k <= Len(a) /\ k \in 1..i - 1
      BY <1>1, <1>2, <2>3
    <3> QED  BY <1>2, <2>2, <2>3, <3>1
  <2>4. CASE ~(k < i)
    <3>1. ~(k <= Len(a)) /\ k - Len(a) \in 1..Len(s) - i /\ i + (k - Len(a)) = k + 1
      BY <1>1, <1>2, <2>4
    <3>2. b[k - Len(a)] = s[k + 1]
      BY <1>3, <3>1
    <3> QED  BY <2>2, <2>4, <3>1, <3>2
  <2> QED  BY <2>3, <2>4
<1> QED  BY <1>4, <1>5, <1>6, <1>7

\* The order in which a document lists the elements of a set.
LEMMA InOrderLists ==
  ASSUME NEW S, IsFiniteSet(S)
  PROVE  /\ Cardinality(S) \in Nat
         /\ Wizard!InOrder(S) \in Seq(S) /\ Len(Wizard!InOrder(S)) = Cardinality(S)
         /\ \A i \in 1..Cardinality(S) : Wizard!InOrder(S)[i] \in S
         /\ \A i, j \in 1..Cardinality(S) : Wizard!InOrder(S)[i] = Wizard!InOrder(S)[j] => i = j
         /\ \A x \in S : \E i \in 1..Cardinality(S) : Wizard!InOrder(S)[i] = x
<1>1. PICK n \in Nat : n = Cardinality(S)
  BY FS_CardinalityType
<1>2. PICK g \in Bijection(1..n, S) : TRUE
  BY <1>1, FS_CardinalityType DEF ExistsBijection
<1>3. g \in [1..n -> S] /\ \A a, b \in DOMAIN g : g[a] = g[b] => a = b
  BY DEF Bijection, Injection, IsInjective
<1>4. PICK f : f = Wizard!InOrder(S)
  OBVIOUS
<1>5. f = CHOOSE h \in [1..n -> S] : \A a, b \in DOMAIN h : h[a] = h[b] => a = b
  BY <1>1, <1>4, WizardWords DEF Wizard!InOrder, Wizard!SetToSeq, Wizard!IsInjective
<1>6. f \in [1..n -> S] /\ \A a, b \in DOMAIN f : f[a] = f[b] => a = b
  BY <1>3, <1>5
<1>7. f \in Injection(1..n, S)
  BY <1>6 DEF Injection, IsInjective
<1>8. Cardinality(1..n) = n
  <2>1. 1 \in Int /\ n \in Int /\ (IF 1 > n THEN 0 ELSE n - 1 + 1) = n
    OBVIOUS
  <2> QED  BY <2>1, FS_Interval
<1>9. f \in Surjection(1..n, S)
  BY <1>1, <1>7, <1>8, FS_Injection
<1>10. \A x \in S : \E i \in 1..n : f[i] = x
  BY <1>9 DEF Surjection
<1>11. f \in Seq(S) /\ Len(f) = n
  BY <1>6
<1> QED  BY <1>1, <1>4, <1>6, <1>10, <1>11

LEMMA InOrderHolds ==
  ASSUME NEW S, IsFiniteSet(S)
  PROVE  ToSet(Wizard!InOrder(S)) = S
<1>1. PICK f : f = Wizard!InOrder(S)
  OBVIOUS
<1>2. DOMAIN f = 1..Cardinality(S)
  BY <1>1, InOrderLists, LenProperties
<1> QED  BY <1>1, <1>2, InOrderLists DEF ToSet

-----------------------------------------------------------------------------
(* Documents of the wizard.                                                *)

\* A document with its edges, but whatever peers.
LEMMA LooseHas ==
  ASSUME NEW d \in LooseDocuments
  PROVE  /\ d \in Documents /\ d.named \in BOOLEAN
         /\ Members(d) \in SUBSET Agents /\ d.parent \in Parents(Members(d))
         /\ \A x, y \in Roots \cap Members(d) : x = y
         /\ d.peers \in SUBSET (Managers \X Managers)
         /\ d.tools \in SUBSET (Agents \X Tools) /\ \A t \in d.tools : t[1] \in Members(d)
         /\ d = [named |-> d.named, parent |-> d.parent, peers |-> d.peers, tools |-> d.tools]
<1>1. d \in Documents /\ d.parent \in Parents(Members(d))
  BY DEF LooseDocuments
<1>2. PICK A \in SUBSET Agents : d.parent \in [A -> A \union {Nobody}]
  BY <1>1 DEF Documents
<1>3. Members(d) \in SUBSET Agents
  BY <1>2 DEF Members
<1>4. /\ d.named \in BOOLEAN /\ d.peers \in SUBSET (Managers \X Managers)
      /\ d.tools \in SUBSET (Agents \X Tools)
      /\ d = [named |-> d.named, parent |-> d.parent, peers |-> d.peers, tools |-> d.tools]
  BY <1>1 DEF Documents
<1> QED  BY <1>1, <1>3, <1>4 DEF LooseDocuments

LEMMA LooseIsSound ==
  ASSUME NEW d \in LooseDocuments, \A p \in d.peers : p[1] \in Members(d) /\ p[2] \in Members(d) /\ p[1] # p[2]
  PROVE  d \in SoundDocuments
BY LooseHas, MakesSound

LEMMA SoundIsLoose ==
  ASSUME NEW d \in SoundDocuments
  PROVE  d \in LooseDocuments
BY SoundHas DEF LooseDocuments

LEMMA MakesLoose ==
  ASSUME NEW A \in SUBSET Agents, NEW parent \in Parents(A),
         \A x, y \in Roots \cap A : x = y,
         NEW peers \in SUBSET (Managers \X Managers),
         NEW bound \in SUBSET (Agents \X Tools), \A t \in bound : t[1] \in A,
         NEW d, d.named \in BOOLEAN,
         d = [named |-> d.named, parent |-> parent, peers |-> peers, tools |-> bound]
  PROVE  d \in LooseDocuments /\ Members(d) = A
<1>1. parent \in [A -> A \union {Nobody}]
  BY DEF Parents
<1>2. d \in Documents
  BY <1>1 DEF Documents
<1>3. Members(d) = A
  BY <1>1 DEF Members
<1> QED  BY <1>2, <1>3 DEF LooseDocuments

\* A Manager's children are Specialists.
LEMMA ChildrenOfManager ==
  ASSUME NEW d \in LooseDocuments, NEW m \in Managers
  PROVE  /\ Children(d, {m}) \subseteq Members(d) /\ Children(d, {m}) \subseteq Specialists
         /\ IsFiniteSet(Children(d, {m}))
<1>1. Members(d) \in SUBSET Agents /\ d.parent \in Parents(Members(d))
  BY LooseHas
<1>2. ASSUME NEW a \in Children(d, {m})
      PROVE  a \in Members(d) /\ a \in Specialists
  <2>1. a \in Members(d) /\ d.parent[a] = m
    BY <1>2 DEF Children
  <2>2. MayLead(m, a)
    BY <1>1, <2>1, Roles DEF Parents
  <2> QED  BY <2>1, <2>2, Roles DEF MayLead
<1>3. Children(d, {m}) \in SUBSET Agents
  BY <1>1, <1>2
<1> QED  BY <1>2, <1>3, Roles, FS_Subset

-----------------------------------------------------------------------------
(* From a Tree to the wizard.                                              *)

ManagersOf(d) == Managers \cap Members(d)
BranchOf(d, m) == [agent |-> m, specialists |-> Wizard!InOrder(Children(d, {m}))]
\* Agents but for Specialists without a Manager.
HeldIn(d) == Members(d) \ {a \in Specialists \cap Members(d) : d.parent[a] = Nobody}

LEMMA BranchIs ==
  ASSUME NEW d \in LooseDocuments, NEW m \in Managers
  PROVE  BranchOf(d, m) \in Branch /\ ToSet(BranchOf(d, m).specialists) = Children(d, {m})
<1>1. Children(d, {m}) \subseteq Specialists /\ IsFiniteSet(Children(d, {m}))
  BY ChildrenOfManager
<1>2. Wizard!InOrder(Children(d, {m})) \in Seq(Specialists)
  <2>1. Wizard!InOrder(Children(d, {m})) \in Seq(Children(d, {m}))
    BY <1>1, InOrderLists
  <2> QED  BY <1>1, <2>1, SeqMonotonic
<1>3. ToSet(Wizard!InOrder(Children(d, {m}))) = Children(d, {m})
  BY <1>1, InOrderHolds
<1> QED  BY <1>2, <1>3 DEF BranchOf, Branch

LEMMA ManagersListed ==
  ASSUME NEW d \in LooseDocuments
  PROVE  \E list \in Branches :
           /\ list = [i \in 1..Cardinality(ManagersOf(d)) |-> BranchOf(d, Wizard!InOrder(ManagersOf(d))[i])]
           /\ \A i \in DOMAIN list : list[i].agent \in ManagersOf(d)
                                     /\ ToSet(list[i].specialists) = Children(d, {list[i].agent})
           /\ \A i, j \in DOMAIN list : list[i].agent = list[j].agent => i = j
           /\ \A m \in ManagersOf(d) : \E i \in DOMAIN list : list[i].agent = m
<1>1. IsFiniteSet(ManagersOf(d)) /\ ManagersOf(d) \subseteq Managers
  <2>1. ManagersOf(d) \in SUBSET Agents
    BY Roles DEF ManagersOf
  <2> QED  BY <2>1, Roles, FS_Subset DEF ManagersOf
<1>2. PICK n \in Nat : n = Cardinality(ManagersOf(d))
  BY <1>1, InOrderLists
<1>3. PICK f : f = Wizard!InOrder(ManagersOf(d))
  OBVIOUS
<1>4. /\ \A i \in 1..n : f[i] \in ManagersOf(d)
      /\ \A i, j \in 1..n : f[i] = f[j] => i = j
      /\ \A x \in ManagersOf(d) : \E i \in 1..n : f[i] = x
  BY <1>1, <1>2, <1>3, InOrderLists
<1>5. PICK list : list = [i \in 1..n |-> BranchOf(d, f[i])]
  OBVIOUS
<1>6. \A i \in 1..n : /\ list[i] = BranchOf(d, f[i]) /\ f[i] \in Managers
                      /\ list[i].agent = f[i]
  BY <1>1, <1>4, <1>5 DEF BranchOf
<1>7. \A i \in 1..n : list[i] \in Branch /\ ToSet(list[i].specialists) = Children(d, {list[i].agent})
  BY <1>6, BranchIs
<1>8. list \in Branches /\ DOMAIN list = 1..n
  <2>1. list \in [1..n -> Branch]
    BY <1>5, <1>7
  <2> QED  BY <2>1 DEF Branches
<1>9. list = [i \in 1..Cardinality(ManagersOf(d)) |-> BranchOf(d, Wizard!InOrder(ManagersOf(d))[i])]
  BY <1>2, <1>3, <1>5
<1>10. \A i \in DOMAIN list : list[i].agent \in ManagersOf(d)
                                /\ ToSet(list[i].specialists) = Children(d, {list[i].agent})
  BY <1>4, <1>6, <1>7, <1>8
<1>11. \A i, j \in DOMAIN list : list[i].agent = list[j].agent => i = j
  <2>1. \A i \in DOMAIN list : i \in 1..n /\ list[i].agent = f[i]
    BY <1>6, <1>8
  <2> QED  BY <1>4, <2>1
<1>12. \A m \in ManagersOf(d) : \E i \in DOMAIN list : list[i].agent = m
  <2>1. \A i \in 1..n : i \in DOMAIN list /\ list[i].agent = f[i]
    BY <1>6, <1>8
  <2> QED  BY <1>4, <2>1
<1> QED  BY <1>8, <1>9, <1>10, <1>11, <1>12

LEMMA FromTreeIs ==
  ASSUME NEW d \in LooseDocuments
  PROVE  \E w \in WizardStates :
           /\ w = Wizard!wizardFromTree(d) /\ w.named = d.named /\ w.peers = d.peers
           /\ \A i \in DOMAIN w.managers :
                w.managers[i].agent \in ManagersOf(d)
                /\ ToSet(w.managers[i].specialists) = Children(d, {w.managers[i].agent})
           /\ ManagersDiffer(w)
           /\ \A m \in ManagersOf(d) : \E i \in DOMAIN w.managers : w.managers[i].agent = m
           /\ Roots \cap Members(d) # {} => w.root \in Roots \cap Members(d)
           /\ w.tools = {t \in d.tools : t[1] \in HeldIn(d)}
<1>1. PICK list \in Branches :
        /\ list = [i \in 1..Cardinality(ManagersOf(d)) |-> BranchOf(d, Wizard!InOrder(ManagersOf(d))[i])]
        /\ \A i \in DOMAIN list : list[i].agent \in ManagersOf(d)
                                  /\ ToSet(list[i].specialists) = Children(d, {list[i].agent})
        /\ \A i, j \in DOMAIN list : list[i].agent = list[j].agent => i = j
        /\ \A m \in ManagersOf(d) : \E i \in DOMAIN list : list[i].agent = m
  BY ManagersListed
<1>2. PICK kept : kept = Roots \cap Members(d)
  OBVIOUS
<1>3. PICK root \in Roots :
        root = (IF kept # {} THEN Min(kept) ELSE Min(Roots)) /\ (kept # {} => root \in kept)
  <2>1. CASE kept # {}
    <3>1. kept \in SUBSET Nat
      BY <1>2, Roles
    <3>2. Min(kept) \in kept
      BY <2>1, <3>1, LeastOf
    <3> QED  BY <1>2, <2>1, <3>2
  <2>2. CASE kept = {}
    BY <2>2, LeastIsMember
  <2> QED  BY <2>1, <2>2
<1>4. PICK bound : bound = {t \in d.tools : t[1] \in HeldIn(d)}
  OBVIOUS
<1>5. PICK w : w = [named |-> d.named, root |-> root, managers |-> list, peers |-> d.peers, tools |-> bound]
  OBVIOUS
<1>6. w = Wizard!wizardFromTree(d)
  <2>1. list = [i \in 1..Wizard!Cardinality(Managers \cap Wizard!Members(d)) |->
                 LET m == Wizard!InOrder(Managers \cap Wizard!Members(d))[i] IN
                 [agent |-> m, specialists |-> Wizard!InOrder(Wizard!Children(d, {m}))]]
    BY <1>1, WizardWords DEF ManagersOf, BranchOf
  <2>2. root = IF Roots \cap Wizard!Members(d) # {} THEN Wizard!Min(Roots \cap Wizard!Members(d))
                                                    ELSE Wizard!Min(Roots)
    BY <1>2, <1>3, WizardWords
  <2>3. bound = {t \in d.tools :
                   t[1] \in Wizard!Members(d) \ {a \in Specialists \cap Wizard!Members(d) : d.parent[a] = Nobody}}
    BY <1>4, WizardWords DEF HeldIn
  <2> QED  BY <1>5, <2>1, <2>2, <2>3 DEF Wizard!wizardFromTree
<1>7. w \in WizardStates
  <2>1. d.named \in BOOLEAN /\ d.peers \in SUBSET (Managers \X Managers) /\ d.tools \in SUBSET (Agents \X Tools)
    BY LooseHas
  <2>2. bound \in SUBSET (Agents \X Tools)
    BY <1>4, <2>1
  <2> QED  BY <1>5, <2>1, <2>2 DEF WizardStates
<1>8. ManagersDiffer(w)
  BY <1>1, <1>5 DEF ManagersDiffer
<1>9. w.named = d.named /\ w.peers = d.peers /\ w.managers = list /\ w.root = root /\ w.tools = bound
  BY <1>5
<1>10. \A i \in DOMAIN w.managers :
         w.managers[i].agent \in ManagersOf(d)
         /\ ToSet(w.managers[i].specialists) = Children(d, {w.managers[i].agent})
  BY <1>1, <1>9
<1>11. \A m \in ManagersOf(d) : \E i \in DOMAIN w.managers : w.managers[i].agent = m
  BY <1>1, <1>9
<1>12. Roots \cap Members(d) # {} => w.root \in Roots \cap Members(d)
  BY <1>2, <1>3, <1>9
<1>13. w.tools = {t \in d.tools : t[1] \in HeldIn(d)}
  BY <1>4, <1>9
<1> QED  BY <1>6, <1>7, <1>8, <1>9, <1>10, <1>11, <1>12, <1>13

LEMMA EmptyWizardIs ==
  \E w \in WizardStates : w = Wizard!emptyWizard /\ Coherent(w)
<1>1. PICK w : w = Wizard!emptyWizard
  OBVIOUS
<1>2. Wizard!Min(Roots) \in Roots
  BY WizardWords, LeastIsMember
<1>3. <<>> \in Branches /\ DOMAIN <<>> = {}
  BY EmptySeq DEF Branches
<1>4. w \in WizardStates
  BY <1>1, <1>2, <1>3 DEF Wizard!emptyWizard, WizardStates
<1>5. Coherent(w)
  BY <1>1, <1>3 DEF Wizard!emptyWizard, Coherent, PeersFit, ManagersDiffer
<1> QED  BY <1>1, <1>4, <1>5

-----------------------------------------------------------------------------
(* From the wizard to a Tree.                                              *)

LEMMA InWizardIs ==
  ASSUME NEW w \in WizardStates
  PROVE  /\ Wizard!InWizard(w) \in SUBSET Agents
         /\ \A a : a \in Wizard!InWizard(w) <=>
              \/ a = w.root
              \/ \E i \in DOMAIN w.managers :
                   a = w.managers[i].agent \/ a \in ToSet(w.managers[i].specialists)
         /\ \A i \in DOMAIN w.managers : /\ w.managers[i].agent \in Managers
                                         /\ w.managers[i].specialists \in Seq(Specialists)
                                         /\ ToSet(w.managers[i].specialists) \subseteq Specialists
         /\ w.root \in Roots
<1>1. w.root \in Roots /\ w.managers \in Seq(Branch)
  BY DEF WizardStates, Branches
<1>2. \A i \in DOMAIN w.managers : w.managers[i] \in Branch
  BY <1>1, ElementOfSeq, LenProperties
<1>3. ASSUME NEW i \in DOMAIN w.managers
      PROVE  /\ w.managers[i].agent \in Managers
             /\ w.managers[i].specialists \in Seq(Specialists)
             /\ ToSet(w.managers[i].specialists) \subseteq Specialists
  <2>1. w.managers[i].agent \in Managers /\ w.managers[i].specialists \in Seq(Specialists)
    BY <1>2 DEF Branch
  <2>2. PICK s \in Seq(Specialists) : s = w.managers[i].specialists
    BY <2>1
  <2>3. \A k \in DOMAIN s : s[k] \in Specialists
    BY ElementOfSeq, LenProperties
  <2> QED  BY <2>1, <2>2, <2>3 DEF ToSet
<1>4. ASSUME NEW a
      PROVE  a \in Wizard!InWizard(w) <=>
              \/ a = w.root
              \/ \E i \in DOMAIN w.managers :
                   a = w.managers[i].agent \/ a \in ToSet(w.managers[i].specialists)
  BY WizardWords DEF Wizard!InWizard, ToSet
<1> QED  BY <1>1, <1>3, <1>4, Roles

ParentIn(w, a) ==
  CASE a = w.root -> Nobody
    [] a \in Managers -> w.root
    [] OTHER -> (CHOOSE m \in ToSet(w.managers) : a \in ToSet(m.specialists)).agent

LEMMA ParentInIs ==
  ASSUME NEW w \in WizardStates, NEW a \in Wizard!InWizard(w)
  PROVE  /\ a = w.root => ParentIn(w, a) = Nobody
         /\ a \in Managers => ParentIn(w, a) = w.root
         /\ a # w.root /\ a \notin Managers =>
              /\ a \in Specialists
              /\ \E i \in DOMAIN w.managers :
                   ParentIn(w, a) = w.managers[i].agent /\ a \in ToSet(w.managers[i].specialists)
<1>1. w.root \notin Managers
  BY InWizardIs, Roles
<1>2. ASSUME a # w.root, a \notin Managers
      PROVE  /\ a \in Specialists
             /\ \E i \in DOMAIN w.managers :
                  ParentIn(w, a) = w.managers[i].agent /\ a \in ToSet(w.managers[i].specialists)
  <2>1. PICK i \in DOMAIN w.managers : a \in ToSet(w.managers[i].specialists)
    BY <1>2, InWizardIs
  <2>2. w.managers[i] \in ToSet(w.managers)
    BY DEF ToSet
  <2>3. PICK m \in ToSet(w.managers) :
          /\ m = (CHOOSE x \in ToSet(w.managers) : a \in ToSet(x.specialists))
          /\ a \in ToSet(m.specialists)
    BY <2>1, <2>2
  <2>4. ParentIn(w, a) = m.agent
    BY <1>2, <2>3 DEF ParentIn
  <2>5. PICK j \in DOMAIN w.managers : m = w.managers[j]
    BY <2>3 DEF ToSet
  <2> QED  BY <2>1, <2>3, <2>4, <2>5, InWizardIs
<1> QED  BY <1>1, <1>2 DEF ParentIn

LEMMA PayloadIs ==
  ASSUME NEW w \in WizardStates
  PROVE  \E d \in LooseDocuments :
           /\ d = Wizard!wizardPayload(w) /\ Members(d) = Wizard!InWizard(w)
           /\ d.named = w.named /\ d.parent = [a \in Wizard!InWizard(w) |-> ParentIn(w, a)]
           /\ d.peers = {p \in w.peers : p[1] \in Wizard!InWizard(w)}
           /\ d.tools = {t \in w.tools : t[1] \in Wizard!InWizard(w)}
           /\ PeersFit(w) => d \in SoundDocuments
<1>1. PICK A \in SUBSET Agents : A = Wizard!InWizard(w)
  BY InWizardIs
<1>2. PICK parent : parent = [a \in A |-> ParentIn(w, a)]
  OBVIOUS
<1>3. ASSUME NEW a \in A
      PROVE  parent[a] \in A \union {Nobody} /\ (parent[a] # Nobody => MayLead(parent[a], a))
  <2>1. a \in Wizard!InWizard(w) /\ parent[a] = ParentIn(w, a)
    BY <1>1, <1>2
  <2>2. CASE a = w.root
    BY <2>1, <2>2, ParentInIs
  <2>3. CASE a \in Managers
    BY <1>1, <2>1, <2>3, ParentInIs, InWizardIs DEF MayLead
  <2>4. CASE a # w.root /\ a \notin Managers
    <3>1. PICK i \in DOMAIN w.managers : ParentIn(w, a) = w.managers[i].agent
      BY <2>1, <2>4, ParentInIs
    <3>2. a \in Specialists
      BY <2>1, <2>4, ParentInIs
    <3> QED  BY <1>1, <2>1, <3>1, <3>2, InWizardIs DEF MayLead
  <2> QED  BY <2>2, <2>3, <2>4
<1>4. parent \in Parents(A)
  BY <1>2, <1>3 DEF Parents
<1>5. \A x, y \in Roots \cap A : x = y
  <2>1. \A x \in Roots \cap A : x = w.root
    BY <1>1, InWizardIs, Roles
  <2> QED  BY <2>1
<1>6. w.named \in BOOLEAN /\ w.peers \subseteq Managers \X Managers /\ w.tools \subseteq Agents \X Tools
  BY DEF WizardStates
<1>7. PICK peers \in SUBSET (Managers \X Managers) : peers = {p \in w.peers : p[1] \in A}
  BY <1>6
<1>8. PICK bound \in SUBSET (Agents \X Tools) : bound = {t \in w.tools : t[1] \in A}
  BY <1>6
<1>9. PICK d : d = [named |-> w.named, parent |-> parent, peers |-> peers, tools |-> bound]
  OBVIOUS
<1>10. d = [named |-> d.named, parent |-> parent, peers |-> peers, tools |-> bound] /\ d.named \in BOOLEAN
  BY <1>6, <1>9
<1>11. \A t \in bound : t[1] \in A
  BY <1>8
<1>12. d \in LooseDocuments /\ Members(d) = A
  BY <1>4, <1>5, <1>10, <1>11, MakesLoose
<1>13. d = Wizard!wizardPayload(w)
  <2>1. parent = [a \in Wizard!InWizard(w) |->
                   CASE a = w.root -> Nobody
                     [] a \in Managers -> w.root
                     [] OTHER -> (CHOOSE m \in Wizard!ToSet(w.managers) :
                                    a \in Wizard!ToSet(m.specialists)).agent]
    BY <1>1, <1>2 DEF Wizard!ToSet, ToSet, ParentIn
  <2> QED  BY <1>1, <1>7, <1>8, <1>9, <2>1 DEF Wizard!wizardPayload
<1>14. ASSUME PeersFit(w)
       PROVE  d \in SoundDocuments
  <2>1. d.peers = peers
    BY <1>9
  <2>2. \A p \in peers : p[1] \in A /\ p[2] \in A /\ p[1] # p[2]
    BY <1>1, <1>7, <1>14, InWizardIs DEF PeersFit
  <2> QED  BY <1>12, <2>1, <2>2, LooseIsSound
<1> QED  BY <1>1, <1>2, <1>7, <1>8, <1>9, <1>12, <1>13, <1>14

-----------------------------------------------------------------------------
(* There and back.                                                         *)

LEMMA ValidHas ==
  ASSUME NEW d \in LooseDocuments, Valid(d)
  PROVE  /\ d \in SoundDocuments
         /\ \A a \in Members(d) \ Roots : d.parent[a] # Nobody
         /\ Roots \cap Members(d) # {}
<1>1. \A p \in d.peers : p[1] \in Members(d) /\ p[2] \in Members(d) /\ p[1] # p[2]
  BY DEF Valid, PeersExist
<1>2. IsFiniteSet(Roots \cap Members(d)) /\ Cardinality(Roots \cap Members(d)) = 1
  <2>1. Roots \cap Members(d) \in SUBSET Agents
    BY Roles
  <2> QED  BY <2>1, Roles, FS_Subset DEF Valid
<1>3. Roots \cap Members(d) # {}
  BY <1>2, FS_EmptySet
<1> QED  BY <1>1, <1>3, LooseIsSound DEF Valid

LEMMA KeepsValid ==
  ASSUME NEW d \in LooseDocuments, Valid(d)
  PROVE  Wizard!wizardPayload(Wizard!wizardFromTree(d)) = d
<1>1. PICK w \in WizardStates :
        /\ w = Wizard!wizardFromTree(d) /\ w.named = d.named /\ w.peers = d.peers
        /\ \A i \in DOMAIN w.managers :
             w.managers[i].agent \in ManagersOf(d)
             /\ ToSet(w.managers[i].specialists) = Children(d, {w.managers[i].agent})
        /\ ManagersDiffer(w)
        /\ \A m \in ManagersOf(d) : \E i \in DOMAIN w.managers : w.managers[i].agent = m
        /\ Roots \cap Members(d) # {} => w.root \in Roots \cap Members(d)
        /\ w.tools = {t \in d.tools : t[1] \in HeldIn(d)}
  BY FromTreeIs
<1>2. PICK q \in LooseDocuments :
        /\ q = Wizard!wizardPayload(w) /\ Members(q) = Wizard!InWizard(w)
        /\ q.named = w.named /\ q.parent = [a \in Wizard!InWizard(w) |-> ParentIn(w, a)]
        /\ q.peers = {p \in w.peers : p[1] \in Wizard!InWizard(w)}
        /\ q.tools = {t \in w.tools : t[1] \in Wizard!InWizard(w)}
        /\ PeersFit(w) => q \in SoundDocuments
  BY PayloadIs
<1>3. /\ Members(d) \in SUBSET Agents
      /\ d.parent \in [Members(d) -> Members(d) \union {Nobody}]
      /\ \A a \in Members(d) : d.parent[a] # Nobody => MayLead(d.parent[a], a)
      /\ \A x, y \in Roots \cap Members(d) : x = y
      /\ \A t \in d.tools : t[1] \in Members(d)
  BY LooseHas DEF Parents
<1>4. /\ \A a \in Members(d) \ Roots : d.parent[a] # Nobody
      /\ w.root \in Roots /\ w.root \in Members(d)
      /\ \A p \in d.peers : p[1] \in Members(d)
  BY <1>1, ValidHas, SoundHas
<1>5. ASSUME NEW a \in Members(d), a \in Specialists
      PROVE  /\ d.parent[a] \in ManagersOf(d) /\ a \in Children(d, {d.parent[a]})
  <2>1. a \notin Roots
    BY <1>5, Roles
  <2>2. d.parent[a] # Nobody /\ d.parent[a] \in Members(d) /\ MayLead(d.parent[a], a)
    BY <1>3, <1>4, <2>1
  <2>3. d.parent[a] \in Managers
    BY <1>5, <2>2, Roles DEF MayLead
  <2> QED  BY <2>2, <2>3 DEF ManagersOf, Children
<1>6. Wizard!InWizard(w) = Members(d)
  <2>1. ASSUME NEW a \in Members(d)
        PROVE  a \in Wizard!InWizard(w)
    <3>1. CASE a \in Roots
      BY <1>3, <1>4, <3>1, InWizardIs
    <3>2. CASE a \in Managers
      <4>1. PICK i \in DOMAIN w.managers : w.managers[i].agent = a
        BY <1>1, <3>2 DEF ManagersOf
      <4> QED  BY <4>1, InWizardIs
    <3>3. CASE a \in Specialists
      <4>1. d.parent[a] \in ManagersOf(d) /\ a \in Children(d, {d.parent[a]})
        BY <1>5, <3>3
      <4>2. PICK i \in DOMAIN w.managers : w.managers[i].agent = d.parent[a]
        BY <1>1, <4>1
      <4>3. a \in ToSet(w.managers[i].specialists)
        BY <1>1, <4>1, <4>2
      <4> QED  BY <4>3, InWizardIs
    <3> QED  BY <1>3, <3>1, <3>2, <3>3, Roles
  <2>2. ASSUME NEW a \in Wizard!InWizard(w)
        PROVE  a \in Members(d)
    <3>1. CASE a = w.root
      BY <1>4, <3>1
    <3>2. ASSUME NEW i \in DOMAIN w.managers,
                 a = w.managers[i].agent \/ a \in ToSet(w.managers[i].specialists)
          PROVE  a \in Members(d)
      BY <1>1, <3>2 DEF ManagersOf, Children
    <3> QED  BY <2>2, <3>1, <3>2, InWizardIs
  <2> QED  BY <2>1, <2>2
<1>7. ASSUME NEW a \in Members(d)
      PROVE  ParentIn(w, a) = d.parent[a]
  <2>1. a \in Wizard!InWizard(w)
    BY <1>6
  <2>2. CASE a \in Roots
    <3>1. a = w.root
      BY <1>3, <1>4, <2>2
    <3>2. d.parent[a] = Nobody
      BY <1>3, <2>2, Roles DEF MayLead
    <3> QED  BY <2>1, <3>1, <3>2, ParentInIs
  <2>3. CASE a \in Managers
    <3>1. a \notin Roots
      BY <2>3, Roles
    <3>2. d.parent[a] # Nobody /\ d.parent[a] \in Members(d) /\ MayLead(d.parent[a], a)
      BY <1>3, <1>4, <3>1
    <3>3. d.parent[a] \in Roots
      BY <2>3, <3>2, Roles DEF MayLead
    <3>4. d.parent[a] = w.root
      BY <1>3, <1>4, <3>2, <3>3
    <3> QED  BY <2>1, <2>3, <3>4, ParentInIs
  <2>4. CASE a \notin Roots /\ a \notin Managers
    <3>1. PICK i \in DOMAIN w.managers :
            ParentIn(w, a) = w.managers[i].agent /\ a \in ToSet(w.managers[i].specialists)
      BY <1>4, <2>1, <2>4, ParentInIs
    <3>2. a \in Children(d, {w.managers[i].agent})
      BY <1>1, <3>1
    <3> QED  BY <3>1, <3>2 DEF Children
  <2> QED  BY <2>2, <2>3, <2>4
<1>8. q.parent = d.parent
  BY <1>2, <1>3, <1>6, <1>7
<1>9. q.peers = d.peers
  BY <1>1, <1>2, <1>4, <1>6
<1>10. q.tools = d.tools
  <2>1. HeldIn(d) = Members(d)
    <3>1. \A a \in Specialists \cap Members(d) : d.parent[a] # Nobody
      BY <1>4, Roles
    <3> QED  BY <3>1 DEF HeldIn
  <2> QED  BY <1>1, <1>2, <1>3, <1>6, <2>1
<1>11. q.named = d.named
  BY <1>1, <1>2
<1>12. /\ q = [named |-> q.named, parent |-> q.parent, peers |-> q.peers, tools |-> q.tools]
       /\ d = [named |-> d.named, parent |-> d.parent, peers |-> d.peers, tools |-> d.tools]
  BY LooseHas
<1>13. q = d
  BY <1>8, <1>9, <1>10, <1>11, <1>12
<1> QED  BY <1>1, <1>2, <1>13

-----------------------------------------------------------------------------
(* Editing in the wizard.                                                  *)

\* The lists are replaced, with peers that fit them.
Relisted(w, list, peers) == [w EXCEPT !.managers = list, !.peers = peers]

PeerSets == SUBSET (Managers \X Managers)

LEMMA RelistedIs ==
  ASSUME NEW w \in WizardStates, NEW list \in Branches, NEW peers \in PeerSets
  PROVE  \E q \in WizardStates :
           q = Relisted(w, list, peers) /\ q.managers = list /\ q.peers = peers
<1>1. PICK q : q = Relisted(w, list, peers)
  OBVIOUS
<1>2. q \in WizardStates
  BY <1>1 DEF Relisted, WizardStates, PeerSets
<1> QED  BY <1>1, <1>2 DEF Relisted, WizardStates

LEMMA FormHas ==
  ASSUME NEW past, NEW w \in WizardForms(past)
  PROVE  /\ w \in WizardStates /\ (~past.moved => Coherent(w))
         /\ w.managers \in Branches /\ w.managers \in Seq(Branch)
         /\ DOMAIN w.managers = 1..Len(w.managers) /\ Len(w.managers) \in Nat
         /\ w.peers \in SUBSET (Managers \X Managers)
         /\ \A i \in DOMAIN w.managers : w.managers[i] \in Branch
<1>1. w \in WizardStates /\ (~past.moved => Coherent(w))
  BY DEF WizardForms
<1>2. w.managers \in Seq(Branch) /\ w.peers \in SUBSET (Managers \X Managers)
  BY <1>1 DEF WizardStates, Branches
<1>3. DOMAIN w.managers = 1..Len(w.managers) /\ Len(w.managers) \in Nat
  BY <1>2, LenProperties
<1>4. \A i \in DOMAIN w.managers : w.managers[i] \in Branch
  BY <1>2, <1>3, ElementOfSeq
<1> QED  BY <1>1, <1>2, <1>3, <1>4 DEF Branches

\* The name and the tools say nothing of the lists.
LEMMA NamedForm ==
  ASSUME NEW past, NEW w \in WizardForms(past)
  PROVE  [w EXCEPT !.named = ~@] \in WizardForms(past)
<1>1. w \in WizardStates /\ (~past.moved => Coherent(w))
  BY FormHas
<1>2. PICK q : q = [w EXCEPT !.named = ~@]
  OBVIOUS
<1>3. q \in WizardStates /\ q.managers = w.managers /\ q.peers = w.peers
  BY <1>1, <1>2 DEF WizardStates
<1>4. Coherent(w) => Coherent(q)
  BY <1>3 DEF Coherent, PeersFit, ManagersDiffer
<1> QED  BY <1>1, <1>2, <1>3, <1>4 DEF WizardForms

LEMMA ToolsForm ==
  ASSUME NEW past, NEW w \in WizardForms(past), NEW t \in Agents \X Tools
  PROVE  [w EXCEPT !.tools = IF t \in @ THEN @ \ {t} ELSE @ \union {t}] \in WizardForms(past)
<1>1. w \in WizardStates /\ (~past.moved => Coherent(w))
  BY FormHas
<1>2. PICK q : q = [w EXCEPT !.tools = IF t \in @ THEN @ \ {t} ELSE @ \union {t}]
  OBVIOUS
<1>3. q \in WizardStates /\ q.managers = w.managers /\ q.peers = w.peers
  BY <1>1, <1>2 DEF WizardStates
<1>4. Coherent(w) => Coherent(q)
  BY <1>3 DEF Coherent, PeersFit, ManagersDiffer
<1> QED  BY <1>1, <1>2, <1>3, <1>4 DEF WizardForms

LEMMA DeletedManagerForm ==
  ASSUME NEW past, NEW w \in WizardForms(past), NEW i \in DOMAIN w.managers
  PROVE  [w EXCEPT !.managers = Wizard!RemoveAt(@, i),
                   !.peers = {p \in @ : w.managers[i].agent \notin {p[1], p[2]}}] \in WizardForms(past)
<1> DEFINE s == w.managers
<1>1. /\ w \in WizardStates /\ (~past.moved => Coherent(w)) /\ s \in Seq(Branch)
      /\ DOMAIN s = 1..Len(s) /\ Len(s) \in Nat /\ w.peers \in SUBSET (Managers \X Managers)
  BY FormHas
<1>2. PICK list : list = RemoveAt(s, i)
  OBVIOUS
<1>3. /\ list \in Seq(Branch) /\ Len(list) = Len(s) - 1
      /\ \A k \in 1..Len(s) - 1 : list[k] = IF k < i THEN s[k] ELSE s[k + 1]
  <2>1. i \in 1..Len(s)
    BY <1>1
  <2> QED  BY <1>1, <1>2, <2>1, RemoveAtIs
<1>4. DOMAIN list = 1..Len(s) - 1 /\ list \in Branches
  BY <1>3, LenProperties DEF Branches
<1>5. PICK peers \in SUBSET (Managers \X Managers) :
        peers = {p \in w.peers : w.managers[i].agent \notin {p[1], p[2]}}
  BY <1>1
<1>6. PICK q \in WizardStates : q = Relisted(w, list, peers) /\ q.managers = list /\ q.peers = peers
  <2>1. peers \in PeerSets
    BY DEF PeerSets
  <2> QED  BY <1>1, <1>4, <2>1, RelistedIs
<1>7. q = [w EXCEPT !.managers = Wizard!RemoveAt(@, i),
                    !.peers = {p \in @ : w.managers[i].agent \notin {p[1], p[2]}}]
  BY <1>2, <1>5, <1>6, WizardWords DEF Relisted
<1>8. ASSUME Coherent(w)
      PROVE  Coherent(q)
  <2>1. ASSUME NEW p \in q.peers
        PROVE  p[1] # p[2] /\ \E k \in DOMAIN list : list[k].agent = p[2]
    <3>1. p \in w.peers /\ s[i].agent # p[2] /\ p[1] # p[2]
      BY <1>5, <1>6, <1>8, <2>1 DEF Coherent, PeersFit
    <3>2. PICK j \in DOMAIN s : s[j].agent = p[2]
      BY <1>8, <3>1 DEF Coherent, PeersFit
    <3>3. j # i
      BY <3>1, <3>2
    <3>4. CASE j < i
      <4>1. j \in 1..Len(s) - 1
        BY <1>1, <3>4
      <4>2. list[j] = s[j]
        BY <1>3, <3>4, <4>1
      <4> QED  BY <1>4, <3>1, <3>2, <4>1, <4>2
    <3>5. CASE ~(j < i)
      <4>1. j - 1 \in 1..Len(s) - 1 /\ ~(j - 1 < i) /\ (j - 1) + 1 = j
        BY <1>1, <3>3, <3>5
      <4>2. list[j - 1] = s[j]
        BY <1>3, <4>1
      <4> QED  BY <1>4, <3>1, <3>2, <4>1, <4>2
    <3> QED  BY <3>4, <3>5
  <2>2. ASSUME NEW j \in DOMAIN list, NEW k \in DOMAIN list, list[j].agent = list[k].agent
        PROVE  j = k
    <3>1. PICK a \in DOMAIN s : list[j] = s[a] /\ a = IF j < i THEN j ELSE j + 1
      BY <1>1, <1>3, <1>4
    <3>2. PICK b \in DOMAIN s : list[k] = s[b] /\ b = IF k < i THEN k ELSE k + 1
      BY <1>1, <1>3, <1>4
    <3>3. a = b
      BY <1>8, <2>2, <3>1, <3>2 DEF Coherent, ManagersDiffer
    <3>4. j \in Nat /\ k \in Nat /\ i \in Nat
      BY <1>1, <1>4
    <3> QED  BY <3>1, <3>2, <3>3, <3>4
  <2> QED  BY <1>6, <2>1, <2>2 DEF Coherent, PeersFit, ManagersDiffer
<1> QED  BY <1>1, <1>6, <1>7, <1>8 DEF WizardForms

LEMMA ChosenPeerForm ==
  ASSUME NEW past, NEW w \in WizardForms(past), NEW i \in DOMAIN w.managers,
         NEW j \in DOMAIN w.managers, i # j, NEW p, p = <<w.managers[i].agent, w.managers[j].agent>>
  PROVE  [w EXCEPT !.peers = IF p \in @ THEN @ \ {p} ELSE @ \union {p}] \in WizardForms(past)
<1>1. /\ w \in WizardStates /\ (~past.moved => Coherent(w)) /\ w.peers \in SUBSET (Managers \X Managers)
      /\ \A k \in DOMAIN w.managers : w.managers[k] \in Branch
  BY FormHas
<1>2. p \in Managers \X Managers
  BY <1>1 DEF Branch
<1>3. PICK peers \in SUBSET (Managers \X Managers) :
        peers = IF p \in w.peers THEN w.peers \ {p} ELSE w.peers \union {p}
  BY <1>1, <1>2
<1>4. PICK q : q = [w EXCEPT !.peers = IF p \in @ THEN @ \ {p} ELSE @ \union {p}]
  OBVIOUS
<1>5. q \in WizardStates /\ q.managers = w.managers /\ q.peers = peers
  BY <1>1, <1>3, <1>4 DEF WizardStates
<1>6. ASSUME Coherent(w)
      PROVE  Coherent(q)
  <2>1. p[1] # p[2] /\ w.managers[j].agent = p[2]
    BY <1>6 DEF Coherent, ManagersDiffer
  <2>2. \A o \in q.peers : o \in w.peers \/ o = p
    BY <1>3, <1>5
  <2>3. \A o \in q.peers : o[1] # o[2] /\ \E k \in DOMAIN w.managers : w.managers[k].agent = o[2]
    BY <1>6, <2>1, <2>2 DEF Coherent, PeersFit
  <2> QED  BY <1>5, <1>6, <2>3 DEF Coherent, PeersFit, ManagersDiffer
<1> QED  BY <1>1, <1>4, <1>5, <1>6 DEF WizardForms

\* The Specialists of a Manager are replaced.
Staffed(w, i, staff) == [w EXCEPT !.managers[i].specialists = staff]

LEMMA StaffedForm ==
  ASSUME NEW past, NEW w \in WizardForms(past), NEW i \in DOMAIN w.managers, NEW staff \in Seq(Specialists)
  PROVE  Staffed(w, i, staff) \in WizardForms(past)
<1> DEFINE s == w.managers
<1>1. /\ w \in WizardStates /\ (~past.moved => Coherent(w)) /\ s \in Seq(Branch)
      /\ DOMAIN s = 1..Len(s) /\ Len(s) \in Nat /\ \A k \in DOMAIN s : s[k] \in Branch
  BY FormHas
<1>2. PICK row \in Branch : row = [s[i] EXCEPT !.specialists = staff] /\ row.agent = s[i].agent
  <2>1. PICK old \in Branch : old = s[i]
    BY <1>1
  <2>2. [old EXCEPT !.specialists = staff] \in Branch /\ [old EXCEPT !.specialists = staff].agent = old.agent
    BY DEF Branch
  <2> QED  BY <2>1, <2>2
<1>3. PICK list : list = [s EXCEPT ![i] = row]
  OBVIOUS
<1>4. list \in Branches /\ DOMAIN list = DOMAIN s /\ \A k \in DOMAIN s : list[k].agent = s[k].agent
  <2>1. i \in 1..Len(s)
    BY <1>1
  <2>2. /\ list \in Seq(Branch) /\ Len(list) = Len(s)
        /\ \A k \in 1..Len(s) : list[k] = IF k = i THEN row ELSE s[k]
    BY <1>1, <1>3, <2>1, ExceptSeq
  <2>3. DOMAIN list = 1..Len(s)
    BY <2>2, LenProperties
  <2> QED  BY <1>1, <1>2, <2>2, <2>3 DEF Branches
<1>5. PICK q : q = [w EXCEPT !.managers = list]
  OBVIOUS
<1>6. q \in WizardStates /\ q.managers = list /\ q.peers = w.peers
  BY <1>1, <1>4, <1>5 DEF WizardStates
<1>7. q = Staffed(w, i, staff)
  BY <1>2, <1>3, <1>5 DEF Staffed
<1>8. Coherent(w) => Coherent(q)
  <2>1. PeersFit(w) => PeersFit(q)
    BY <1>4, <1>6 DEF PeersFit
  <2>2. ManagersDiffer(w) => ManagersDiffer(q)
    BY <1>4, <1>6 DEF ManagersDiffer
  <2> QED  BY <2>1, <2>2 DEF Coherent
<1> QED  BY <1>1, <1>6, <1>7, <1>8 DEF WizardForms

-----------------------------------------------------------------------------
(* Steps of the wizard's page alone.                                       *)

Pasts == [lost : BOOLEAN, moved : BOOLEAN]

LEMMA WzBounds ==
  /\ MaxDrafts \in Nat /\ Wizard!DraftIds \subseteq DraftRoutes /\ 0 \in DraftRoutes
  /\ 0 \notin Wizard!DraftIds /\ 1 \in Wizard!DraftIds
  /\ \A t \in DraftRoutes : t # 0 => t \in Wizard!DraftIds
  /\ NoDraft \notin LooseDocuments /\ NoDraft \notin SoundDocuments
BY StudioAssumption DEF Wizard!DraftIds, DraftRoutes, LooseDocuments, SoundDocuments

LEMMA WzFacts ==
  ASSUME WizardInv
  PROVE  /\ wzPast \in Pasts /\ wzPage \in WizardPages(wzPast)
         /\ wzPage.state \in WizardForms(wzPast) /\ Wizard!W = wzPage.state
         /\ wzPage.editor \in Editors /\ EditorHolds(wzPage.state, wzPage.editor, wzPast)
         /\ wzPage.read \in DraftRows(wzPast) /\ DraftHolds(wzPage.read)
         /\ wzPage.route \in DraftRoutes /\ wzPage.tree \in DraftRoutes
         /\ AddressHolds(wzPage, wzTrees) /\ OneIsBusy(wzPage, wzSaves)
<1>1. /\ wzPast \in Pasts /\ wzPage \in WizardPages(wzPast) /\ DraftHolds(wzPage.read)
      /\ EditorHolds(wzPage.state, wzPage.editor, wzPast)
      /\ AddressHolds(wzPage, wzTrees) /\ OneIsBusy(wzPage, wzSaves)
  BY DEF WizardInv, Pasts
<1> QED  BY <1>1 DEF WizardPages, Wizard!W

LEMMA WzPageMoves ==
  ASSUME WizardInv, NEW past, past = wzPast, NEW q \in WizardPages(past), wzPage' = q,
         UNCHANGED <<wzTrees, wzSaves, wzPast>>,
         DraftHolds(q.read), EditorHolds(q.state, q.editor, past), AddressHolds(q, wzTrees),
         q.open => wzPage.open /\ q.saving = wzPage.saving /\ q.tree = wzPage.tree
  PROVE  WizardInv'
<1>1. wzTrees' = wzTrees /\ wzSaves' = wzSaves /\ wzPast' = wzPast
  OBVIOUS
<1>2. OneIsBusy(q, wzSaves)
  BY DEF WizardInv, OneIsBusy
<1>3. ~wzPast.lost => FewTrees(q, wzSaves, wzTrees)
  BY DEF WizardInv, FewTrees
<1> QED  BY <1>1, <1>2, <1>3 DEF WizardInv

\* A page whose lists and address are as before.
LEMMA WzLookMoves ==
  ASSUME WizardInv, NEW past, past = wzPast, NEW q \in WizardPages(past), wzPage' = q,
         UNCHANGED <<wzTrees, wzSaves, wzPast>>,
         EditorHolds(q.state, q.editor, past), q.read = wzPage.read, q.route = wzPage.route,
         q.open = wzPage.open, q.saving = wzPage.saving, q.tree = wzPage.tree
  PROVE  WizardInv'
<1>1. DraftHolds(q.read) /\ AddressHolds(q, wzTrees)
  BY WzFacts DEF AddressHolds
<1> QED  BY <1>1, WzPageMoves

LEMMA NoEditorHolds ==
  /\ Wizard!NoEditor \in Editors
  /\ \A w, past : EditorHolds(w, Wizard!NoEditor, past)
BY DEF Wizard!NoEditor, Editors, EditorKinds, EditorHolds

LEMMA UpdatedStep ==
  ASSUME WizardInv, NEW w \in WizardForms(wzPast), Wizard!Updated(w, Wizard!NoEditor)
  PROVE  WizardInv'
<1>1. PICK past : past = wzPast
  OBVIOUS
<1>2. PICK q : q = [wzPage EXCEPT !.state = w, !.dirty = TRUE, !.verdict = "none", !.editor = Wizard!NoEditor]
  OBVIOUS
<1>3. q \in WizardPages(past)
  BY <1>1, <1>2, WzFacts, NoEditorHolds DEF WizardPages, Verdicts
<1>4. /\ q.state = w /\ q.editor = Wizard!NoEditor /\ q.read = wzPage.read /\ q.route = wzPage.route
      /\ q.open = wzPage.open /\ q.saving = wzPage.saving /\ q.tree = wzPage.tree
  BY <1>2, WzFacts DEF WizardPages
<1>5. EditorHolds(q.state, q.editor, past)
  BY <1>4, NoEditorHolds
<1>6. wzPage' = q /\ UNCHANGED <<wzTrees, wzSaves, wzPast>>
  BY <1>2 DEF Wizard!Updated
<1> QED  BY <1>1, <1>3, <1>4, <1>5, <1>6, WzLookMoves

LEMMA GeneralStepHolds ==
  ASSUME WizardInv, Wizard!GeneralStep
  PROVE  WizardInv'
<1>1. PICK past : past = wzPast
  OBVIOUS
<1>0. PICK w \in WizardForms(past) : w = wzPage.state /\ Wizard!W = w
  BY <1>1, WzFacts
<1>2. [w EXCEPT !.named = ~@] \in WizardForms(past)
  BY NamedForm
<1>3. Wizard!Updated([w EXCEPT !.named = ~@], Wizard!NoEditor)
  BY <1>0 DEF Wizard!GeneralStep, Wizard!update
<1> QED  BY <1>0, <1>1, <1>2, <1>3, UpdatedStep

LEMMA DeleteManagerHolds ==
  ASSUME WizardInv, Wizard!deleteManager
  PROVE  WizardInv'
<1>1. PICK past : past = wzPast
  OBVIOUS
<1>0. PICK w \in WizardForms(past) : w = wzPage.state /\ Wizard!W = w
  BY <1>1, WzFacts
<1> DEFINE Without(x, i) == [x EXCEPT !.managers = Wizard!RemoveAt(@, i),
                               !.peers = {p \in @ : x.managers[i].agent \notin {p[1], p[2]}}]
<1>4. PICK i \in DOMAIN Wizard!W.managers : Wizard!Updated(Without(Wizard!W, i), Wizard!NoEditor)
  BY DEF Wizard!deleteManager, Wizard!update
<1>5. i \in DOMAIN w.managers /\ Without(Wizard!W, i) = Without(w, i)
  BY <1>0, <1>4
<1>2. Wizard!Updated(Without(w, i), Wizard!NoEditor)
  BY <1>4, <1>5
<1>3. Without(w, i) \in WizardForms(past)
  BY <1>5, DeletedManagerForm
<1> QED  BY <1>0, <1>1, <1>2, <1>3, <1>5, UpdatedStep

LEMMA ChoosePeerHolds ==
  ASSUME WizardInv, Wizard!choosePeer
  PROVE  WizardInv'
<1>1. PICK past : past = wzPast
  OBVIOUS
<1>0. PICK w \in WizardForms(past) : w = wzPage.state /\ Wizard!W = w
  BY <1>1, WzFacts
<1> DEFINE Toggled(x, p) == [x EXCEPT !.peers = IF p \in @ THEN @ \ {p} ELSE @ \union {p}]
<1>6. PICK i \in DOMAIN Wizard!W.managers, j \in DOMAIN Wizard!W.managers :
        i # j /\ Wizard!Updated(Toggled(Wizard!W, <<Wizard!W.managers[i].agent, Wizard!W.managers[j].agent>>),
                               Wizard!NoEditor)
  BY DEF Wizard!choosePeer, Wizard!update
<1>3. PICK p : p = <<w.managers[i].agent, w.managers[j].agent>>
  OBVIOUS
<1>7. p = <<Wizard!W.managers[i].agent, Wizard!W.managers[j].agent>> /\ Toggled(Wizard!W, p) = Toggled(w, p)
  BY <1>0, <1>3
<1>2. i \in DOMAIN w.managers /\ j \in DOMAIN w.managers /\ i # j
  BY <1>0, <1>6
<1>4. Toggled(w, p) \in WizardForms(past)
  BY <1>2, <1>3, ChosenPeerForm
<1>5. Wizard!Updated(Toggled(w, p), Wizard!NoEditor)
  BY <1>6, <1>7
<1> QED  BY <1>0, <1>1, <1>4, <1>5, UpdatedStep

LEMMA DeleteSpecialistHolds ==
  ASSUME WizardInv, Wizard!deleteSpecialist
  PROVE  WizardInv'
<1>1. PICK past : past = wzPast
  OBVIOUS
<1>0. PICK w \in WizardForms(past) : w = wzPage.state /\ Wizard!W = w
  BY <1>1, WzFacts
<1>8. PICK i \in DOMAIN w.managers : \E j \in DOMAIN w.managers[i].specialists :
        Wizard!Updated([w EXCEPT !.managers[i].specialists = Wizard!RemoveAt(@, j)], Wizard!NoEditor)
  BY <1>0, <1>1 DEF Wizard!deleteSpecialist, Wizard!update
<1>2. PICK j \in DOMAIN w.managers[i].specialists :
        Wizard!Updated([w EXCEPT !.managers[i].specialists = Wizard!RemoveAt(@, j)], Wizard!NoEditor)
  BY <1>8
<1>3. PICK list \in Seq(Specialists) : list = w.managers[i].specialists
  BY FormHas, InWizardIs
<1>4. RemoveAt(list, j) \in Seq(Specialists)
  <2>1. j \in 1..Len(list)
    BY <1>3, LenProperties
  <2> QED  BY <2>1, RemoveAtIs
<1>5. PICK staff \in Seq(Specialists) : staff = RemoveAt(list, j)
  BY <1>4
<1>6. Staffed(w, i, staff) \in WizardForms(past)
  BY StaffedForm
<1>7. Staffed(w, i, staff) = [w EXCEPT !.managers[i].specialists = Wizard!RemoveAt(@, j)]
  BY <1>3, <1>5, WizardWords DEF Staffed
<1> QED  BY <1>0, <1>1, <1>2, <1>6, <1>7, UpdatedStep

LEMMA ToolsStepHolds ==
  ASSUME WizardInv, Wizard!ToolsStep
  PROVE  WizardInv'
<1>1. PICK past : past = wzPast
  OBVIOUS
<1>0. PICK w \in WizardForms(past) : w = wzPage.state /\ Wizard!W = w
  BY <1>1, WzFacts
<1>2. PICK t \in Wizard!InWizard(w) \X Tools :
        Wizard!Updated([w EXCEPT !.tools = IF t \in @ THEN @ \ {t} ELSE @ \union {t}], Wizard!NoEditor)
  BY <1>0, <1>1 DEF Wizard!ToolsStep, Wizard!update
<1>3. t \in Agents \X Tools
  BY FormHas, InWizardIs
<1>4. [w EXCEPT !.tools = IF t \in @ THEN @ \ {t} ELSE @ \union {t}] \in WizardForms(past)
  BY <1>3, ToolsForm
<1> QED  BY <1>0, <1>1, <1>2, <1>4, UpdatedStep

-----------------------------------------------------------------------------
(* The editors of the wizard.                                              *)

LEMMA TargetHolds ==
  ASSUME NEW w \in WizardStates, NEW a \in Wizard!InWizard(w), NEW past
  PROVE  Wizard!Target(w, a) \in Editors /\ EditorHolds(w, Wizard!Target(w, a), past)
<1>1. \/ a = w.root
      \/ \E i \in DOMAIN w.managers : a = w.managers[i].agent \/ a \in ToSet(w.managers[i].specialists)
  BY InWizardIs
<1>2. \A i \in DOMAIN w.managers : /\ w.managers[i].agent \in Managers
                                   /\ w.managers[i].specialists \in Seq(Specialists)
                                   /\ ToSet(w.managers[i].specialists) \subseteq Specialists
  BY InWizardIs
<1>3. DOMAIN w.managers = 1..Len(w.managers) /\ Len(w.managers) \in Nat
  BY LenProperties DEF WizardStates, Branches
<1>4. a \in Nat
  BY InWizardIs, Roles
<1>5. CASE a = w.root
  <2>1. Wizard!Target(w, a) = Wizard!NoEditor
    BY <1>5, Roles DEF Wizard!Target, WizardStates
  <2> QED  BY <2>1, NoEditorHolds
<1>6. CASE a # w.root /\ a \in Managers
  <2>1. \E i \in DOMAIN w.managers : w.managers[i].agent = a
    BY <1>1, <1>2, <1>6, Roles
  <2>2. PICK i \in DOMAIN w.managers :
          i = (CHOOSE x \in DOMAIN w.managers : w.managers[x].agent = a) /\ w.managers[i].agent = a
    BY <2>1
  <2>3. Wizard!Target(w, a) = [kind |-> "manager", manager |-> i, specialist |-> 0, agent |-> a]
    BY <1>6, <2>2 DEF Wizard!Target
  <2>4. i \in Nat \ {0}
    BY <1>3
  <2>5. [kind |-> "manager", manager |-> i, specialist |-> 0, agent |-> a] \in Editors
    BY <1>4, <2>4 DEF Editors, EditorKinds
  <2> QED  BY <1>6, <2>2, <2>3, <2>4, <2>5 DEF EditorHolds
<1>7. CASE a # w.root /\ a \notin Managers
  <2>1. PICK n \in DOMAIN w.managers : a \in ToSet(w.managers[n].specialists)
    BY <1>1, <1>2, <1>7
  <2>2. PICK i \in DOMAIN w.managers :
          /\ i = (CHOOSE x \in DOMAIN w.managers : a \in Wizard!ToSet(w.managers[x].specialists))
          /\ a \in ToSet(w.managers[i].specialists)
    <3>1. \E x \in DOMAIN w.managers : a \in Wizard!ToSet(w.managers[x].specialists)
      BY <2>1, WizardWords
    <3> QED  BY <3>1, WizardWords
  <2>3. PICK j \in DOMAIN w.managers[i].specialists :
          j = (CHOOSE x \in DOMAIN w.managers[i].specialists : w.managers[i].specialists[x] = a)
    <3>1. \E x \in DOMAIN w.managers[i].specialists : w.managers[i].specialists[x] = a
      BY <2>2 DEF ToSet
    <3> QED  BY <3>1
  <2>4. Wizard!Target(w, a) = [kind |-> "specialist", manager |-> i, specialist |-> j, agent |-> a]
    BY <1>7, <2>2, <2>3 DEF Wizard!Target
  <2>5. i \in Nat /\ j \in Nat
    <3>1. w.managers[i].specialists \in Seq(Specialists)
      BY <1>2
    <3>2. DOMAIN w.managers[i].specialists = 1..Len(w.managers[i].specialists)
          /\ Len(w.managers[i].specialists) \in Nat
      BY <3>1, LenProperties
    <3> QED  BY <1>3, <3>2
  <2>6. [kind |-> "specialist", manager |-> i, specialist |-> j, agent |-> a] \in Editors
    BY <1>4, <2>5 DEF Editors, EditorKinds
  <2>7. a \in Specialists
    BY <1>2, <2>2
  <2> QED  BY <2>4, <2>6, <2>7 DEF EditorHolds, Wizard!NoEditor
<1> QED  BY <1>5, <1>6, <1>7

LEMMA EditorMovesHold ==
  ASSUME WizardInv, NEW e \in Editors, EditorHolds(wzPage.state, e, wzPast),
         Wizard!WzTurns([wzPage EXCEPT !.editor = e])
  PROVE  WizardInv'
<1>1. PICK past : past = wzPast
  OBVIOUS
<1>2. PICK q : q = [wzPage EXCEPT !.editor = e]
  OBVIOUS
<1>3. q \in WizardPages(past)
  BY <1>1, <1>2, WzFacts DEF WizardPages
<1>4. /\ q.state = wzPage.state /\ q.editor = e /\ q.read = wzPage.read /\ q.route = wzPage.route
      /\ q.open = wzPage.open /\ q.saving = wzPage.saving /\ q.tree = wzPage.tree
  BY <1>2, WzFacts DEF WizardPages
<1>5. wzPage' = q /\ UNCHANGED <<wzTrees, wzSaves, wzPast>>
  BY <1>2 DEF Wizard!WzTurns
<1>6. EditorHolds(q.state, q.editor, past)
  BY <1>1, <1>4
<1> QED  BY <1>1, <1>3, <1>4, <1>5, <1>6, WzLookMoves

LEMMA OpenEditorHolds ==
  ASSUME WizardInv, Wizard!openEditor
  PROVE  WizardInv'
<1>1. PICK w \in WizardStates : w = wzPage.state /\ Wizard!W = w
  BY WzFacts DEF WizardForms
<1>2. CASE \E a \in Managers \ Wizard!InWizard(Wizard!W) : Wizard!WzOpens("manager", 0, a)
  <2>1. PICK a \in Managers \ Wizard!InWizard(w) : Wizard!WzOpens("manager", 0, a)
    BY <1>1, <1>2
  <2>2. PICK e : e = [kind |-> "manager", manager |-> 0, specialist |-> 0, agent |-> a]
    OBVIOUS
  <2>3. e \in Editors
    BY <2>2, Roles DEF Editors, EditorKinds
  <2>4. \A i \in DOMAIN w.managers : w.managers[i].agent # a
    BY InWizardIs
  <2>5. e.kind = "manager" /\ e.manager = 0 /\ e.agent = a
    BY <2>2
  <2>6. EditorHolds(w, e, wzPast)
    BY <2>4, <2>5 DEF EditorHolds
  <2>7. Wizard!WzTurns([wzPage EXCEPT !.editor = e])
    BY <2>1, <2>2 DEF Wizard!WzOpens
  <2> QED  BY <1>1, <2>3, <2>6, <2>7, EditorMovesHold
<1>3. CASE \E i \in DOMAIN Wizard!W.managers, a \in Specialists \ Wizard!InWizard(Wizard!W) :
             Wizard!WzOpens("specialist", i, a)
  <2>1. PICK i \in DOMAIN w.managers, a \in Specialists : Wizard!WzOpens("specialist", i, a)
    BY <1>1, <1>3
  <2>2. PICK e : e = [kind |-> "specialist", manager |-> i, specialist |-> 0, agent |-> a]
    OBVIOUS
  <2>3. a \in Nat /\ i \in Nat
    <3>1. DOMAIN w.managers = 1..Len(w.managers) /\ Len(w.managers) \in Nat
      BY LenProperties DEF WizardStates, Branches
    <3> QED  BY <3>1, Roles
  <2>4. e \in Editors
    BY <2>2, <2>3 DEF Editors, EditorKinds
  <2>5. e.kind = "specialist" /\ e.agent = a
    BY <2>2
  <2>6. EditorHolds(w, e, wzPast)
    BY <2>5 DEF EditorHolds
  <2>7. Wizard!WzTurns([wzPage EXCEPT !.editor = e])
    BY <2>1, <2>2 DEF Wizard!WzOpens
  <2> QED  BY <1>1, <2>4, <2>6, <2>7, EditorMovesHold
<1>4. CASE \E a \in Wizard!InWizard(Wizard!W) \ {Wizard!W.root} :
             Wizard!WzTurns([wzPage EXCEPT !.editor = Wizard!Target(Wizard!W, a)])
  <2>1. PICK a \in Wizard!InWizard(w) : Wizard!WzTurns([wzPage EXCEPT !.editor = Wizard!Target(w, a)])
    BY <1>1, <1>4
  <2>2. Wizard!Target(w, a) \in Editors /\ EditorHolds(w, Wizard!Target(w, a), wzPast)
    BY TargetHolds
  <2> QED  BY <1>1, <2>1, <2>2, EditorMovesHold
<1> QED  BY <1>2, <1>3, <1>4 DEF Wizard!openEditor

LEMMA CloseEditorHolds ==
  ASSUME WizardInv, Wizard!closeEditor
  PROVE  WizardInv'
BY NoEditorHolds, EditorMovesHold DEF Wizard!closeEditor

\* A wizard that begins, and one that was left.
LEMMA FreshWizardHolds ==
  ASSUME NEW past, NEW r \in DraftRoutes
  PROVE  \E q \in WizardPages(past) :
           /\ q = Wizard!FreshWizard(r) /\ DraftHolds(q.read) /\ EditorHolds(q.state, q.editor, past)
           /\ q.open = TRUE /\ q.tree = r /\ q.route = r /\ q.read = Wizard!NoTreeRow
           /\ q.saving = FALSE /\ q.editor = Wizard!NoEditor
<1>1. PICK w \in WizardStates : w = Wizard!emptyWizard /\ Coherent(w)
  BY EmptyWizardIs
<1>2. w \in WizardForms(past)
  BY <1>1 DEF WizardForms
<1>3. Wizard!NoTreeRow \in DraftRows(past) /\ DraftHolds(Wizard!NoTreeRow)
  BY DEF Wizard!NoTreeRow, DraftRows, Drafts, DraftHolds
<1>4. PICK q : q = Wizard!FreshWizard(r)
  OBVIOUS
<1>5. /\ q.open = TRUE /\ q.tree = r /\ q.route = r /\ q.read = Wizard!NoTreeRow
      /\ q.saving = FALSE /\ q.editor = Wizard!NoEditor /\ q.state = w
  BY <1>1, <1>4 DEF Wizard!FreshWizard
<1>6. "asked" \in Loads /\ "none" \in Verdicts
  BY DEF Loads, Verdicts
<1>7. q \in WizardPages(past)
  BY <1>1, <1>2, <1>3, <1>4, <1>6, NoEditorHolds DEF Wizard!FreshWizard, WizardPages
<1>8. DraftHolds(q.read) /\ EditorHolds(q.state, q.editor, past)
  BY <1>3, <1>5, NoEditorHolds
<1> QED  BY <1>4, <1>5, <1>7, <1>8

LEMMA LeftWizardHolds ==
  ASSUME NEW past
  PROVE  \E q \in WizardPages(past) :
           /\ q = Wizard!LeftWizard /\ DraftHolds(q.read) /\ EditorHolds(q.state, q.editor, past)
           /\ q.open = FALSE /\ q.tree = 0 /\ q.route = 0 /\ q.read = Wizard!NoTreeRow
<1>0. 0 \in DraftRoutes
  BY WzBounds
<1>1. PICK p \in WizardPages(past) :
        /\ p = Wizard!FreshWizard(0) /\ DraftHolds(p.read) /\ EditorHolds(p.state, p.editor, past)
        /\ p.open = TRUE /\ p.tree = 0 /\ p.route = 0 /\ p.read = Wizard!NoTreeRow
        /\ p.saving = FALSE /\ p.editor = Wizard!NoEditor
  BY <1>0, FreshWizardHolds
<1>2. PICK q : q = Wizard!LeftWizard
  OBVIOUS
<1>3. q = [p EXCEPT !.open = FALSE, !.load = "idle"]
  BY <1>1, <1>2 DEF Wizard!LeftWizard
<1>4. q \in WizardPages(past)
  BY <1>3 DEF WizardPages, Loads
<1>5. /\ q.open = FALSE /\ q.tree = p.tree /\ q.route = p.route /\ q.read = p.read
      /\ q.state = p.state /\ q.editor = p.editor
  BY <1>3 DEF WizardPages
<1> QED  BY <1>1, <1>2, <1>4, <1>5

LEMMA LeftHoldsThen ==
  ASSUME WizardInv, wzPage' = Wizard!LeftWizard, UNCHANGED <<wzTrees, wzSaves, wzPast>>
  PROVE  WizardInv'
<1>1. PICK past : past = wzPast
  OBVIOUS
<1>2. PICK q \in WizardPages(past) :
        /\ q = Wizard!LeftWizard /\ DraftHolds(q.read) /\ EditorHolds(q.state, q.editor, past)
        /\ q.open = FALSE /\ q.tree = 0 /\ q.route = 0 /\ q.read = Wizard!NoTreeRow
  BY LeftWizardHolds
<1>3. AddressHolds(q, wzTrees)
  BY <1>2 DEF AddressHolds
<1> QED  BY <1>1, <1>2, <1>3, WzPageMoves

LEMMA CancelHolds ==
  ASSUME WizardInv, Wizard!cancel
  PROVE  WizardInv'
BY LeftHoldsThen DEF Wizard!cancel, Wizard!WzTurns

-----------------------------------------------------------------------------
(* What the editor saves.                                                  *)

LEMMA AddedForm ==
  ASSUME NEW past, NEW w \in WizardForms(past), NEW row \in Branch,
         ~past.moved => \A i \in DOMAIN w.managers : w.managers[i].agent # row.agent
  PROVE  [w EXCEPT !.managers = Append(@, row)] \in WizardForms(past)
<1> DEFINE s == w.managers
<1>1. /\ w \in WizardStates /\ (~past.moved => Coherent(w)) /\ s \in Seq(Branch)
      /\ DOMAIN s = 1..Len(s) /\ Len(s) \in Nat
  BY FormHas
<1>2. PICK list : list = Append(s, row)
  OBVIOUS
<1>3. /\ list \in Seq(Branch) /\ Len(list) = Len(s) + 1
      /\ \A i \in 1..Len(s) : list[i] = s[i]
      /\ list[Len(s) + 1] = row
  BY <1>1, <1>2, AppendProperties
<1>4. DOMAIN list = 1..Len(s) + 1
  BY <1>3, LenProperties
<1>5. PICK q : q = [w EXCEPT !.managers = list]
  OBVIOUS
<1>6. q \in WizardStates /\ q.managers = list /\ q.peers = w.peers
  BY <1>1, <1>3, <1>5 DEF WizardStates, Branches
<1>7. ASSUME ~past.moved
      PROVE  Coherent(q)
  <2>1. PeersFit(w) /\ ManagersDiffer(w) /\ \A i \in 1..Len(s) : s[i].agent # row.agent
    BY <1>1, <1>7 DEF Coherent
  <2>2. PeersFit(q)
    <3>1. ASSUME NEW p \in q.peers
          PROVE  p[1] # p[2] /\ \E i \in DOMAIN q.managers : q.managers[i].agent = p[2]
      <4>1. PICK i \in 1..Len(s) : p[1] # p[2] /\ s[i].agent = p[2]
        BY <1>1, <1>6, <2>1 DEF PeersFit
      <4>2. i \in DOMAIN q.managers /\ q.managers[i].agent = p[2]
        BY <1>1, <1>3, <1>4, <1>6, <4>1
      <4> QED  BY <4>1, <4>2
    <3> QED  BY <3>1 DEF PeersFit
  <2>3. ManagersDiffer(q)
    <3>1. ASSUME NEW i \in 1..Len(s) + 1, NEW j \in 1..Len(s) + 1, list[i].agent = list[j].agent
          PROVE  i = j
      <4>1. CASE i \in 1..Len(s) /\ j \in 1..Len(s)
        BY <1>1, <1>3, <2>1, <3>1, <4>1 DEF ManagersDiffer
      <4>2. CASE i \notin 1..Len(s) /\ j \in 1..Len(s)
        <5>1. i = Len(s) + 1
          BY <1>1, <4>2
        <5> QED  BY <1>3, <2>1, <3>1, <4>2, <5>1
      <4>3. CASE i \in 1..Len(s) /\ j \notin 1..Len(s)
        <5>1. j = Len(s) + 1
          BY <1>1, <4>3
        <5> QED  BY <1>3, <2>1, <3>1, <4>3, <5>1
      <4>4. CASE i \notin 1..Len(s) /\ j \notin 1..Len(s)
        BY <1>1, <4>4
      <4> QED  BY <4>1, <4>2, <4>3, <4>4
    <3> QED  BY <1>4, <1>6, <3>1 DEF ManagersDiffer
  <2> QED  BY <2>2, <2>3 DEF Coherent
<1> QED  BY <1>2, <1>5, <1>6, <1>7 DEF WizardForms

\* An open editor of a Manager goes back to the same Manager, unless the lists
\* were replaced.
LEMMA PutBackForm ==
  ASSUME NEW past, NEW w \in WizardForms(past), NEW i \in DOMAIN w.managers, NEW a \in Managers,
         past.moved \/ w.managers[i].agent = a
  PROVE  [w EXCEPT !.managers[i].agent = a] \in WizardForms(past)
<1> DEFINE s == w.managers
<1>1. /\ w \in WizardStates /\ (~past.moved => Coherent(w)) /\ s \in Seq(Branch)
      /\ DOMAIN s = 1..Len(s) /\ Len(s) \in Nat /\ \A k \in DOMAIN s : s[k] \in Branch
  BY FormHas
<1>2. PICK row \in Branch : row = [s[i] EXCEPT !.agent = a] /\ (s[i].agent = a => row = s[i])
  <2>1. PICK old \in Branch : old = s[i]
    BY <1>1
  <2>2. [old EXCEPT !.agent = a] \in Branch /\ (old.agent = a => [old EXCEPT !.agent = a] = old)
    BY DEF Branch
  <2> QED  BY <2>1, <2>2
<1>3. PICK list : list = [s EXCEPT ![i] = row]
  OBVIOUS
<1>4. list \in Seq(Branch)
  <2>1. i \in 1..Len(s)
    BY <1>1
  <2> QED  BY <1>1, <1>3, <2>1, ExceptSeq
<1>5. PICK q : q = [w EXCEPT !.managers = list]
  OBVIOUS
<1>6. q \in WizardStates
  BY <1>1, <1>4, <1>5 DEF WizardStates, Branches
<1>7. q = [w EXCEPT !.managers[i].agent = a]
  BY <1>2, <1>3, <1>5
<1>8. CASE past.moved
  BY <1>6, <1>7, <1>8 DEF WizardForms
<1>9. CASE s[i].agent = a
  <2>1. row = s[i]
    BY <1>2, <1>9
  <2>2. list = s
    BY <1>1, <1>3, <2>1
  <2>3. q = w
    BY <1>1, <1>5, <2>2 DEF WizardStates
  <2> QED  BY <1>7, <2>3
<1> QED  BY <1>8, <1>9

LEMMA SaveEditorHolds ==
  ASSUME WizardInv, Wizard!saveEditor
  PROVE  WizardInv'
<1>1. PICK past : past = wzPast
  OBVIOUS
<1>2. PICK w \in WizardForms(past) : w = wzPage.state /\ Wizard!W = w
  BY <1>1, WzFacts
<1>3. PICK e \in Editors : e = wzPage.editor /\ EditorHolds(w, e, past)
  BY <1>1, <1>2, WzFacts
<1> DEFINE i == e.manager
           j == e.specialist
           Placed(list) == IF j = 0 THEN Append(list, e.agent)
                           ELSE IF j \in DOMAIN list THEN [list EXCEPT ![j] = e.agent]
                           ELSE Append(list, e.agent)
<1>4. \/ /\ e.kind = "manager" /\ i = 0
         /\ Wizard!Updated([w EXCEPT !.managers = Append(@, [agent |-> e.agent, specialists |-> <<>>])],
                           Wizard!NoEditor)
      \/ Wizard!WzTurns(Wizard!LeftWizard)
      \/ /\ e.kind = "manager" /\ i # 0 /\ i \in DOMAIN w.managers
         /\ Wizard!Updated([w EXCEPT !.managers[i].agent = e.agent], Wizard!NoEditor)
      \/ /\ e # Wizard!NoEditor /\ e.kind # "manager" /\ i \in DOMAIN w.managers
         /\ Wizard!Updated([w EXCEPT !.managers[i].specialists = Placed(@)], Wizard!NoEditor)
  <2>0. e.kind = "manager" => e # Wizard!NoEditor
    BY DEF Wizard!NoEditor
  <2>1. CASE e.kind = "manager" /\ i = 0
    BY <1>2, <1>3, <2>0, <2>1 DEF Wizard!saveEditor
  <2>2. CASE e.kind = "manager" /\ i # 0
    BY <1>2, <1>3, <2>0, <2>2 DEF Wizard!saveEditor
  <2>3. CASE e.kind # "manager" /\ i \notin DOMAIN w.managers
    BY <1>2, <1>3, <2>3 DEF Wizard!saveEditor
  <2>4. CASE e.kind # "manager" /\ i \in DOMAIN w.managers
    BY <1>2, <1>3, <2>4 DEF Wizard!saveEditor
  <2> QED  BY <2>1, <2>2, <2>3, <2>4
<1>5. CASE /\ e.kind = "manager" /\ i = 0
           /\ Wizard!Updated([w EXCEPT !.managers = Append(@, [agent |-> e.agent, specialists |-> <<>>])],
                             Wizard!NoEditor)
  <2>1. e.agent \in Managers
    BY <1>3, <1>5 DEF EditorHolds
  <2>2. <<>> \in Seq(Specialists)
    BY EmptySeq
  <2>0. PICK none \in Seq(Specialists) : none = <<>>
    BY <2>2
  <2>7. [agent |-> e.agent, specialists |-> none] \in Branch
    BY <2>1 DEF Branch
  <2>3. PICK row \in Branch : row = [agent |-> e.agent, specialists |-> none] /\ row.agent = e.agent
    BY <2>7
  <2>4. ~past.moved => \A n \in DOMAIN w.managers : w.managers[n].agent # row.agent
    BY <1>3, <1>5, <2>3 DEF EditorHolds
  <2>5. [w EXCEPT !.managers = Append(@, row)] \in WizardForms(past)
    BY <2>4, AddedForm
  <2>6. Wizard!Updated([w EXCEPT !.managers = Append(@, row)], Wizard!NoEditor)
    BY <1>5, <2>0, <2>3
  <2> QED  BY <1>1, <2>5, <2>6, UpdatedStep
<1>6. CASE Wizard!WzTurns(Wizard!LeftWizard)
  BY <1>6, LeftHoldsThen DEF Wizard!WzTurns
<1>7. CASE /\ e.kind = "manager" /\ i # 0 /\ i \in DOMAIN w.managers
           /\ Wizard!Updated([w EXCEPT !.managers[i].agent = e.agent], Wizard!NoEditor)
  <2>1. e.agent \in Managers /\ (~past.moved => w.managers[i].agent = e.agent)
    BY <1>3, <1>7 DEF EditorHolds
  <2>2. PICK a \in Managers : a = e.agent
    BY <2>1
  <2>3. past.moved \/ w.managers[i].agent = a
    BY <2>1, <2>2
  <2>4. [w EXCEPT !.managers[i].agent = a] \in WizardForms(past)
    BY <1>7, <2>3, PutBackForm
  <2>5. Wizard!Updated([w EXCEPT !.managers[i].agent = a], Wizard!NoEditor)
    BY <1>7, <2>2
  <2> QED  BY <1>1, <2>4, <2>5, UpdatedStep
<1>8. CASE /\ e # Wizard!NoEditor /\ e.kind # "manager" /\ i \in DOMAIN w.managers
           /\ Wizard!Updated([w EXCEPT !.managers[i].specialists = Placed(@)], Wizard!NoEditor)
  <2>1. e.kind = "specialist"
    BY <1>3, <1>8 DEF Editors, EditorKinds, EditorHolds
  <2>2. PICK a \in Specialists : a = e.agent
    BY <1>3, <2>1 DEF EditorHolds
  <2>3. PICK list \in Seq(Specialists) : list = w.managers[i].specialists
    BY <1>8, FormHas, InWizardIs
  <2>4. Placed(list) \in Seq(Specialists)
    <3>1. Append(list, a) \in Seq(Specialists)
      BY AppendProperties
    <3>2. DOMAIN list = 1..Len(list)
      BY LenProperties
    <3>3. j \in DOMAIN list => [list EXCEPT ![j] = a] \in Seq(Specialists)
      BY <3>2, ExceptSeq
    <3> QED  BY <2>2, <3>1, <3>3
  <2>5. PICK staff \in Seq(Specialists) : staff = Placed(list)
    BY <2>4
  <2>6. Staffed(w, i, staff) \in WizardForms(past)
    BY <1>8, StaffedForm
  <2>7. [w EXCEPT !.managers[i].specialists = Placed(@)] = Staffed(w, i, staff)
    BY <2>3, <2>5 DEF Staffed
  <2>8. Wizard!Updated(Staffed(w, i, staff), Wizard!NoEditor)
    BY <1>8, <2>7
  <2> QED  BY <1>1, <2>6, <2>8, UpdatedStep
<1> QED  BY <1>4, <1>5, <1>6, <1>7, <1>8

-----------------------------------------------------------------------------
(* Loading and saving.                                                     *)

SaveLists(past)  == [1..MaxDrafts -> Writes(past)]
DraftTables(past) == [Wizard!DraftIds -> DraftRows(past)]

LEMMA MovedAllowsMore ==
  ASSUME NEW past, NEW later, past.moved => later.moved
  PROVE  /\ Drafts(past) \subseteq Drafts(later) /\ DraftRows(past) \subseteq DraftRows(later)
         /\ Writes(past) \subseteq Writes(later) /\ WizardForms(past) \subseteq WizardForms(later)
         /\ SaveLists(past) \subseteq SaveLists(later) /\ DraftTables(past) \subseteq DraftTables(later)
         /\ WizardPages(past) \subseteq WizardPages(later)
         /\ \A w, e : EditorHolds(w, e, past) => EditorHolds(w, e, later)
<1>1. Drafts(past) \subseteq Drafts(later)
  BY SoundIsLoose DEF Drafts
<1>2. DraftRows(past) \subseteq DraftRows(later)
  BY <1>1 DEF DraftRows
<1>3. Writes(past) \subseteq Writes(later)
  BY <1>1 DEF Writes
<1>4. WizardForms(past) \subseteq WizardForms(later)
  BY DEF WizardForms
<1>5. SaveLists(past) \subseteq SaveLists(later)
  BY <1>3 DEF SaveLists
<1>6. DraftTables(past) \subseteq DraftTables(later)
  BY <1>2 DEF DraftTables
<1>7. WizardPages(past) \subseteq WizardPages(later)
  BY <1>2, <1>4 DEF WizardPages
<1>8. \A w, e : EditorHolds(w, e, past) => EditorHolds(w, e, later)
  BY DEF EditorHolds
<1> QED  BY <1>1, <1>2, <1>3, <1>4, <1>5, <1>6, <1>7, <1>8

LEMMA DraftIs ==
  ASSUME NEW past, NEW d \in Drafts(past), d # NoDraft
  PROVE  /\ d \in LooseDocuments /\ (~past.moved => d \in SoundDocuments)
         /\ Wizard!wizardFromTree(d) \in WizardForms(past)
<1>1. d \in LooseDocuments /\ (~past.moved => d \in SoundDocuments)
  BY SoundIsLoose DEF Drafts
<1>2. PICK w \in WizardStates :
        /\ w = Wizard!wizardFromTree(d) /\ w.peers = d.peers /\ ManagersDiffer(w)
        /\ \A m \in ManagersOf(d) : \E i \in DOMAIN w.managers : w.managers[i].agent = m
  BY <1>1, FromTreeIs
<1>3. ASSUME ~past.moved
      PROVE  PeersFit(w)
  <2>1. d \in SoundDocuments
    BY <1>1, <1>3
  <2>2. d.peers \subseteq Managers \X Managers
        /\ \A p \in d.peers : p[1] \in Members(d) /\ p[2] \in Members(d) /\ p[1] # p[2]
    BY <2>1, SoundHas
  <2>3. \A p \in w.peers : p[1] # p[2] /\ p[2] \in ManagersOf(d)
    BY <1>2, <2>2 DEF ManagersOf
  <2> QED  BY <1>2, <2>3 DEF PeersFit
<1> QED  BY <1>1, <1>2, <1>3 DEF WizardForms, Coherent

\* The parts of the invariant in a later state.
LEMMA WizardMakes ==
  ASSUME NEW past \in Pasts, wzPast' = past,
         NEW trees \in DraftTables(past), wzTrees' = trees,
         \A t \in Wizard!DraftIds : DraftHolds(trees[t]),
         NEW q \in WizardPages(past), wzPage' = q, DraftHolds(q.read),
         EditorHolds(q.state, q.editor, past),
         NEW saves \in SaveLists(past), wzSaves' = saves,
         \A k \in 1..MaxDrafts : WriteHolds(saves[k], trees),
         AddressHolds(q, trees), OneIsBusy(q, saves), ~past.lost => FewTrees(q, saves, trees)
  PROVE  WizardInv'
BY DEF WizardInv, Pasts, DraftTables, SaveLists

LEMMA WizardParts ==
  ASSUME WizardInv
  PROVE  /\ wzPast \in Pasts /\ wzTrees \in DraftTables(wzPast) /\ wzSaves \in SaveLists(wzPast)
         /\ wzPage \in WizardPages(wzPast)
         /\ \A t \in Wizard!DraftIds : DraftHolds(wzTrees[t])
         /\ \A k \in 1..MaxDrafts : WriteHolds(wzSaves[k], wzTrees) /\ wzSaves[k] \in Writes(wzPast)
         /\ DOMAIN wzSaves = 1..MaxDrafts
         /\ OneIsBusy(wzPage, wzSaves)
         /\ ~wzPast.lost => FewTrees(wzPage, wzSaves, wzTrees)
BY DEF WizardInv, Pasts, DraftTables, SaveLists

LEMMA WizardReadsHolds ==
  ASSUME WizardInv, Wizard!WizardReads
  PROVE  WizardInv'
<1>1. PICK past : past = wzPast
  OBVIOUS
<1>2. PICK row \in {wzTrees[t] : t \in {wzPage.route} \ {0}} \union {Wizard!NoTreeRow} :
        Wizard!WzTurns([wzPage EXCEPT !.load = "answered", !.read = row])
  BY DEF Wizard!WizardReads
<1>3. row \in DraftRows(past) /\ DraftHolds(row) /\ (row # Wizard!NoTreeRow => wzPage.route # 0)
  <2>1. CASE row = Wizard!NoTreeRow
    <3>1. Wizard!NoTreeRow \in DraftRows(past) /\ DraftHolds(Wizard!NoTreeRow)
      BY DEF Wizard!NoTreeRow, DraftRows, Drafts, DraftHolds
    <3> QED  BY <2>1, <3>1
  <2>2. CASE row = wzTrees[wzPage.route] /\ wzPage.route # 0
    <3>1. wzPage.route \in Wizard!DraftIds
      BY <2>2, WzFacts, WzBounds
    <3> QED  BY <1>1, <2>2, <3>1, WizardParts DEF DraftTables
  <2> QED  BY <1>2, <2>1, <2>2
<1>4. PICK q : q = [wzPage EXCEPT !.load = "answered", !.read = row]
  OBVIOUS
<1>5. q \in WizardPages(past)
  BY <1>1, <1>3, <1>4, WzFacts DEF WizardPages, Loads
<1>6. /\ q.state = wzPage.state /\ q.editor = wzPage.editor /\ q.read = row /\ q.route = wzPage.route
      /\ q.open = wzPage.open /\ q.saving = wzPage.saving /\ q.tree = wzPage.tree
  BY <1>4, WzFacts DEF WizardPages
<1>7. AddressHolds(q, wzTrees)
  BY <1>3, <1>6, WzFacts DEF AddressHolds
<1>8. wzPage' = q /\ UNCHANGED <<wzTrees, wzSaves, wzPast>>
  BY <1>2, <1>4 DEF Wizard!WzTurns
<1>9. EditorHolds(q.state, q.editor, past)
  BY <1>1, <1>6, WzFacts
<1> QED  BY <1>1, <1>3, <1>5, <1>6, <1>7, <1>8, <1>9, WzPageMoves

LEMMA WizardLoadedHolds ==
  ASSUME WizardInv, Wizard!WizardLoaded
  PROVE  WizardInv'
<1>1. PICK past : past = wzPast
  OBVIOUS
<1>2. PICK page \in WizardPages(past) : page = wzPage /\ EditorHolds(page.state, page.editor, past)
  BY <1>1, WzFacts
<1>3. PICK row \in DraftRows(past) : row = page.read /\ DraftHolds(row)
  BY <1>1, <1>2, WzFacts
<1>4. PICK done : done = [page EXCEPT !.load = "idle", !.loading = FALSE, !.read = Wizard!NoTreeRow]
  OBVIOUS
<1>5. Wizard!NoTreeRow \in DraftRows(past) /\ DraftHolds(Wizard!NoTreeRow)
  BY DEF Wizard!NoTreeRow, DraftRows, Drafts, DraftHolds
<1>6. /\ done \in WizardPages(past) /\ done.editor = page.editor /\ done.state = page.state
      /\ done.read = Wizard!NoTreeRow /\ done.route = page.route /\ done.open = page.open
      /\ done.saving = page.saving /\ done.tree = page.tree
  <2>1. done \in WizardPages(past)
    BY <1>4, <1>5 DEF WizardPages, Loads
  <2> QED  BY <1>4, <2>1 DEF WizardPages
<1>7. CASE row = Wizard!NoTreeRow
  <2>1. wzPage' = done /\ UNCHANGED <<wzTrees, wzSaves, wzPast>>
    BY <1>2, <1>3, <1>4, <1>7 DEF Wizard!WizardLoaded, Wizard!WzTurns
  <2>2. AddressHolds(done, wzTrees)
    BY <1>2, <1>6, WzFacts DEF AddressHolds
  <2>3. DraftHolds(done.read) /\ EditorHolds(done.state, done.editor, past)
    BY <1>2, <1>5, <1>6
  <2> QED  BY <1>1, <1>2, <1>6, <2>1, <2>2, <2>3, WzPageMoves
<1>8. CASE row # Wizard!NoTreeRow
  <2>1. row.doc \in Drafts(past) /\ row.doc # NoDraft /\ row.ready \in BOOLEAN
    BY <1>3, <1>8 DEF DraftHolds, DraftRows
  <2>2. PICK w \in WizardForms(past) : w = Wizard!wizardFromTree(row.doc)
    BY <2>1, DraftIs
  <2> DEFINE Done(x) == [x EXCEPT !.load = "idle", !.loading = FALSE, !.read = Wizard!NoTreeRow]
             Opened(x, v) == {Done(x).editor} \union {Wizard!Target(v, a) : a \in Wizard!InWizard(v)}
             Shows(x, v, f) == [Done(x) EXCEPT !.state = v, !.tree = x.route, !.ready = x.read.ready,
                                               !.editor = f]
  <2>18. wzPage.read # Wizard!NoTreeRow
    BY <1>2, <1>3, <1>8
  <2>19. /\ \E f \in Opened(wzPage, Wizard!wizardFromTree(wzPage.read.doc)) :
              wzPage' = Shows(wzPage, Wizard!wizardFromTree(wzPage.read.doc), f)
         /\ wzPast' = [wzPast EXCEPT !.moved = @ \/ wzPage.editor # Wizard!NoEditor]
         /\ UNCHANGED <<wzTrees, wzSaves>>
    BY <2>18 DEF Wizard!WizardLoaded
  <2>20. w = Wizard!wizardFromTree(wzPage.read.doc) /\ done = Done(wzPage)
    BY <1>2, <1>3, <1>4, <2>2
  <2>21. /\ \E f \in Opened(wzPage, w) : wzPage' = Shows(wzPage, w, f)
         /\ wzPast' = [wzPast EXCEPT !.moved = @ \/ wzPage.editor # Wizard!NoEditor]
         /\ UNCHANGED <<wzTrees, wzSaves>>
    BY <2>19, <2>20
  <2>3. PICK e \in {done.editor} \union {Wizard!Target(w, a) : a \in Wizard!InWizard(w)} :
          /\ wzPage' = [done EXCEPT !.state = w, !.tree = page.route, !.ready = row.ready, !.editor = e]
          /\ wzPast' = [wzPast EXCEPT !.moved = @ \/ page.editor # Wizard!NoEditor]
          /\ UNCHANGED <<wzTrees, wzSaves>>
    BY <1>2, <1>3, <1>4, <2>21
  <2>4. PICK later \in Pasts :
          /\ later = wzPast' /\ later.lost = past.lost /\ (past.moved => later.moved)
          /\ page.editor # Wizard!NoEditor => later.moved
    <3>1. PICK old \in Pasts : old = wzPast
      BY WzFacts
    <3>2. PICK m \in BOOLEAN : /\ m = (old.moved \/ page.editor # Wizard!NoEditor)
                               /\ (old.moved => m) /\ (page.editor # Wizard!NoEditor => m)
      OBVIOUS
    <3>3. PICK later : later = [old EXCEPT !.moved = m]
      OBVIOUS
    <3>4. later \in Pasts /\ later.lost = old.lost /\ later.moved = m
      BY <3>3 DEF Pasts
    <3>5. wzPast' = later
      BY <2>3, <3>1, <3>2, <3>3
    <3> QED  BY <1>1, <3>1, <3>2, <3>4, <3>5
  <2>5. w \in WizardForms(later) /\ w \in WizardStates /\ done \in WizardPages(later)
    BY <1>6, <2>4, MovedAllowsMore DEF WizardForms
  <2>6. e \in Editors /\ EditorHolds(w, e, later)
    <3>1. CASE e = page.editor
      <4>1. page.editor \in Editors
        BY DEF WizardPages
      <4>2. CASE page.editor = Wizard!NoEditor
        BY <3>1, <4>2, NoEditorHolds
      <4>3. CASE page.editor # Wizard!NoEditor
        BY <1>2, <2>4, <3>1, <4>1, <4>3 DEF EditorHolds
      <4> QED  BY <4>2, <4>3
    <3>2. CASE \E a \in Wizard!InWizard(w) : e = Wizard!Target(w, a)
      BY <2>5, <3>2, TargetHolds
    <3> QED  BY <1>6, <2>3, <3>1, <3>2
  <2>7. page.route \in DraftRoutes /\ page.route # 0 /\ page.route \in Used(wzTrees)
    BY <1>2, <1>3, <1>8, WzFacts DEF AddressHolds
  <2>8. PICK q : q = [done EXCEPT !.state = w, !.tree = page.route, !.ready = row.ready, !.editor = e]
    OBVIOUS
  <2>9. q \in WizardPages(later)
    BY <2>1, <2>5, <2>6, <2>7, <2>8 DEF WizardPages
  <2>10. /\ q.state = w /\ q.editor = e /\ q.read = Wizard!NoTreeRow /\ q.route = page.route
         /\ q.open = page.open /\ q.saving = page.saving /\ q.tree = page.route
    BY <1>6, <2>8 DEF WizardPages
  <2>11. AddressHolds(q, wzTrees)
    BY <2>7, <2>10 DEF AddressHolds
  <2>12. OneIsBusy(q, wzSaves)
    BY <1>2, <2>10, WizardParts DEF OneIsBusy
  <2>13. ~later.lost => FewTrees(q, wzSaves, wzTrees)
    <3>1. ~later.lost => FewTrees(page, wzSaves, wzTrees)
      BY <1>1, <1>2, <2>4, WizardParts
    <3> QED  BY <2>7, <2>10, <3>1 DEF FewTrees
  <2>14. PICK trees \in DraftTables(later) : trees = wzTrees
    BY <1>1, <2>4, MovedAllowsMore, WizardParts
  <2>15. PICK saves \in SaveLists(later) : saves = wzSaves
    BY <1>1, <2>4, MovedAllowsMore, WizardParts
  <2>16. wzPast' = later /\ wzTrees' = trees /\ wzPage' = q /\ wzSaves' = saves
    BY <2>3, <2>4, <2>8, <2>14, <2>15
  <2>17. /\ \A t \in Wizard!DraftIds : DraftHolds(trees[t])
         /\ \A k \in 1..MaxDrafts : WriteHolds(saves[k], trees)
         /\ DraftHolds(q.read) /\ EditorHolds(q.state, q.editor, later)
    BY <1>5, <2>6, <2>10, <2>14, <2>15, WizardParts
  <2> QED  BY <2>9, <2>11, <2>12, <2>13, <2>14, <2>15, <2>16, <2>17, WizardMakes
<1> QED  BY <1>7, <1>8

-----------------------------------------------------------------------------
(* The coroutines of saveDraft.                                            *)

LEMMA SavesTurn ==
  ASSUME WizardInv, NEW later, wzPast.moved => later.moved,
         NEW k \in 1..MaxDrafts, NEW c \in Writes(later),
         NEW trees, Used(wzTrees) \subseteq Used(trees), WriteHolds(c, trees)
  PROVE  \E saves \in SaveLists(later) :
           /\ saves = [wzSaves EXCEPT ![k] = c] /\ saves[k] = c /\ DOMAIN saves = 1..MaxDrafts
           /\ \A j \in 1..MaxDrafts : j # k => saves[j] = wzSaves[j]
           /\ \A j \in 1..MaxDrafts : WriteHolds(saves[j], trees)
<1>1. PICK old \in SaveLists(later) : old = wzSaves
  BY MovedAllowsMore, WizardParts
<1>2. PICK saves : saves = [old EXCEPT ![k] = c]
  OBVIOUS
<1>3. /\ saves \in SaveLists(later) /\ saves[k] = c /\ DOMAIN saves = 1..MaxDrafts
      /\ \A j \in 1..MaxDrafts : j # k => saves[j] = old[j]
  BY <1>2 DEF SaveLists
<1>4. ASSUME NEW j \in 1..MaxDrafts
      PROVE  WriteHolds(saves[j], trees)
  <2>1. CASE j = k
    BY <1>3, <2>1
  <2>2. CASE j # k
    <3>1. WriteHolds(old[j], wzTrees)
      BY <1>1, WizardParts
    <3> QED  BY <1>3, <2>2, <3>1 DEF WriteHolds
  <2> QED  BY <2>1, <2>2
<1> QED  BY <1>1, <1>2, <1>3, <1>4

\* A page that keeps its lists, with a coroutine one step on.
LEMMA SavesMove ==
  ASSUME WizardInv, NEW past, past = wzPast, UNCHANGED <<wzTrees, wzPast>>,
         NEW k \in 1..MaxDrafts, NEW c \in Writes(past), wzSaves' = [wzSaves EXCEPT ![k] = c],
         WriteHolds(c, wzTrees),
         c.new /\ c.at \in {"put", "failed"} => Used(wzTrees) \subseteq {1} \/ wzPast.lost,
         wzSaves[k].at # "saved",
         NEW q \in WizardPages(past), wzPage' = q, DraftHolds(q.read),
         EditorHolds(q.state, q.editor, past), AddressHolds(q, wzTrees),
         q.open => wzPage.open /\ q.tree = wzPage.tree,
         Busy(c) => \A j \in 1..MaxDrafts : j # k => ~Busy(wzSaves[j]),
         q.open /\ (Busy(c) \/ \E j \in 1..MaxDrafts : j # k /\ Busy(wzSaves[j])) => q.saving
  PROVE  WizardInv'
<1>1. PICK trees \in DraftTables(past) :
        trees = wzTrees /\ \A t \in Wizard!DraftIds : DraftHolds(trees[t])
  BY WizardParts
<1>2. PICK saves \in SaveLists(past) :
        /\ saves = [wzSaves EXCEPT ![k] = c] /\ saves[k] = c /\ DOMAIN saves = 1..MaxDrafts
        /\ \A j \in 1..MaxDrafts : j # k => saves[j] = wzSaves[j]
        /\ \A j \in 1..MaxDrafts : WriteHolds(saves[j], trees)
  <2>1. Used(wzTrees) \subseteq Used(trees) /\ WriteHolds(c, trees)
    BY <1>1
  <2> QED  BY <2>1, SavesTurn
<1>3. OneIsBusy(q, saves)
  <2>1. \A j, n \in 1..MaxDrafts : Busy(saves[j]) /\ Busy(saves[n]) => j = n
    <3>1. \A j, n \in 1..MaxDrafts : Busy(wzSaves[j]) /\ Busy(wzSaves[n]) => j = n
      BY WizardParts DEF OneIsBusy
    <3> QED  BY <1>2, <3>1
  <2>2. \A j \in 1..MaxDrafts : q.open /\ Busy(saves[j]) => q.saving
    BY <1>2
  <2> QED  BY <1>2, <2>1, <2>2 DEF OneIsBusy
<1>4. ASSUME ~past.lost
      PROVE  FewTrees(q, saves, trees)
  <2>1. FewTrees(wzPage, wzSaves, trees)
    BY <1>1, <1>4, WizardParts
  <2>2. \A j \in 1..MaxDrafts : saves[j].new /\ saves[j].at \in {"put", "failed"} => Used(trees) \subseteq {1}
    BY <1>1, <1>2, <1>4, <2>1, WizardParts DEF FewTrees
  <2>3. ASSUME q.open, q.tree = 0, \A j \in 1..MaxDrafts : saves[j].new => saves[j].at # "saved"
        PROVE  Used(trees) \subseteq {1}
    <3>1. \A j \in 1..MaxDrafts : wzSaves[j].new => wzSaves[j].at # "saved"
      BY <1>2, <2>3
    <3> QED  BY <2>1, <2>3, <3>1, WizardParts DEF FewTrees
  <2> QED  BY <1>2, <2>1, <2>2, <2>3 DEF FewTrees
<1>5. past \in Pasts /\ wzPast' = past /\ wzTrees' = trees /\ wzSaves' = saves
  BY <1>1, <1>2, WizardParts
<1>6. AddressHolds(q, trees)
  BY <1>1
<1> QED  BY <1>1, <1>2, <1>3, <1>4, <1>5, <1>6, WizardMakes

LEMMA SaveIs ==
  ASSUME WizardInv, NEW past, past = wzPast, NEW k \in 1..MaxDrafts
  PROVE  \E c \in Writes(past) :
           /\ c = wzSaves[k] /\ WriteHolds(c, wzTrees)
           /\ c.at \in WriteSteps /\ c.doc \in Drafts(past) /\ c.tree \in DraftRoutes
           /\ c.ready \in BOOLEAN /\ c.new \in BOOLEAN /\ c.unique \in BOOLEAN
           /\ c.check \in BOOLEAN /\ c.mark \in BOOLEAN
           /\ Busy(c) => \A j \in 1..MaxDrafts : j # k => ~Busy(wzSaves[j])
<1>1. PICK c \in Writes(past) : c = wzSaves[k] /\ WriteHolds(c, wzTrees)
  BY WizardParts
<1>2. Busy(c) => \A j \in 1..MaxDrafts : j # k => ~Busy(wzSaves[j])
  BY <1>1, WizardParts DEF OneIsBusy
<1> QED  BY <1>1, <1>2 DEF Writes

LEMMA saveDraftHolds ==
  ASSUME WizardInv, NEW k \in 1..MaxDrafts, Wizard!saveDraft(k)
  PROVE  WizardInv'
<1>1. PICK past : past = wzPast
  OBVIOUS
<1>2. PICK page \in WizardPages(past) : page = wzPage /\ EditorHolds(page.state, page.editor, past)
  BY <1>1, WzFacts
<1>3. PICK w \in WizardForms(past) : w = page.state /\ Wizard!W = w
  BY <1>1, <1>2, WzFacts
<1>4. w \in WizardStates /\ (~past.moved => PeersFit(w))
  BY FormHas DEF Coherent
<1>5. PICK d \in Drafts(past) : d = Wizard!wizardPayload(w) /\ d # NoDraft
  <2>1. PICK d \in LooseDocuments : d = Wizard!wizardPayload(w) /\ (PeersFit(w) => d \in SoundDocuments)
    BY <1>4, PayloadIs
  <2>2. d \in Drafts(past)
    BY <1>4, <2>1 DEF Drafts
  <2> QED  BY <2>1, <2>2, WzBounds
<1>6. PICK check \in BOOLEAN, mark \in BOOLEAN :
        wzSaves' = [wzSaves EXCEPT ![k] =
            [at |-> "put", doc |-> d, tree |-> page.tree, ready |-> page.ready,
             new |-> page.tree = 0, unique |-> Wizard!OnePlaceEach(w), check |-> check, mark |-> mark]]
  BY <1>2, <1>3, <1>5 DEF Wizard!saveDraft
<1>7. /\ page.open /\ ~page.saving /\ wzSaves[k] = Wizard!NoWrite
      /\ wzPage' = [page EXCEPT !.saving = TRUE] /\ UNCHANGED <<wzTrees, wzPast>>
  BY <1>2 DEF Wizard!saveDraft, Wizard!Typing
<1>8. PICK new \in BOOLEAN : new = (page.tree = 0) /\ (new => page.tree = 0) /\ (~new => page.tree # 0)
  OBVIOUS
<1>9. PICK unique \in BOOLEAN : unique = Wizard!OnePlaceEach(w)
  <2>1. Wizard!OnePlaceEach(w) \in BOOLEAN
    BY DEF Wizard!OnePlaceEach
  <2> QED  BY <2>1
<1>10. PICK c : c = [at |-> "put", doc |-> d, tree |-> page.tree, ready |-> page.ready,
                     new |-> new, unique |-> unique, check |-> check, mark |-> mark]
  OBVIOUS
<1>11. /\ c \in Writes(past) /\ c.at = "put" /\ c.doc = d /\ c.tree = page.tree /\ c.new = new
  <2>1. page.tree \in DraftRoutes /\ page.ready \in BOOLEAN
    BY DEF WizardPages
  <2>2. "put" \in WriteSteps
    BY DEF WriteSteps
  <2> QED  BY <1>10, <2>1, <2>2 DEF Writes
<1>12. wzSaves' = [wzSaves EXCEPT ![k] = c]
  BY <1>6, <1>8, <1>9, <1>10
<1>13. \A j \in 1..MaxDrafts : ~Busy(wzSaves[j])
  BY <1>2, <1>7, WizardParts DEF OneIsBusy
<1>14. PICK q : q = [page EXCEPT !.saving = TRUE]
  OBVIOUS
<1>15. /\ q \in WizardPages(past) /\ q.saving = TRUE /\ q.state = page.state /\ q.editor = page.editor
       /\ q.read = page.read /\ q.route = page.route /\ q.open = page.open /\ q.tree = page.tree
  BY <1>14 DEF WizardPages
<1>16. AddressHolds(q, wzTrees) /\ DraftHolds(q.read) /\ EditorHolds(q.state, q.editor, past)
  BY <1>2, <1>15, WzFacts DEF AddressHolds
<1>17. WriteHolds(c, wzTrees)
  <2>1. ~new => page.tree \in Used(wzTrees)
    BY <1>2, <1>8, WzFacts DEF AddressHolds
  <2> QED  BY <1>5, <1>11, <2>1 DEF WriteHolds
<1>18. c.new => Used(wzTrees) \subseteq {1} \/ wzPast.lost
  <2>1. \A j \in DOMAIN wzSaves : wzSaves[j].new => wzSaves[j].at # "saved"
    BY <1>13, WizardParts DEF Busy
  <2> QED  BY <1>2, <1>7, <1>8, <1>11, <2>1, WizardParts DEF FewTrees
<1>19. wzSaves[k].at # "saved"
  BY <1>13 DEF Busy
<1>20. wzPage' = q
  BY <1>7, <1>14
<1>21. q.open => wzPage.open /\ q.tree = wzPage.tree
  BY <1>2, <1>15
<1> QED  BY <1>1, <1>7, <1>11, <1>12, <1>13, <1>15, <1>16, <1>17, <1>18, <1>19, <1>20, <1>21, SavesMove

LEMMA DraftFailedHolds ==
  ASSUME WizardInv, NEW k \in 1..MaxDrafts, Wizard!DraftFailed(k)
  PROVE  WizardInv'
<1>1. PICK past : past = wzPast
  OBVIOUS
<1>2. PICK page \in WizardPages(past) : page = wzPage /\ EditorHolds(page.state, page.editor, past)
  BY <1>1, WzFacts
<1>3. PICK old \in Writes(past) :
        /\ old = wzSaves[k]
        /\ Busy(old) => \A j \in 1..MaxDrafts : j # k => ~Busy(wzSaves[j])
  BY <1>1, SaveIs
<1>4. PICK c : c = [Wizard!NoWrite EXCEPT !.at = "over"]
  OBVIOUS
<1>5. c \in Writes(past) /\ c.at = "over"
  BY <1>4, WzBounds DEF Wizard!NoWrite, Writes, WriteSteps, Drafts
<1>6. /\ old.at = "failed" /\ wzSaves' = [wzSaves EXCEPT ![k] = c] /\ UNCHANGED <<wzTrees, wzPast>>
      /\ wzPage' = IF page.open THEN [page EXCEPT !.saving = FALSE] ELSE page
  BY <1>2, <1>3, <1>4 DEF Wizard!DraftFailed, Wizard!Over
<1>7. PICK q : q = IF page.open THEN [page EXCEPT !.saving = FALSE] ELSE page
  OBVIOUS
<1>8. /\ q \in WizardPages(past) /\ q.state = page.state /\ q.editor = page.editor
      /\ q.read = page.read /\ q.route = page.route /\ q.open = page.open /\ q.tree = page.tree
  BY <1>7 DEF WizardPages
<1>9. AddressHolds(q, wzTrees) /\ DraftHolds(q.read) /\ EditorHolds(q.state, q.editor, past)
  BY <1>2, <1>8, WzFacts DEF AddressHolds
<1>10. ~Busy(c) /\ \A j \in 1..MaxDrafts : j # k => ~Busy(wzSaves[j])
  BY <1>3, <1>5, <1>6 DEF Busy
<1>11. WriteHolds(c, wzTrees) /\ ~(c.at \in {"put", "failed"})
  BY <1>5 DEF WriteHolds
<1>12. wzPage' = q /\ wzSaves[k].at # "saved" /\ (q.open => wzPage.open /\ q.tree = wzPage.tree)
  BY <1>2, <1>3, <1>6, <1>7, <1>8
<1> QED  BY <1>1, <1>5, <1>6, <1>8, <1>9, <1>10, <1>11, <1>12, SavesMove

LEMMA WizardValidatedHolds ==
  ASSUME WizardInv, NEW k \in 1..MaxDrafts, Wizard!WizardValidated(k)
  PROVE  WizardInv'
<1>1. PICK past : past = wzPast
  OBVIOUS
<1>2. PICK page \in WizardPages(past) : page = wzPage /\ EditorHolds(page.state, page.editor, past)
  BY <1>1, WzFacts
<1>3. PICK old \in Writes(past) : old = wzSaves[k]
  BY <1>1, SaveIs
<1>4. PICK c : c = [Wizard!NoWrite EXCEPT !.at = "over"]
  OBVIOUS
<1>5. c \in Writes(past) /\ c.at = "over"
  BY <1>4, WzBounds DEF Wizard!NoWrite, Writes, WriteSteps, Drafts
<1>6. /\ old.at \in {"valid", "invalid", "none"} /\ wzSaves' = [wzSaves EXCEPT ![k] = c]
      /\ UNCHANGED <<wzTrees, wzPast>>
      /\ wzPage' = IF old.at = "valid" /\ old.mark THEN Wizard!LeftWizard
                   ELSE IF ~page.open \/ old.at = "none" THEN page
                   ELSE [page EXCEPT !.verdict = old.at, !.runnable = @ \/ old.at = "valid"]
  BY <1>2, <1>3, <1>4 DEF Wizard!WizardValidated, Wizard!Over
<1>7. PICK q \in WizardPages(past) :
        /\ wzPage' = q /\ AddressHolds(q, wzTrees) /\ DraftHolds(q.read)
        /\ EditorHolds(q.state, q.editor, past)
        /\ q.open => page.open /\ q.tree = page.tree /\ q.saving = page.saving
  <2>1. CASE wzPage' = Wizard!LeftWizard
    <3>1. PICK q \in WizardPages(past) :
            /\ q = Wizard!LeftWizard /\ DraftHolds(q.read) /\ EditorHolds(q.state, q.editor, past)
            /\ q.open = FALSE /\ q.tree = 0 /\ q.route = 0 /\ q.read = Wizard!NoTreeRow
      BY LeftWizardHolds
    <3>2. AddressHolds(q, wzTrees)
      BY <3>1 DEF AddressHolds
    <3> QED  BY <2>1, <3>1, <3>2
  <2>2. CASE wzPage' = page
    BY <1>2, <2>2, WzFacts
  <2>3. CASE old.at # "none" /\ wzPage' = [page EXCEPT !.verdict = old.at, !.runnable = @ \/ old.at = "valid"]
    <3>1. PICK m \in BOOLEAN : m = (page.runnable \/ old.at = "valid")
      OBVIOUS
    <3>2. PICK q : q = [page EXCEPT !.verdict = old.at, !.runnable = m]
      OBVIOUS
    <3>3. /\ q \in WizardPages(past) /\ q.state = page.state /\ q.editor = page.editor
          /\ q.read = page.read /\ q.route = page.route /\ q.open = page.open /\ q.tree = page.tree
          /\ q.saving = page.saving
      BY <1>6, <2>3, <3>2 DEF WizardPages, Verdicts
    <3>4. wzPage' = q
      BY <2>3, <3>1, <3>2
    <3>5. AddressHolds(q, wzTrees) /\ DraftHolds(q.read) /\ EditorHolds(q.state, q.editor, past)
      BY <1>2, <3>3, WzFacts DEF AddressHolds
    <3> QED  BY <3>3, <3>4, <3>5
  <2> QED  BY <1>6, <2>1, <2>2, <2>3
<1>8. ~Busy(c) /\ WriteHolds(c, wzTrees) /\ ~(c.at \in {"put", "failed"})
  BY <1>5 DEF Busy, WriteHolds
<1>9. wzSaves[k].at # "saved" /\ (q.open => wzPage.open /\ q.tree = wzPage.tree)
  BY <1>2, <1>3, <1>6, <1>7
<1>10. q.open /\ (\E j \in 1..MaxDrafts : j # k /\ Busy(wzSaves[j])) => q.saving
  BY <1>2, <1>7, WizardParts DEF OneIsBusy
<1> QED  BY <1>1, <1>5, <1>6, <1>7, <1>8, <1>9, <1>10, SavesMove

-----------------------------------------------------------------------------
(* The server, and what its answers change.                                *)

\* A Tree that gets another document or mark.
LEMMA TreesTurn ==
  ASSUME WizardInv, NEW past, past = wzPast, NEW t \in Wizard!DraftIds,
         NEW row \in DraftRows(past), row.doc # NoDraft
  PROVE  \E trees \in DraftTables(past) :
           /\ trees = [wzTrees EXCEPT ![t] = row]
           /\ \A u \in Wizard!DraftIds : DraftHolds(trees[u])
           /\ Used(trees) = Used(wzTrees) \union {t}
<1>1. PICK old \in DraftTables(past) :
        old = wzTrees /\ \A u \in Wizard!DraftIds : DraftHolds(old[u])
  BY WizardParts
<1>2. PICK trees : trees = [old EXCEPT ![t] = row]
  OBVIOUS
<1>3. /\ trees \in DraftTables(past) /\ trees[t] = row
      /\ \A u \in Wizard!DraftIds : u # t => trees[u] = old[u]
  BY <1>2 DEF DraftTables
<1>4. DraftHolds(row) /\ row # Wizard!NoTreeRow
  BY DEF DraftHolds, Wizard!NoTreeRow
<1>5. \A u \in Wizard!DraftIds : DraftHolds(trees[u])
  BY <1>1, <1>3, <1>4
<1>6. Used(trees) = Used(old) \union {t}
  BY <1>3, <1>4 DEF Used
<1> QED  BY <1>1, <1>2, <1>3, <1>5, <1>6

LEMMA WizardPutHolds ==
  ASSUME WizardInv, NEW k \in 1..MaxDrafts, Wizard!WizardPut(k)
  PROVE  WizardInv'
<1>1. PICK past \in Pasts : past = wzPast
  BY WizardParts
<1>2. PICK page \in WizardPages(past) :
        /\ page = wzPage /\ EditorHolds(page.state, page.editor, past) /\ DraftHolds(page.read)
        /\ AddressHolds(page, wzTrees)
  BY <1>1, WzFacts
<1>3. PICK c \in Writes(past) :
        /\ c = wzSaves[k] /\ WriteHolds(c, wzTrees)
        /\ c.doc \in Drafts(past) /\ c.tree \in DraftRoutes /\ c.new \in BOOLEAN
        /\ Busy(c) => \A j \in 1..MaxDrafts : j # k => ~Busy(wzSaves[j])
  BY <1>1, SaveIs
<1>4. c.at = "put" /\ wzPage' = page
  BY <1>2, <1>3 DEF Wizard!WizardPut, Wizard!WzMoves
<1>5. /\ Busy(c) /\ c.doc # NoDraft /\ \A j \in 1..MaxDrafts : j # k => ~Busy(wzSaves[j])
      /\ page.open => page.saving
  BY <1>2, <1>3, <1>4, WizardParts DEF Busy, WriteHolds, OneIsBusy
<1>6. PICK f : f = [c EXCEPT !.at = "failed"]
  OBVIOUS
<1>7. f \in Writes(past) /\ f.at = "failed" /\ f.new = c.new /\ f.doc = c.doc
  BY <1>6 DEF Writes, WriteSteps
<1>8. CASE wzSaves' = [wzSaves EXCEPT ![k] = f] /\ UNCHANGED <<wzTrees, wzPast>>
  <2>1. WriteHolds(f, wzTrees)
    BY <1>7 DEF WriteHolds
  <2>2. f.new /\ f.at \in {"put", "failed"} => Used(wzTrees) \subseteq {1} \/ wzPast.lost
    BY <1>3, <1>4, <1>7, WizardParts DEF FewTrees
  <2>3. wzSaves[k].at # "saved"
    BY <1>3, <1>4
  <2>4. page.open => wzPage.open /\ page.tree = wzPage.tree
    BY <1>2
  <2> QED  BY <1>1, <1>2, <1>4, <1>5, <1>7, <1>8, <2>1, <2>2, <2>3, <2>4, SavesMove
<1>9. ASSUME NEW t \in Wizard!DraftIds, c.new \/ t \in Used(wzTrees),
             wzTrees' = [wzTrees EXCEPT ![t].doc = c.doc],
             NEW s, NEW later \in Pasts, wzSaves' = [wzSaves EXCEPT ![k] = s], wzPast' = later,
             \/ s = [c EXCEPT !.at = "saved", !.tree = t] /\ later = past
             \/ /\ s = f /\ later.moved = past.moved
                /\ ~later.lost => ~past.lost /\ ~c.new
      PROVE  WizardInv'
  <2>1. PICK was \in DraftRows(past) : was = wzTrees[t]
    BY <1>1, WizardParts DEF DraftTables
  <2>2. PICK row : row = [was EXCEPT !.doc = c.doc]
    OBVIOUS
  <2>3. row \in DraftRows(past) /\ row.doc # NoDraft
    BY <1>3, <1>5, <2>2 DEF DraftRows
  <2>4. PICK trees \in DraftTables(past) :
          /\ trees = [wzTrees EXCEPT ![t] = row]
          /\ \A u \in Wizard!DraftIds : DraftHolds(trees[u])
          /\ Used(trees) = Used(wzTrees) \union {t}
    BY <1>1, <2>3, TreesTurn
  <2>5. wzTrees' = trees
    BY <1>9, <2>1, <2>2, <2>4
  <2>6. /\ s \in Writes(past) /\ s.at \in {"saved", "failed"} /\ s.doc = c.doc /\ s.new = c.new
        /\ s.at = "saved" => s.tree = t
        /\ ~later.lost => ~past.lost /\ (s.at = "failed" => ~c.new)
    <3>1. CASE s = f /\ later.moved = past.moved /\ (~later.lost => ~past.lost /\ ~c.new)
      BY <1>7, <3>1
    <3>2. CASE s = [c EXCEPT !.at = "saved", !.tree = t] /\ later = past
      <4>1. t \in DraftRoutes
        BY WzBounds
      <4> QED  BY <3>2, <4>1 DEF Writes, WriteSteps
    <3> QED  BY <1>9, <3>1, <3>2
  <2>7. WriteHolds(s, trees)
    BY <1>5, <2>4, <2>6 DEF WriteHolds
  <2>8. later.moved = past.moved
    BY <1>9
  <2>9. /\ trees \in DraftTables(later) /\ s \in Writes(later) /\ page \in WizardPages(later)
        /\ EditorHolds(page.state, page.editor, later) /\ (wzPast.moved => later.moved)
    BY <1>1, <1>2, <2>6, <2>8, MovedAllowsMore
  <2>10. PICK saves \in SaveLists(later) :
           /\ saves = [wzSaves EXCEPT ![k] = s] /\ saves[k] = s /\ DOMAIN saves = 1..MaxDrafts
           /\ \A j \in 1..MaxDrafts : j # k => saves[j] = wzSaves[j]
           /\ \A j \in 1..MaxDrafts : WriteHolds(saves[j], trees)
    <3>1. Used(wzTrees) \subseteq Used(trees)
      BY <2>4
    <3> QED  BY <2>7, <2>9, <3>1, SavesTurn
  <2>11. AddressHolds(page, trees)
    BY <1>2, <2>4 DEF AddressHolds
  <2>12. \A j \in 1..MaxDrafts : j # k => ~Busy(saves[j])
    BY <1>5, <2>10
  <2>13. OneIsBusy(page, saves)
    BY <1>5, <2>10, <2>12 DEF OneIsBusy
  <2>14. ASSUME ~later.lost
         PROVE  FewTrees(page, saves, trees)
    <3>1. FewTrees(page, wzSaves, wzTrees)
      BY <1>1, <1>2, <2>6, <2>14, WizardParts
    <3>2. c.new => Used(wzTrees) \subseteq {1}
      BY <1>3, <1>4, <3>1, WizardParts DEF FewTrees
    <3>3. ~c.new => Used(trees) = Used(wzTrees)
      BY <1>9, <2>4
    <3>4. \E x \in Wizard!DraftIds : Used(trees) \subseteq {1, x}
      BY <2>4, <3>1, <3>2, <3>3 DEF FewTrees
    <3>5. \A j \in 1..MaxDrafts : ~(saves[j].new /\ saves[j].at \in {"put", "failed"})
      BY <2>6, <2>10, <2>12, <2>14 DEF Busy
    <3>6. ASSUME page.open, page.tree = 0, \A j \in 1..MaxDrafts : saves[j].new => saves[j].at # "saved"
          PROVE  Used(trees) \subseteq {1}
      <4>1. ~c.new
        BY <2>6, <2>10, <2>14, <3>6
      <4>2. \A j \in 1..MaxDrafts : wzSaves[j].new => wzSaves[j].at # "saved"
        BY <1>3, <1>4, <2>10, <3>6
      <4> QED  BY <3>1, <3>3, <3>6, <4>1, <4>2, WizardParts DEF FewTrees
    <3> QED  BY <2>10, <3>4, <3>5, <3>6 DEF FewTrees
  <2>15. wzSaves' = saves
    BY <1>9, <2>10
  <2> QED  BY <1>2, <1>4, <1>9, <2>4, <2>5, <2>9, <2>10, <2>11, <2>13, <2>14, <2>15, WizardMakes
<1>10. CASE \E t \in IF c.new THEN Wizard!FirstDraft ELSE {c.tree} :
             /\ wzTrees' = [wzTrees EXCEPT ![t].doc = c.doc]
             /\ \/ /\ wzSaves' = [wzSaves EXCEPT ![k] = [c EXCEPT !.at = "saved", !.tree = t]]
                   /\ wzPast' = past
                \/ /\ wzSaves' = [wzSaves EXCEPT ![k] = f]
                   /\ wzPast' = [past EXCEPT !.lost = @ \/ c.new]
  <2>1. PICK t \in Wizard!DraftIds :
             /\ c.new \/ t \in Used(wzTrees)
             /\ wzTrees' = [wzTrees EXCEPT ![t].doc = c.doc]
             /\ \/ /\ wzSaves' = [wzSaves EXCEPT ![k] = [c EXCEPT !.at = "saved", !.tree = t]]
                   /\ wzPast' = past
                \/ /\ wzSaves' = [wzSaves EXCEPT ![k] = f]
                   /\ wzPast' = [past EXCEPT !.lost = @ \/ c.new]
    <3>1. \A t : t \in (IF c.new THEN Wizard!FirstDraft ELSE {c.tree}) =>
                   t \in Wizard!DraftIds /\ (c.new \/ t \in Used(wzTrees))
      BY <1>3, <1>4 DEF Wizard!FirstDraft, WriteHolds, Used
    <3> QED  BY <1>10, <3>1
  <2>2. CASE /\ wzSaves' = [wzSaves EXCEPT ![k] = [c EXCEPT !.at = "saved", !.tree = t]]
             /\ wzPast' = past
    BY <1>9, <2>1, <2>2
  <2>3. CASE /\ wzSaves' = [wzSaves EXCEPT ![k] = f]
             /\ wzPast' = [past EXCEPT !.lost = @ \/ c.new]
    <3>1. PICK m \in BOOLEAN : m = (past.lost \/ c.new) /\ (~m => ~past.lost /\ ~c.new)
      OBVIOUS
    <3>2. PICK later : later = [past EXCEPT !.lost = m]
      OBVIOUS
    <3>3. later \in Pasts /\ later.moved = past.moved /\ later.lost = m
      BY <3>2 DEF Pasts
    <3>4. wzPast' = later
      BY <2>3, <3>1, <3>2
    <3> QED  BY <1>9, <2>1, <2>3, <3>1, <3>3, <3>4
  <2> QED  BY <2>1, <2>2, <2>3
<1> QED
  <2>1. \/ wzSaves' = [wzSaves EXCEPT ![k] = f] /\ UNCHANGED <<wzTrees, wzPast>>
        \/ \E t \in IF c.new THEN Wizard!FirstDraft ELSE {c.tree} :
             /\ wzTrees' = [wzTrees EXCEPT ![t].doc = c.doc]
             /\ \/ /\ wzSaves' = [wzSaves EXCEPT ![k] = [c EXCEPT !.at = "saved", !.tree = t]]
                   /\ wzPast' = past
                \/ /\ wzSaves' = [wzSaves EXCEPT ![k] = f]
                   /\ wzPast' = [past EXCEPT !.lost = @ \/ c.new]
    BY <1>1, <1>3, <1>6 DEF Wizard!WizardPut, Wizard!WzMoves
  <2> QED  BY <1>8, <1>10, <2>1

LEMMA WizardValidatesHolds ==
  ASSUME WizardInv, NEW k \in 1..MaxDrafts, Wizard!WizardValidates(k)
  PROVE  WizardInv'
<1>1. PICK past \in Pasts : past = wzPast
  BY WizardParts
<1>2. PICK page \in WizardPages(past) :
        /\ page = wzPage /\ EditorHolds(page.state, page.editor, past) /\ DraftHolds(page.read)
        /\ AddressHolds(page, wzTrees)
  BY <1>1, WzFacts
<1>3. PICK c \in Writes(past) :
        c = wzSaves[k] /\ WriteHolds(c, wzTrees) /\ c.tree \in DraftRoutes
  BY <1>1, SaveIs
<1>4. PICK answer \in {"valid", "invalid", "none"} :
        wzSaves' = [wzSaves EXCEPT ![k] = [c EXCEPT !.at = answer]]
  BY <1>3 DEF Wizard!WizardValidates, Wizard!WzMoves
<1>5. /\ c.at = "validate" /\ wzPage' = page /\ wzPast' = past
      /\ wzTrees' = wzTrees \/ wzTrees' = [wzTrees EXCEPT ![c.tree].ready = TRUE]
  BY <1>1, <1>2, <1>3 DEF Wizard!WizardValidates, Wizard!WzMoves
<1>6. c.tree \in Wizard!DraftIds /\ c.tree \in Used(wzTrees)
  BY <1>3, <1>5 DEF WriteHolds, Used
<1>7. PICK s : s = [c EXCEPT !.at = answer]
  OBVIOUS
<1>8. s \in Writes(past) /\ s.at = answer
  BY <1>7 DEF Writes, WriteSteps
<1>9. PICK trees \in DraftTables(past) :
        /\ wzTrees' = trees /\ Used(trees) = Used(wzTrees)
        /\ \A u \in Wizard!DraftIds : DraftHolds(trees[u])
  <2>1. CASE wzTrees' = wzTrees
    BY <1>1, <2>1, WizardParts
  <2>2. CASE wzTrees' = [wzTrees EXCEPT ![c.tree].ready = TRUE]
    <3>1. PICK was \in DraftRows(past) : was = wzTrees[c.tree] /\ was # Wizard!NoTreeRow /\ DraftHolds(was)
      BY <1>1, <1>6, WizardParts DEF DraftTables, Used
    <3>2. PICK row : row = [was EXCEPT !.ready = TRUE]
      OBVIOUS
    <3>3. row \in DraftRows(past) /\ row.doc # NoDraft
      BY <3>1, <3>2 DEF DraftRows, DraftHolds
    <3>4. PICK trees \in DraftTables(past) :
            /\ trees = [wzTrees EXCEPT ![c.tree] = row]
            /\ \A u \in Wizard!DraftIds : DraftHolds(trees[u])
            /\ Used(trees) = Used(wzTrees) \union {c.tree}
      BY <1>1, <1>6, <3>3, TreesTurn
    <3>5. wzTrees' = trees
      BY <2>2, <3>1, <3>2, <3>4
    <3> QED  BY <1>6, <3>4, <3>5
  <2> QED  BY <1>5, <2>1, <2>2
<1>10. PICK saves \in SaveLists(past) :
         /\ saves = [wzSaves EXCEPT ![k] = s] /\ saves[k] = s /\ DOMAIN saves = 1..MaxDrafts
         /\ \A j \in 1..MaxDrafts : j # k => saves[j] = wzSaves[j]
         /\ \A j \in 1..MaxDrafts : WriteHolds(saves[j], trees)
  <2>1. Used(wzTrees) \subseteq Used(trees) /\ WriteHolds(s, trees)
    BY <1>8, <1>9 DEF WriteHolds
  <2> QED  BY <1>1, <1>8, <2>1, SavesTurn
<1>11. AddressHolds(page, trees)
  BY <1>2, <1>9 DEF AddressHolds
<1>12. ~Busy(s)
  BY <1>8 DEF Busy
<1>13. OneIsBusy(page, saves)
  BY <1>2, <1>10, <1>12, WizardParts DEF OneIsBusy
<1>14. ASSUME ~past.lost
       PROVE  FewTrees(page, saves, trees)
  <2>1. FewTrees(page, wzSaves, wzTrees)
    BY <1>1, <1>2, <1>14, WizardParts
  <2>2. \A j \in 1..MaxDrafts : saves[j].new /\ saves[j].at \in {"put", "failed"} => Used(trees) \subseteq {1}
    BY <1>8, <1>9, <1>10, <2>1, WizardParts DEF FewTrees
  <2>3. ASSUME page.open, page.tree = 0, \A j \in 1..MaxDrafts : saves[j].new => saves[j].at # "saved"
        PROVE  Used(trees) \subseteq {1}
    <3>1. \A j \in 1..MaxDrafts : wzSaves[j].new => wzSaves[j].at # "saved"
      BY <1>3, <1>5, <1>10, <2>3
    <3> QED  BY <1>9, <2>1, <2>3, <3>1, WizardParts DEF FewTrees
  <2> QED  BY <1>9, <1>10, <2>1, <2>2, <2>3 DEF FewTrees
<1>15. wzSaves' = saves
  BY <1>4, <1>7, <1>10
<1> QED  BY <1>2, <1>5, <1>9, <1>10, <1>11, <1>13, <1>14, <1>15, WizardMakes

-----------------------------------------------------------------------------
(* The answer to a save, and the whole wizard.                             *)

LEMMA DraftSavedHolds ==
  ASSUME WizardInv, NEW k \in 1..MaxDrafts, Wizard!DraftSaved(k)
  PROVE  WizardInv'
<1>1. PICK past \in Pasts : past = wzPast
  BY WizardParts
<1>2. PICK page \in WizardPages(past) :
        /\ page = wzPage /\ EditorHolds(page.state, page.editor, past) /\ DraftHolds(page.read)
        /\ AddressHolds(page, wzTrees)
  BY <1>1, WzFacts
<1>3. PICK c \in Writes(past) :
        /\ c = wzSaves[k] /\ WriteHolds(c, wzTrees)
        /\ c.doc \in Drafts(past) /\ c.tree \in DraftRoutes /\ c.ready \in BOOLEAN
        /\ c.new \in BOOLEAN /\ c.check \in BOOLEAN
        /\ Busy(c) => \A j \in 1..MaxDrafts : j # k => ~Busy(wzSaves[j])
  BY <1>1, SaveIs
<1>4. PICK s : s = IF c.check THEN [c EXCEPT !.at = "validate"] ELSE [Wizard!NoWrite EXCEPT !.at = "over"]
  OBVIOUS
<1> DEFINE kept == [page EXCEPT !.tree = c.tree, !.dirty = FALSE, !.saving = FALSE,
                                !.state = IF c.ready THEN Wizard!wizardFromTree(c.doc) ELSE @]
<1>5. /\ c.at = "saved" /\ wzTrees' = wzTrees /\ wzSaves' = [wzSaves EXCEPT ![k] = s]
      /\ wzPast' = [past EXCEPT !.moved = @ \/ (c.ready /\ page.editor # Wizard!NoEditor)]
  <2>1. c.at = "saved" /\ wzTrees' = wzTrees
        /\ wzPast' = [past EXCEPT !.moved = @ \/ (c.ready /\ page.editor # Wizard!NoEditor)]
    BY <1>1, <1>2, <1>3 DEF Wizard!DraftSaved, Wizard!Over
  <2>2. CASE c.check
    <3>1. Wizard!Over(k, "validate")
      BY <1>3, <2>2 DEF Wizard!DraftSaved
    <3>2. s = [wzSaves[k] EXCEPT !.at = "validate"]
      BY <1>3, <1>4, <2>2
    <3> QED  BY <2>1, <3>1, <3>2 DEF Wizard!Over
  <2>3. CASE ~c.check
    <3>1. Wizard!Over(k, "over")
      BY <1>3, <2>3 DEF Wizard!DraftSaved
    <3>2. s = [Wizard!NoWrite EXCEPT !.at = "over"]
      BY <1>4, <2>3
    <3> QED  BY <2>1, <3>1, <3>2 DEF Wizard!Over
  <2> QED  BY <2>2, <2>3
<1>6. wzPage' = IF ~page.open THEN IF c.new THEN Wizard!FreshWizard(c.tree) ELSE page
                ELSE IF c.new THEN [kept EXCEPT !.route = c.tree, !.load = "asked"] ELSE kept
  BY <1>2, <1>3 DEF Wizard!DraftSaved
<1>7. PICK m \in BOOLEAN : /\ m = (past.moved \/ (c.ready /\ page.editor # Wizard!NoEditor))
                           /\ past.moved => m
                           /\ c.ready /\ page.editor # Wizard!NoEditor => m
  OBVIOUS
<1>8. PICK later : later = [past EXCEPT !.moved = m]
  OBVIOUS
<1>9. later \in Pasts /\ later.lost = past.lost /\ later.moved = m /\ (past.moved => later.moved)
  BY <1>7, <1>8 DEF Pasts
<1>10. wzPast' = later
  BY <1>5, <1>7, <1>8
<1>11. c.tree \in Wizard!DraftIds /\ c.tree \in Used(wzTrees) /\ c.tree # 0 /\ c.doc # NoDraft
  BY <1>3, <1>5, WzBounds DEF WriteHolds, Used
<1>12. /\ s \in Writes(past) /\ s.at \in {"validate", "over"} /\ WriteHolds(s, wzTrees)
  <2>1. CASE c.check
    <3>1. s \in Writes(past) /\ s.at = "validate" /\ s.tree = c.tree
      BY <1>4, <2>1 DEF Writes, WriteSteps
    <3> QED  BY <1>11, <3>1 DEF WriteHolds
  <2>2. CASE ~c.check
    <3>1. s \in Writes(past) /\ s.at = "over"
      BY <1>4, <2>2, WzBounds DEF Wizard!NoWrite, Writes, WriteSteps, Drafts
    <3> QED  BY <3>1 DEF WriteHolds
  <2> QED  BY <2>1, <2>2
<1>13. \A j \in 1..MaxDrafts : j # k => ~Busy(wzSaves[j])
  BY <1>3, <1>5 DEF Busy
<1>14. page \in WizardPages(later) /\ s \in Writes(later)
  BY <1>1, <1>9, <1>12, MovedAllowsMore
<1>15. PICK trees \in DraftTables(later) :
         trees = wzTrees /\ \A t \in Wizard!DraftIds : DraftHolds(trees[t])
  BY <1>1, <1>9, MovedAllowsMore, WizardParts
<1>16. PICK saves \in SaveLists(later) :
         /\ saves = [wzSaves EXCEPT ![k] = s] /\ saves[k] = s /\ DOMAIN saves = 1..MaxDrafts
         /\ \A j \in 1..MaxDrafts : j # k => saves[j] = wzSaves[j]
         /\ \A j \in 1..MaxDrafts : WriteHolds(saves[j], trees)
  <2>1. Used(wzTrees) \subseteq Used(trees) /\ WriteHolds(s, trees)
    BY <1>12, <1>15
  <2>2. s \in Writes(later) /\ (wzPast.moved => later.moved)
    BY <1>1, <1>9, <1>12, MovedAllowsMore
  <2> QED  BY <2>1, <2>2, SavesTurn
<1>17. \A j \in 1..MaxDrafts : ~Busy(saves[j])
  BY <1>12, <1>13, <1>16 DEF Busy
<1>18. PICK q \in WizardPages(later) :
         /\ wzPage' = q /\ DraftHolds(q.read) /\ EditorHolds(q.state, q.editor, later)
         /\ AddressHolds(q, wzTrees) /\ (q.open => q.tree # 0)
  <2>1. CASE ~page.open /\ c.new
    <3>1. PICK q \in WizardPages(later) :
            /\ q = Wizard!FreshWizard(c.tree) /\ DraftHolds(q.read) /\ EditorHolds(q.state, q.editor, later)
            /\ q.open = TRUE /\ q.tree = c.tree /\ q.route = c.tree /\ q.read = Wizard!NoTreeRow
      BY <1>3, FreshWizardHolds
    <3>2. AddressHolds(q, wzTrees)
      BY <1>11, <3>1 DEF AddressHolds
    <3>3. wzPage' = q
      BY <1>6, <2>1, <3>1
    <3> QED  BY <1>11, <3>1, <3>2, <3>3
  <2>2. CASE ~page.open /\ ~c.new
    <3>1. wzPage' = page /\ EditorHolds(page.state, page.editor, later)
      BY <1>2, <1>6, <1>9, <2>2, MovedAllowsMore
    <3>2. DraftHolds(page.read) /\ AddressHolds(page, wzTrees)
      BY <1>2
    <3>3. page \in WizardPages(later) /\ (page.open => page.tree # 0)
      BY <1>14, <2>2
    <3> QED  BY <3>1, <3>2, <3>3
  <2>3. CASE page.open
    <3>1. PICK w \in WizardForms(later) :
            w = IF c.ready THEN Wizard!wizardFromTree(c.doc) ELSE page.state
      <4>1. page.state \in WizardForms(past)
        BY DEF WizardPages
      <4>2. Wizard!wizardFromTree(c.doc) \in WizardForms(past)
        BY <1>3, <1>11, DraftIs
      <4> QED  BY <1>9, <4>1, <4>2, MovedAllowsMore
    <3>2. EditorHolds(w, page.editor, later)
      <4>1. CASE ~c.ready
        BY <1>2, <1>9, <3>1, <4>1, MovedAllowsMore
      <4>2. CASE c.ready /\ page.editor = Wizard!NoEditor
        BY <4>2, NoEditorHolds
      <4>3. CASE c.ready /\ page.editor # Wizard!NoEditor
        BY <1>2, <1>7, <1>9, <4>3 DEF EditorHolds
      <4> QED  BY <1>3, <4>1, <4>2, <4>3
    <3>3. PICK stay : stay = [page EXCEPT !.tree = c.tree, !.dirty = FALSE, !.saving = FALSE, !.state = w]
      OBVIOUS
    <3>4. stay = kept
      BY <3>1, <3>3
    <3>5. /\ stay \in WizardPages(later) /\ stay.state = w /\ stay.editor = page.editor
          /\ stay.read = page.read /\ stay.route = page.route /\ stay.tree = c.tree
      <4>1. stay \in WizardPages(later)
        BY <1>3, <1>14, <3>1, <3>3 DEF WizardPages
      <4> QED  BY <3>3, <4>1 DEF WizardPages
    <3>6. CASE ~c.new
      <4>1. wzPage' = stay
        BY <1>6, <2>3, <3>4, <3>6
      <4>2. AddressHolds(stay, wzTrees)
        BY <1>2, <1>11, <3>5 DEF AddressHolds
      <4> QED  BY <1>2, <1>11, <3>2, <3>5, <4>1, <4>2
    <3>7. CASE c.new
      <4>1. PICK q : q = [stay EXCEPT !.route = c.tree, !.load = "asked"]
        OBVIOUS
      <4>2. /\ q \in WizardPages(later) /\ q.state = w /\ q.editor = page.editor
            /\ q.read = page.read /\ q.route = c.tree /\ q.tree = c.tree
        <5>1. q \in WizardPages(later)
          BY <1>3, <3>5, <4>1 DEF WizardPages, Loads
        <5> QED  BY <3>5, <4>1, <5>1 DEF WizardPages
      <4>3. wzPage' = q
        BY <1>6, <2>3, <3>4, <3>7, <4>1
      <4>4. AddressHolds(q, wzTrees)
        BY <1>11, <4>2 DEF AddressHolds
      <4> QED  BY <1>2, <1>11, <3>2, <4>2, <4>3, <4>4
    <3> QED  BY <3>6, <3>7
  <2> QED  BY <2>1, <2>2, <2>3
<1>19. OneIsBusy(q, saves)
  BY <1>16, <1>17 DEF OneIsBusy
<1>20. ~later.lost => FewTrees(q, saves, trees)
  <2>1. ~later.lost => FewTrees(page, wzSaves, wzTrees)
    BY <1>1, <1>2, <1>9, WizardParts
  <2>2. \A j \in 1..MaxDrafts : saves[j].at \notin {"put", "failed"}
    BY <1>17 DEF Busy
  <2> QED  BY <1>15, <1>16, <1>18, <2>1, <2>2 DEF FewTrees
<1>21. AddressHolds(q, trees) /\ wzTrees' = trees /\ wzSaves' = saves
  BY <1>5, <1>15, <1>16, <1>18
<1> QED  BY <1>9, <1>10, <1>15, <1>16, <1>18, <1>19, <1>20, <1>21, WizardMakes

-----------------------------------------------------------------------------

LEMMA WizardStands ==
  ASSUME WizardInv, UNCHANGED wizard
  PROVE  WizardInv'
<1>1. PICK past : past = wzPast
  OBVIOUS
<1>2. PICK q \in WizardPages(past) : q = wzPage
  BY <1>1, WizardParts
<1>3. wzPage' = q /\ UNCHANGED <<wzTrees, wzSaves, wzPast>>
  BY <1>2 DEF wizard
<1>4. EditorHolds(q.state, q.editor, past)
  BY <1>1, <1>2, WzFacts
<1> QED  BY <1>1, <1>2, <1>3, <1>4, WzLookMoves

LEMMA WizardStep ==
  ASSUME WizardInv, Wizard!TreeWizardNext \/ UNCHANGED wizard
  PROVE  WizardInv'
<1>1. CASE UNCHANGED wizard
  BY <1>1, WizardStands
<1>2. CASE Wizard!WizardReads \/ Wizard!WizardLoaded
  BY <1>2, WizardReadsHolds, WizardLoadedHolds
<1>3. CASE Wizard!GeneralStep \/ Wizard!deleteManager \/ Wizard!choosePeer
  BY <1>3, GeneralStepHolds, DeleteManagerHolds, ChoosePeerHolds
<1>4. CASE Wizard!deleteSpecialist \/ Wizard!ToolsStep
  BY <1>4, DeleteSpecialistHolds, ToolsStepHolds
<1>5. CASE Wizard!openEditor \/ Wizard!closeEditor \/ Wizard!saveEditor
  BY <1>5, OpenEditorHolds, CloseEditorHolds, SaveEditorHolds
<1>6. CASE \E k \in 1..MaxDrafts : \/ Wizard!saveDraft(k) \/ Wizard!WizardPut(k) \/ Wizard!DraftSaved(k)
                                   \/ Wizard!DraftFailed(k) \/ Wizard!WizardValidates(k)
                                   \/ Wizard!WizardValidated(k)
  <2>1. PICK k \in 1..MaxDrafts :
          \/ Wizard!saveDraft(k) \/ Wizard!WizardPut(k) \/ Wizard!DraftSaved(k)
          \/ Wizard!DraftFailed(k) \/ Wizard!WizardValidates(k) \/ Wizard!WizardValidated(k)
    BY <1>6
  <2>2. CASE Wizard!saveDraft(k) \/ Wizard!WizardPut(k) \/ Wizard!DraftSaved(k)
    BY <2>2, saveDraftHolds, WizardPutHolds, DraftSavedHolds
  <2>3. CASE Wizard!DraftFailed(k) \/ Wizard!WizardValidates(k) \/ Wizard!WizardValidated(k)
    BY <2>3, DraftFailedHolds, WizardValidatesHolds, WizardValidatedHolds
  <2> QED  BY <2>1, <2>2, <2>3
<1>7. CASE Wizard!cancel
  BY <1>7, CancelHolds
<1> QED  BY <1>1, <1>2, <1>3, <1>4, <1>5, <1>6, <1>7 DEF Wizard!TreeWizardNext

-----------------------------------------------------------------------------
(* How the wizard begins, and what it keeps to.                            *)

LEMMA WizardStoredIsSound == Wizard!WizardStored \in SoundDocuments
<1> DEFINE root == Wizard!Min(Roots)
           A == {root} \union Managers \union Specialists
           parent == [a \in A |->
             CASE a \in Roots -> Nobody [] a \in Managers -> root
               [] a = Wizard!Min(Specialists) -> Wizard!Min(Managers) [] OTHER -> Nobody]
           peers == {p \in Managers \X Managers : p[1] < p[2]}
           bound == Specialists \X Tools
<1>1. root \in Roots /\ Wizard!Min(Managers) \in Managers /\ Wizard!Min(Specialists) \in Specialists
  BY LeastIsMember, WizardWords
<1>2. \A a \in A : \/ a \in Roots /\ a = root /\ parent[a] = Nobody
                   \/ a \in Managers /\ parent[a] = root
                   \/ a \in Specialists /\ parent[a] = Wizard!Min(Managers)
                   \/ a \in Specialists /\ parent[a] = Nobody
  BY <1>1, Roles
<1>3. parent \in [A -> A \union {Nobody}]
  BY <1>1, <1>2
<1>4. parent \in Parents(A)
  BY <1>1, <1>2, <1>3 DEF Parents, MayLead
<1>5. A \in SUBSET Agents /\ \A x, y \in Roots \cap A : x = y
  BY <1>1, Roles
<1>6. /\ Wizard!WizardStored.named \in BOOLEAN
      /\ Wizard!WizardStored = [named |-> Wizard!WizardStored.named, parent |-> parent,
                                peers |-> peers, tools |-> bound]
  <2>1. Wizard!WizardStored = [named |-> TRUE, parent |-> parent, peers |-> peers, tools |-> bound]
    BY DEF Wizard!WizardStored
  <2> HIDE DEF parent, peers, bound
  <2> QED  BY <2>1
<1>7. bound \in SUBSET (Agents \X Tools)
  BY Roles
<1>10. \A t \in bound : t[1] \in A
  OBVIOUS
<1>9. peers \in SUBSET (Managers \X Managers)
  OBVIOUS
<1>8. ASSUME NEW p \in peers
      PROVE  p[1] \in A /\ p[2] \in A /\ p[1] # p[2]
  <2>1. p[1] \in Managers /\ p[2] \in Managers /\ p[1] < p[2]
    OBVIOUS
  <2>2. p[1] \in Nat /\ p[2] \in Nat
    BY <2>1, Roles
  <2>3. p[1] # p[2]
    BY <2>1, <2>2
  <2> QED  BY <2>1, <2>3
<1>11. \A p \in peers : p[1] \in A /\ p[2] \in A /\ p[1] # p[2]
  BY <1>8
<1> HIDE DEF A, parent, peers, bound
<1> QED  BY <1>4, <1>5, <1>6, <1>7, <1>9, <1>10, <1>11, MakesSound

LEMMA WizardBegins ==
  ASSUME Wizard!TreeWizardInit
  PROVE  WizardInv
<1>1. PICK ready \in BOOLEAN :
        wzTrees = [t \in Wizard!DraftIds |->
          IF t = 1 THEN [doc |-> Wizard!WizardStored, ready |-> ready] ELSE Wizard!NoTreeRow]
  BY DEF Wizard!TreeWizardInit
<1>2. PICK r \in {0, 1} : wzPage = Wizard!FreshWizard(r)
  BY DEF Wizard!TreeWizardInit
<1>3. wzSaves = [k \in 1..MaxDrafts |-> Wizard!NoWrite] /\ wzPast = Wizard!NothingPast
  BY DEF Wizard!TreeWizardInit
<1>4. PICK past \in Pasts : past = wzPast /\ past.lost = FALSE /\ past.moved = FALSE
  <2>1. Wizard!NothingPast \in Pasts /\ Wizard!NothingPast.lost = FALSE /\ Wizard!NothingPast.moved = FALSE
    BY DEF Wizard!NothingPast, Pasts
  <2> QED  BY <1>3, <2>1
<1>5. PICK doc \in SoundDocuments : doc = Wizard!WizardStored
  BY WizardStoredIsSound
<1>6. PICK row \in DraftRows(past) :
        row = [doc |-> doc, ready |-> ready] /\ row # Wizard!NoTreeRow /\ DraftHolds(row)
  <2>1. PICK row : row = [doc |-> doc, ready |-> ready]
    OBVIOUS
  <2>2. row \in DraftRows(past) /\ row.doc = doc /\ doc # NoDraft
    BY <1>4, <2>1, WzBounds DEF DraftRows, Drafts
  <2>3. row # Wizard!NoTreeRow /\ DraftHolds(row)
    BY <2>2 DEF DraftHolds, Wizard!NoTreeRow
  <2> QED  BY <2>1, <2>2, <2>3
<1>7. Wizard!NoTreeRow \in DraftRows(past) /\ DraftHolds(Wizard!NoTreeRow)
  BY DEF Wizard!NoTreeRow, DraftRows, Drafts, DraftHolds
<1>8. wzTrees = [t \in Wizard!DraftIds |-> IF t = 1 THEN row ELSE Wizard!NoTreeRow]
  BY <1>1, <1>5, <1>6
<1>9. /\ wzTrees \in [Wizard!DraftIds -> DraftRows(past)] /\ Used(wzTrees) = {1}
      /\ \A t \in Wizard!DraftIds : DraftHolds(wzTrees[t])
  BY <1>6, <1>7, <1>8, WzBounds DEF Used
<1>10. r \in DraftRoutes
  BY WzBounds
<1>11. PICK q \in WizardPages(past) :
         /\ q = wzPage /\ DraftHolds(q.read) /\ EditorHolds(q.state, q.editor, past)
         /\ q.open = TRUE /\ q.tree = r /\ q.route = r /\ q.read = Wizard!NoTreeRow
  BY <1>2, <1>10, FreshWizardHolds
<1>12. PICK c \in Writes(past) : c = Wizard!NoWrite /\ c.at = "idle"
  <2>1. Wizard!NoWrite \in Writes(past)
    BY WzBounds DEF Wizard!NoWrite, Writes, WriteSteps, Drafts
  <2>2. Wizard!NoWrite.at = "idle"
    BY DEF Wizard!NoWrite
  <2> QED  BY <2>1, <2>2
<1>13. wzSaves = [k \in 1..MaxDrafts |-> c]
  BY <1>3, <1>12
<1>14. /\ wzSaves \in [1..MaxDrafts -> Writes(past)] /\ DOMAIN wzSaves = 1..MaxDrafts
       /\ \A k \in 1..MaxDrafts : wzSaves[k].at = "idle"
  BY <1>12, <1>13
<1>15. \A k \in 1..MaxDrafts : ~Busy(wzSaves[k]) /\ WriteHolds(wzSaves[k], wzTrees)
  BY <1>14 DEF Busy, WriteHolds
<1>16. AddressHolds(wzPage, wzTrees)
  BY <1>9, <1>11 DEF AddressHolds
<1>17. OneIsBusy(wzPage, wzSaves)
  BY <1>14, <1>15 DEF OneIsBusy
<1>18. FewTrees(wzPage, wzSaves, wzTrees)
  <2>1. \E x \in Wizard!DraftIds : Used(wzTrees) \subseteq {1, x}
    BY <1>9, WzBounds
  <2> QED  BY <1>9, <2>1 DEF FewTrees
<1> QED  BY <1>4, <1>9, <1>11, <1>14, <1>15, <1>16, <1>17, <1>18 DEF WizardInv, Pasts

LEMMA TwoAtMost ==
  ASSUME NEW S, NEW x, NEW y, S \subseteq {x, y}
  PROVE  Cardinality(S) <= 2
<1>1. IsFiniteSet({x}) /\ Cardinality({x}) = 1
  BY FS_Singleton
<1>2. IsFiniteSet({x} \union {y}) /\ Cardinality({x} \union {y}) \in {1, 2}
  BY <1>1, FS_AddElement
<1>3. S \subseteq {x} \union {y}
  OBVIOUS
<1>4. Cardinality(S) \in Nat /\ Cardinality(S) <= Cardinality({x} \union {y})
  BY <1>2, <1>3, FS_Subset, FS_CardinalityType
<1> QED  BY <1>2, <1>4

LEMMA WizardKnows ==
  ASSUME WizardInv
  PROVE  /\ Wizard!TreeWizardTypeOK /\ Wizard!OneTreePerWizard
         /\ Wizard!WizardSendsHierarchy /\ Wizard!WizardKeepsValidTrees
<1>1. PICK past \in Pasts : past = wzPast
  BY WizardParts
<1>2. PICK page \in WizardPages(past) : page = wzPage
  BY <1>1, WizardParts
<1>3. \A k \in 1..MaxDrafts : /\ wzSaves[k].doc \in Drafts(past)
                              /\ wzSaves[k].at = "put" => wzSaves[k].doc # NoDraft
  BY <1>1, WizardParts DEF Writes, WriteHolds
<1>4. Wizard!TreeWizardTypeOK
  <2>1. PICK w \in WizardStates : w = Wizard!W
    BY WzFacts DEF WizardForms
  <2>2. Wizard!wizardPayload(Wizard!W) \in Documents
    <3>1. PICK d \in LooseDocuments : d = Wizard!wizardPayload(w)
      BY PayloadIs
    <3> QED  BY <2>1, <3>1, LooseHas
  <2>3. DOMAIN wzTrees = Wizard!DraftIds /\ DOMAIN wzSaves = 1..MaxDrafts
    BY WizardParts DEF DraftTables
  <2>4. wzPage.verdict \in {"none", "valid", "invalid"}
    BY <1>2 DEF WizardPages, Verdicts
  <2>5. \A k \in 1..MaxDrafts : wzSaves[k].doc \in Documents \union {NoDraft}
    BY <1>3, SoundHas, LooseHas DEF Drafts
  <2>6. wzPast \in [lost : BOOLEAN, moved : BOOLEAN]
    BY <1>1 DEF Pasts
  <2> QED  BY <2>2, <2>3, <2>4, <2>5, <2>6, WizardWords DEF Wizard!TreeWizardTypeOK
<1>5. Wizard!OneTreePerWizard
  <2>1. ASSUME ~wzPast.lost
        PROVE  Cardinality(Used(wzTrees)) <= 2
    <3>1. PICK x \in Wizard!DraftIds : Used(wzTrees) \subseteq {1, x}
      BY <2>1, WizardParts DEF FewTrees
    <3> QED  BY <3>1, TwoAtMost
  <2>2. Wizard!Cardinality({t \in Wizard!DraftIds : wzTrees[t] # Wizard!NoTreeRow}) = Cardinality(Used(wzTrees))
    BY WizardWords DEF Used
  <2> QED  BY <2>1, <2>2 DEF Wizard!OneTreePerWizard
<1>6. Wizard!WizardSendsHierarchy
  <2>1. ASSUME ~wzPast.moved, NEW k \in 1..MaxDrafts, wzSaves[k].at = "put"
        PROVE  Wizard!IsHierarchy(wzSaves[k].doc)
    <3>1. wzSaves[k].doc \in SoundDocuments
      BY <1>1, <1>3, <2>1 DEF Drafts
    <3> QED  BY <3>1, WizardDocuments DEF SoundDocuments
  <2>2. DOMAIN wzSaves = 1..MaxDrafts
    BY WizardParts
  <2> QED  BY <2>1, <2>2 DEF Wizard!WizardSendsHierarchy
<1>7. Wizard!WizardKeepsValidTrees
  <2>1. ASSUME NEW t \in Wizard!DraftIds, wzTrees[t] # Wizard!NoTreeRow, Wizard!Valid(wzTrees[t].doc)
        PROVE  Wizard!wizardPayload(Wizard!wizardFromTree(wzTrees[t].doc)) = wzTrees[t].doc
    <3>1. PICK row \in DraftRows(past) : row = wzTrees[t] /\ DraftHolds(row)
      BY <1>1, WizardParts DEF DraftTables
    <3>2. PICK d \in LooseDocuments : d = row.doc
      <4>1. row.doc # NoDraft /\ row.doc \in Drafts(past)
        BY <2>1, <3>1 DEF DraftHolds, DraftRows
      <4> QED  BY <4>1, DraftIs
    <3>3. Valid(d)
      BY <2>1, <3>1, <3>2, WizardDocuments
    <3> QED  BY <3>1, <3>2, <3>3, KeepsValid
  <2> QED  BY <2>1 DEF Wizard!WizardKeepsValidTrees
<1> QED  BY <1>4, <1>5, <1>6, <1>7

-----------------------------------------------------------------------------
(* The editors on screen.                                                  *)

EditorsInv == /\ route = "builder" => BuilderInv
              /\ route = "wizard" => WizardInv

LEMMA EditorsInit == Init => EditorsInv
BY BuilderBegins, WizardBegins DEF Init, EditorsInv

LEMMA EditorMoves ==
  ASSUME [Next]_vars
  PROVE  /\ route' = route
         /\ route = "builder" => TreeBuilderNext \/ UNCHANGED tbVars
         /\ route = "wizard" => Wizard!TreeWizardNext \/ UNCHANGED wizard
<1>1. CASE Next
  BY <1>1 DEF Next, EditsTree, WalksThrough, ConnectsTools, SetsUp, ManagesPeople,
              KeepsSecrets, TidiesShelf, Integrates, LooksUp, Launches
<1>2. CASE UNCHANGED vars
  BY <1>2 DEF vars, pages, builder
<1> QED  BY <1>1, <1>2

LEMMA EditorsStep ==
  ASSUME EditorsInv, [Next]_vars
  PROVE  EditorsInv'
<1>1. ASSUME route = "builder"
      PROVE  BuilderInv'
  BY <1>1, EditorMoves, BuilderStep DEF EditorsInv
<1>2. ASSUME route = "wizard"
      PROVE  WizardInv'
  BY <1>2, EditorMoves, WizardStep DEF EditorsInv
<1> QED  BY <1>1, <1>2, EditorMoves DEF EditorsInv

LEMMA EditorsAlways == Spec => []EditorsInv
BY EditorsInit, EditorsStep, PTL DEF Spec

\* Over saves, reloads, animations, undo and redo in any order, the builder says
\* "saved" of what the server holds and "ready" of the document it shows; its
\* history is anchored in that document, which refers only to what it holds
\* (tree-builder.tsx, model.ts).
THEOREM BuilderSaysTheTruth == Spec => []BuilderIsHonest
<1>1. EditorsInv => BuilderIsHonest
  BY BuilderKnows DEF EditorsInv, BuilderIsHonest
<1> QED  BY <1>1, EditorsAlways, PTL

\* However saving, validating and reloading overlap, a visit of the wizard makes
\* one Tree at most unless the answer to the creation was lost; what it sends
\* refers only to what it holds unless an answer replaced the lists under an
\* open editor; and a valid Tree that is opened and saved unchanged is as it was
\* (tree-wizard.tsx, types.ts).
THEOREM WizardKeepsItsPromise == Spec => []WizardMakesOneTree
<1>1. EditorsInv => WizardMakesOneTree
  BY WizardKnows DEF EditorsInv, WizardMakesOneTree
<1> QED  BY <1>1, EditorsAlways, PTL

\* Each of the ten pages, and its part of the server, keeps its shape.
THEOREM StudioIsTyped == Spec => []StudioTypeOK
<1>1. EditorsInv => /\ route = "builder" => TreeBuilderTypeOK
                    /\ route = "wizard" => Wizard!TreeWizardTypeOK
  BY BuilderKnows, WizardKnows DEF EditorsInv
<1>2. EditorsInv /\ StudioInv /\ (route = "tools" => ToolsInv) => StudioTypeOK
  BY <1>1, SevenPagesAreTyped, ToolsAreTyped DEF StudioTypeOK
<1> QED  BY <1>2, EditorsAlways, StudioAlways, ToolsAlways, PTL
=============================================================================
