---------------------------- MODULE BuilderModel ----------------------------
(***************************************************************************)
(* The document of the visual builder and its pure operations              *)
(* (components/tree/builder/model.ts), with what the canvas derives from   *)
(* it (builder/canvas.tsx).  An Agent is a number: its role is fixed, and  *)
(* the order of the numbers stands for the order in the document.          *)
(***************************************************************************)
EXTENDS Integers, FiniteSets, FiniteSetsExt

CONSTANTS Roots, Managers, Specialists,  \* ids of each role: finite sets of numbers
          Tools,                         \* connected tools, numbers as well
          Nobody                         \* no parent

Agents == Roots \union Managers \union Specialists

\* parent is defined on the Agents of the document.
Documents == [named : BOOLEAN,
              parent : UNION {[A -> A \union {Nobody}] : A \in SUBSET Agents},
              peers : SUBSET (Managers \X Managers),
              tools : SUBSET (Agents \X Tools)]

Members(doc) == DOMAIN doc.parent
newDocument == [named |-> TRUE, parent |-> [a \in {} |-> Nobody], peers |-> {}, tools |-> {}]

\* What addAgent refuses with rootExists.
CanAdd(doc, a) == a \in Agents \ Members(doc) /\ (a \in Roots => Roots \cap Members(doc) = {})

addAgent(doc, a) ==
  [doc EXCEPT !.parent = [b \in Members(doc) \union {a} |-> IF b = a THEN Nobody ELSE @[b]]]

canConnect(doc, source, target) ==
  /\ {source, target} \subseteq Members(doc)
  /\ \/ source \in Roots /\ target \in Managers
     \/ source \in Managers /\ target \in Specialists

connectAgents(doc, source, target) == [doc EXCEPT !.parent[target] = source]
attachTool(doc, a, tool) == [doc EXCEPT !.tools = @ \union {<<a, tool>>}]
detachTool(doc, a, tool) == [doc EXCEPT !.tools = @ \ {<<a, tool>>}]

\* The role hierarchy is two levels deep: two rounds of the loop reach the end.
Children(doc, ids)    == {a \in Members(doc) : doc.parent[a] \in ids}
descendants(doc, ids) == ids \union Children(doc, ids) \union Children(doc, Children(doc, ids))

deleteAgents(doc, ids) ==
  LET kept == Members(doc) \ descendants(doc, ids) IN
  [doc EXCEPT !.parent = [a \in kept |-> @[a]],
              !.peers  = {p \in @ : p[2] \in kept /\ p[1] \in kept},
              !.tools  = {t \in @ : t[1] \in kept}]

\* invalid_manager_peers.
PeersExist(doc) == \A p \in doc.peers : {p[1], p[2]} \subseteq Members(doc) /\ p[1] # p[2]

\* The rules of the server's validation that the editors decide.
Valid(doc) ==
  /\ doc.named
  /\ Cardinality(Roots \cap Members(doc)) = 1
  /\ \A a \in Members(doc) \ Roots : doc.parent[a] # Nobody
  /\ \A a \in Members(doc) \ Specialists : Children(doc, {a}) # {}
  /\ PeersExist(doc)

-----------------------------------------------------------------------------
(* autoLayout.                                                             *)

gap == 52   nodeWidth == 250   levelGap == 260   rootGap == 80   resourceStep == 116

\* Largest of a set of numbers and a floor; sum of f over a set.
AtLeast(floor, S) == Max(S \union {floor})
Total(S, f(_))    == FoldSet(LAMBDA a, sum : f(a) + sum, 0, S)

Tops(doc) == {a \in Members(doc) : doc.parent[a] \notin Members(doc)}
Earlier(S, a) == {b \in S : b < a}
Span(S, w) == Total(S, LAMBDA c : w[c]) + gap * AtLeast(0, {Cardinality(S) - 1})

\* Variant with a mistake: a parent gets the room of its own card only.
WidthsOfCards(doc) == [a \in Members(doc) |-> nodeWidth]

Widths(doc) ==
  LET width[a \in Members(doc)] == AtLeast(nodeWidth, {Span(Children(doc, {a}), width)})
  IN width

\* The left edge of the room each Agent gets, and its place in the middle of it.
AgentPlaces(doc) ==
  LET w == Widths(doc)
      left[a \in Members(doc)] ==
        IF a \in Tops(doc)
        THEN Total(Earlier(Tops(doc), a), LAMBDA b : w[b] + rootGap)
        ELSE LET up == doc.parent[a]   siblings == Children(doc, {up}) IN
             left[up] + (w[up] - Span(siblings, w)) \div 2
               + Total(Earlier(siblings, a), LAMBDA b : w[b] + gap)
      depth[a \in Members(doc)] ==
        IF a \in Tops(doc) THEN 0 ELSE depth[doc.parent[a]] + levelGap
  IN [a \in Members(doc) |-> [x |-> left[a] + (w[a] - nodeWidth) \div 2, y |-> depth[a]]]

ResourcePlaces(doc, extra) ==
  LET w == Widths(doc)
      places == AgentPlaces(doc)
      shown  == {t[2] : t \in doc.tools} \union extra
      bottom == AtLeast(-levelGap, {places[a].y : a \in Members(doc)}) + 220
      stack  == Cardinality(shown) * resourceStep - 28
      right  == AtLeast(0, {Total(Tops(doc), LAMBDA a : w[a] + rootGap) - rootGap})
  IN [t \in shown |-> [x |-> right + 88,
                       y |-> AtLeast(0, {(bottom - stack) \div 2})
                               + resourceStep * Cardinality(Earlier(shown, t))]]

-----------------------------------------------------------------------------
(* The graph of canvas.tsx.                                                *)

\* Agents below a collapsed one, and resources every binding of which is below one.
HiddenAgents(doc, collapsed) == UNION {descendants(doc, {c}) \ {c} : c \in collapsed}
HiddenTools(doc, collapsed) ==
  {t \in Tools : /\ \E a \in Members(doc) : <<a, t>> \in doc.tools
                 /\ \A a \in Agents : <<a, t>> \in doc.tools => a \in HiddenAgents(doc, collapsed)}
HierarchyEdges(doc) == {<<doc.parent[a], a>> : a \in {b \in Members(doc) : doc.parent[b] # Nobody}}

-----------------------------------------------------------------------------

\* The references of a document designate what it holds, in the right role:
\* a dangling parent or binding makes the server refuse the save, a dangling
\* peer the validation.
IsHierarchy(doc) ==
  /\ \A e \in HierarchyEdges(doc) : canConnect(doc, e[1], e[2])
  /\ PeersExist(doc)
  /\ \A t \in doc.tools : t[1] \in Members(doc)
  /\ Cardinality(Roots \cap Members(doc)) <= 1

\* The layout draws no card over another, and a parent above its children's middle.
IsTidy(doc) ==
  LET at == AgentPlaces(doc)   res == ResourcePlaces(doc, {}) IN
  /\ \A a, b \in Members(doc) :
       \/ a = b
       \/ at[a].y # at[b].y
       \/ at[a].x + nodeWidth <= at[b].x \/ at[b].x + nodeWidth <= at[a].x
  /\ \A a \in Members(doc) :
       LET below == {at[c].x : c \in Children(doc, {a})} IN
       below # {} => /\ at[a].x >= Min(below) /\ at[a].x <= Max(below)
                     /\ \A c \in Children(doc, {a}) : at[c].y = at[a].y + levelGap
  /\ \A t \in DOMAIN res : \A a \in Members(doc) : at[a].x + nodeWidth < res[t].x
=============================================================================
