--------------------------- MODULE ToolsPageProofs ---------------------------
(***************************************************************************)
(* Theorems about the page of Tools, for every set of Agents and setups    *)
(* and every number of Tools and of operations that overlap.               *)
(***************************************************************************)
EXTENDS Studio, TLAPS, FiniteSetTheorems

-----------------------------------------------------------------------------
(* The page of Tools: the invariant.                                       *)

ToolIds == ToolForms!ToolIds
ToolRow == [setup : Setups, agents : SUBSET ToolAgents,
            status : {"none", "not_configured", "connected", "error", "disabled"}]
ToolForm == [saved : {0} \union ToolIds, step : 0..3, mcp : BOOLEAN, setup : Setups,
             enabled : BOOLEAN, agents : SUBSET ToolAgents, busy : BOOLEAN]
ToolPackage == [open : BOOLEAN, setup : Setups, tested : BOOLEAN, proof : SUBSET Setups]
ToolView == [shown : [ToolIds -> ToolRow], loading : BOOLEAN, testing : BOOLEAN,
             busy : {"none", "catalog", "card"} \X ({0} \union ToolIds),
             package : ToolPackage, form : ToolForm]
ToolCall == [op : {"none", "list", "card", "preflight", "add", "assignments", "form"},
             tool : {0} \union ToolIds, at : {"idle", "asked", "prove", "assign", "done", "over"},
             form : ToolForm, row : ToolRow]

ToolsShape ==
  /\ tpTools \in [ToolIds -> ToolRow]
  /\ tpPage \in ToolView
  /\ tpCalls \in [1..MaxOps -> ToolCall]
  /\ tpProven \subseteq ToolIds \X Setups
  /\ tpPast \in [made : Nat, lost : BOOLEAN, overtaken : BOOLEAN, untested : BOOLEAN]

\* A row of Tools is not taken away: what the page shows or works on is there.
ToolThere(rows, t) == t \in ToolIds /\ rows[t].status # "none"
ToolsStay ==
  /\ \A t \in ToolIds : tpTools[t] # ToolForms!NoTool => ToolThere(tpTools, t)
  /\ \A t \in ToolIds : tpPage.shown[t] # ToolForms!NoTool => ToolThere(tpTools, t)
  /\ tpPage.form.saved # 0 => ToolThere(tpTools, tpPage.form.saved)
  /\ tpPage.form.step = 0 => tpPage.form.saved = 0 /\ ~tpPage.form.busy
  /\ \A k \in 1..MaxOps : tpCalls[k].op \in {"card", "assignments"} => ToolThere(tpTools, tpCalls[k].tool)

\* What the request of a form has reached.
FormCall(c) ==
  /\ tpPage.form.busy /\ tpPage.form.step = c.form.step /\ c.form.step \in {1, 3}
  /\ c.at = "asked" => tpPage.form.saved = c.form.saved
  /\ c.at # "asked" => /\ c.at \in {"prove", "assign", "done"} /\ c.tool \in ToolIds
                       /\ tpPage.form.saved = c.tool /\ tpTools[c.tool].setup = c.form.setup
  /\ c.at = "assign" => c.form.step = 3
  /\ c.at \in {"assign", "done"} /\ c.form.step = 3 /\ c.form.enabled =>
       /\ <<c.tool, c.form.setup>> \in tpProven
       /\ ~tpPast.overtaken => tpTools[c.tool].status = "connected"
  /\ c.at = "done" /\ c.form.step = 3 =>
       tpTools[c.tool].agents = IF c.form.enabled THEN c.form.agents ELSE {}

ToolsForms ==
  /\ \A k \in 1..MaxOps : tpCalls[k].op = "form" => FormCall(tpCalls[k])
  /\ \A k \in 1..MaxOps : tpCalls[k].at \in {"prove", "assign", "done"} => tpCalls[k].op = "form"
  /\ \A j, k \in 1..MaxOps : tpCalls[j].op = "form" /\ tpCalls[k].op = "form" => j = k

\* Until a mark is taken there is one operation that holds it, and a card's is
\* of the row as it was read, which no form has.
CardCall(c) ==
  /\ tpPage.busy = <<"card", c.tool>>
  /\ tpTools[c.tool].setup = c.row.setup /\ tpPage.form.saved # c.tool
Marks(c) == c.op = "card" \/ c.op = "add"
ToolsAlone ==
  ~tpPast.overtaken =>
    /\ \A j, k \in 1..MaxOps : Marks(tpCalls[j]) /\ Marks(tpCalls[k]) => j = k
    /\ \A k \in 1..MaxOps : tpCalls[k].op = "card" => CardCall(tpCalls[k])
    /\ \A k \in 1..MaxOps : tpCalls[k].op = "add" => tpPage.busy = <<"catalog", 0>>

\* An open form without a row has made none.
ToolsOnce ==
  ~tpPast.lost => /\ tpPast.made <= 1
                  /\ tpPage.form.step # 0 /\ tpPage.form.saved = 0 => tpPast.made = 0

ToolsInv == ToolsShape /\ ToolsStay /\ ToolsForms /\ ToolsAlone /\ ToolsOnce
            /\ ToolForms!ConnectedIsProven

LEMMA ToolsBound ==
  /\ MaxOps \in Nat /\ ToolForms!First \in Setups /\ ToolIds = ToolForms!ToolIds
  /\ 0 \notin ToolIds /\ 1 \in ToolIds /\ ToolIds \subseteq Nat /\ ToolForms!Slots = 1..MaxOps
  /\ ToolForms!NoTool \in ToolRow /\ ToolForms!NoForm \in ToolForm
  /\ ToolForms!NoCall \in ToolCall /\ ToolForms!NoPackage \in ToolPackage
  /\ ToolForms!NoBusy = <<"none", 0>> /\ ToolForms!NoTool.status = "none"
<1>1. MaxOps \in Nat /\ MaxTools \in Nat \ {0, 1}
  BY StudioAssumption
<1>2. Setups # {}
  <2>1. Cardinality(Setups) >= 2
    BY StudioAssumption
  <2> QED  BY <2>1, FS_EmptySet
<1>3. ToolForms!First \in Setups
  BY <1>2 DEF ToolForms!First
<1>4. 0 \notin ToolIds /\ 1 \in ToolIds /\ ToolIds \subseteq Nat
  BY <1>1 DEF ToolIds, ToolForms!ToolIds
<1>5. ToolForms!NoTool \in ToolRow /\ ToolForms!NoTool.status = "none"
  BY <1>3 DEF ToolForms!NoTool, ToolRow
<1>6. ToolForms!NoForm \in ToolForm
  BY <1>3 DEF ToolForms!NoForm, ToolForm
<1>7. ToolForms!NoPackage \in ToolPackage
  BY <1>3 DEF ToolForms!NoPackage, ToolPackage
<1>8. ToolForms!NoCall \in ToolCall
  BY <1>5, <1>6 DEF ToolForms!NoCall, ToolCall
<1> QED
  BY <1>1, <1>3, <1>4, <1>5, <1>6, <1>7, <1>8 DEF ToolIds, ToolForms!Slots, ToolForms!NoBusy

LEMMA ToolsInit == ToolForms!ToolsInit => ToolsInv
<1> SUFFICES ASSUME ToolForms!ToolsInit
             PROVE  ToolsInv
  OBVIOUS
<1> USE ToolsBound
<1>1. /\ tpTools \in [ToolIds -> ToolRow]
      /\ \A t \in ToolIds : tpTools[t] # ToolForms!NoTool => tpTools[t].status # "none"
      /\ \A t \in ToolIds : tpTools[t].status = "connected"
           => t = 1 /\ tpTools[t].setup = ToolForms!First
  <2>0. /\ [setup |-> ToolForms!First, status |-> "connected", agents |-> ToolAgents] \in ToolRow
        /\ [setup |-> ToolForms!First, status |-> "not_configured", agents |-> {}] \in ToolRow
    BY DEF ToolRow
  <2>1. PICK r \in ToolRow :
          /\ r = [setup |-> ToolForms!First, status |-> "connected", agents |-> ToolAgents]
          /\ r.status = "connected" /\ r.setup = ToolForms!First
    BY <2>0
  <2>2. PICK q \in ToolRow : q = [ToolForms!NoTool EXCEPT !.status = "not_configured"]
                             /\ q.status = "not_configured"
    <3>1. [ToolForms!NoTool EXCEPT !.status = "not_configured"]
            = [setup |-> ToolForms!First, status |-> "not_configured", agents |-> {}]
      BY DEF ToolForms!NoTool
    <3> QED  BY <2>0, <3>1
  <2>3. tpTools = [t \in ToolIds |-> CASE t = 1 -> r [] t = 2 -> q [] OTHER -> ToolForms!NoTool]
    BY <2>1, <2>2 DEF ToolForms!ToolsInit
  <2>4. \A t \in ToolIds : t \in Nat /\ tpTools[t] \in {r, q, ToolForms!NoTool} /\ (tpTools[t] = r => t = 1)
    <3>1. r # q /\ r # ToolForms!NoTool
      BY <2>1, <2>2
    <3> QED  BY <2>3, <3>1
  <2> HIDE DEF ToolForms!ToolsInit
  <2> QED  BY <2>1, <2>2, <2>3, <2>4
<1>2. \A f \in ToolForm : f = ToolForms!NoForm => f.saved = 0 /\ f.step = 0 /\ f.busy = FALSE
  BY DEF ToolForms!NoForm
<1>3. /\ tpPage \in ToolView /\ tpPage.shown = tpTools /\ tpPage.form = ToolForms!NoForm
  BY <1>1 DEF ToolForms!ToolsInit, ToolView
<1>4. /\ tpCalls \in [1..MaxOps -> ToolCall]
      /\ \A k \in 1..MaxOps : tpCalls[k].op = "none" /\ tpCalls[k].at = "idle"
  BY DEF ToolForms!ToolsInit, ToolForms!NoCall
<1>5. /\ tpPast \in [made : Nat, lost : BOOLEAN, overtaken : BOOLEAN, untested : BOOLEAN]
      /\ tpPast.made = 0
  BY DEF ToolForms!ToolsInit, ToolForms!NothingYet
<1>6. tpProven \subseteq ToolIds \X Setups /\ <<1, ToolForms!First>> \in tpProven
  BY DEF ToolForms!ToolsInit
<1>7. ToolsShape
  BY <1>1, <1>3, <1>4, <1>5, <1>6 DEF ToolsShape
<1>8. ToolsStay
  BY <1>1, <1>2, <1>3, <1>4 DEF ToolsStay, ToolThere
<1>9. ToolsForms /\ ToolsAlone /\ ToolsOnce
  BY <1>2, <1>3, <1>4, <1>5 DEF ToolsForms, ToolsAlone, ToolsOnce, Marks
<1> QED  BY <1>1, <1>6, <1>7, <1>8, <1>9 DEF ToolsInv, ToolForms!ConnectedIsProven

\* A step that moves no call and no row.  What it does to the form leaves a form
\* that is being saved, and what it says of the past only clears what was made.
LEMMA ToolsQuiet ==
  ASSUME ToolsInv, UNCHANGED <<tpTools, tpCalls, tpProven>>,
         NEW v \in ToolView, tpPage' = v, v.shown = tpPage.shown, v.busy = tpPage.busy,
         NEW past \in [made : Nat, lost : BOOLEAN, overtaken : BOOLEAN, untested : BOOLEAN],
         tpPast' = past, past.lost = tpPast.lost, past.overtaken = tpPast.overtaken,
         past.made \in {0, tpPast.made},
         tpPage.form.busy => v.form.busy /\ v.form.saved = tpPage.form.saved
                             /\ v.form.step = tpPage.form.step,
         v.form.saved = tpPage.form.saved \/ (v.form.saved = 0 /\ (v.form.step = 0 \/ past.made = 0)),
         v.form.step = 0 => v.form.saved = 0 /\ ~v.form.busy,
         v.form.step # 0 => tpPage.form.step # 0 \/ past.made = 0
  PROVE  ToolsInv'
<1> USE DEF ToolsInv
<1>1. ToolsShape'
  BY DEF ToolsShape
<1>2. ToolsStay'
  BY ToolsBound DEF ToolsStay, ToolThere
<1>3. \A c : FormCall(c) => FormCall(c)'
  BY DEF FormCall
<1>4. ToolsForms'
  BY <1>3 DEF ToolsForms
<1>5. ToolsAlone'
  <2>1. ASSUME NEW k \in 1..MaxOps, tpCalls[k].op = "card", ToolThere(tpTools, tpCalls[k].tool), CardCall(tpCalls[k])
        PROVE  CardCall(tpCalls[k])'
    BY <2>1, ToolsBound DEF CardCall, ToolThere
  <2>2. \A k \in 1..MaxOps : tpCalls[k].op = "card" => ToolThere(tpTools, tpCalls[k].tool)
    BY DEF ToolsStay
  <2> QED  BY <2>1, <2>2 DEF ToolsAlone, Marks
<1>6. ToolsOnce'
  BY DEF ToolsOnce, ToolsShape
<1>7. ToolForms!ConnectedIsProven'
  BY DEF ToolForms!ConnectedIsProven
<1> QED  BY <1>1, <1>2, <1>4, <1>5, <1>6, <1>7

LEMMA ToolViewParts ==
  ASSUME NEW v \in ToolView
  PROVE  v.form \in ToolForm /\ v.package \in ToolPackage /\ v.shown \in [ToolIds -> ToolRow]
BY DEF ToolView

LEMMA ToolFormShown ==
  ASSUME NEW v \in ToolView, NEW f \in ToolForm
  PROVE  \E w \in ToolView : /\ w = [v EXCEPT !.form = f]
                             /\ w.form = f /\ w.shown = v.shown /\ w.busy = v.busy
<1>1. [v EXCEPT !.form = f] \in ToolView
  BY DEF ToolView
<1>2. /\ [v EXCEPT !.form = f].form = f /\ [v EXCEPT !.form = f].shown = v.shown
      /\ [v EXCEPT !.form = f].busy = v.busy
  BY DEF ToolView
<1> QED  BY <1>1, <1>2

LEMMA ToolPackageShown ==
  ASSUME NEW v \in ToolView, NEW p \in ToolPackage
  PROVE  \E w \in ToolView : /\ w = [v EXCEPT !.package = p]
                             /\ w.form = v.form /\ w.shown = v.shown /\ w.busy = v.busy
<1>1. [v EXCEPT !.package = p] \in ToolView
  BY DEF ToolView
<1>2. /\ [v EXCEPT !.package = p].form = v.form /\ [v EXCEPT !.package = p].shown = v.shown
      /\ [v EXCEPT !.package = p].busy = v.busy
  BY DEF ToolView
<1> QED  BY <1>1, <1>2

LEMMA ToolStepShown ==
  ASSUME NEW f \in ToolForm, NEW n \in 0..3
  PROVE  \E g \in ToolForm : /\ g = [f EXCEPT !.step = n] /\ g.step = n
                             /\ g.saved = f.saved /\ g.busy = f.busy
<1>1. [f EXCEPT !.step = n] \in ToolForm
  BY DEF ToolForm
<1>2. /\ [f EXCEPT !.step = n].step = n /\ [f EXCEPT !.step = n].saved = f.saved
      /\ [f EXCEPT !.step = n].busy = f.busy
  BY DEF ToolForm
<1> QED  BY <1>1, <1>2

\* The package's dialog, and the form while nothing is on its way.
LEMMA ToolsPageStep ==
  ASSUME ToolsInv,
         \/ ToolForms!openPackage \/ ToolForms!closePackage \/ ToolForms!editPackage
         \/ ToolForms!openCreate \/ ToolForms!editForm \/ ToolForms!back
         \/ ToolForms!closeForm \/ ToolForms!next
  PROVE  ToolsInv'
<1> USE DEF ToolForms!Shows
<1>0. /\ tpPage \in ToolView /\ tpPage.form \in ToolForm /\ tpPage.package \in ToolPackage
      /\ tpPast \in [made : Nat, lost : BOOLEAN, overtaken : BOOLEAN, untested : BOOLEAN]
      /\ tpPage.form.step = 0 => tpPage.form.saved = 0 /\ ~tpPage.form.busy
  BY ToolViewParts DEF ToolsInv, ToolsShape, ToolsStay
<1>1. ASSUME NEW p \in ToolPackage, ToolForms!Shows([tpPage EXCEPT !.package = p])
      PROVE  ToolsInv'
  <2>1. PICK v \in ToolView : v = [tpPage EXCEPT !.package = p] /\ v.form = tpPage.form
                              /\ v.shown = tpPage.shown /\ v.busy = tpPage.busy
    BY <1>0, ToolPackageShown
  <2> QED  BY <1>0, <1>1, <2>1, ToolsQuiet
<1>2. ASSUME NEW f \in ToolForm, ToolForms!Shows([tpPage EXCEPT !.form = f]),
             tpPage.form.busy => f.busy /\ f.step = tpPage.form.step /\ f.saved = tpPage.form.saved,
             f.saved = tpPage.form.saved \/ f.saved = 0,
             f.step = 0 => f.saved = 0 /\ ~f.busy,
             f.step # 0 => f.saved = tpPage.form.saved /\ tpPage.form.step # 0
      PROVE  ToolsInv'
  <2>1. PICK v \in ToolView : v = [tpPage EXCEPT !.form = f] /\ v.form = f
                              /\ v.shown = tpPage.shown /\ v.busy = tpPage.busy
    BY <1>0, ToolFormShown
  <2> QED  BY <1>0, <1>2, <2>1, ToolsQuiet
<1>3. CASE ToolForms!openPackage \/ ToolForms!closePackage
  <2>1. [ToolForms!NoPackage EXCEPT !.open = TRUE] \in ToolPackage /\ ToolForms!NoPackage \in ToolPackage
    BY ToolsBound DEF ToolPackage
  <2> QED  BY <1>1, <1>3, <2>1 DEF ToolForms!openPackage, ToolForms!closePackage
<1>4. CASE ToolForms!editPackage
  <2>1. PICK s \in Setups : ToolForms!Shows([tpPage EXCEPT !.package.setup = s, !.package.tested = FALSE])
    BY <1>4 DEF ToolForms!editPackage
  <2>2. [tpPage.package EXCEPT !.setup = s, !.tested = FALSE] \in ToolPackage
    BY <1>0 DEF ToolPackage
  <2> QED  BY <1>1, <2>1, <2>2
<1>5. CASE ToolForms!openCreate
  <2>1. PICK mcp \in BOOLEAN :
          /\ tpPage.form.step = 0 /\ UNCHANGED <<tpTools, tpCalls, tpProven>>
          /\ tpPast' = [tpPast EXCEPT !.made = 0]
          /\ tpPage' = [tpPage EXCEPT !.form = [ToolForms!NoForm EXCEPT !.step = 1, !.mcp = mcp]]
    BY <1>5 DEF ToolForms!openCreate, ToolForms!Modal
  <2>2. PICK f \in ToolForm : f = [ToolForms!NoForm EXCEPT !.step = 1, !.mcp = mcp]
                              /\ f.saved = 0 /\ f.step = 1
    <3>1. ASSUME NEW b \in {TRUE, FALSE}
          PROVE  \E f \in ToolForm : f = [ToolForms!NoForm EXCEPT !.step = 1, !.mcp = b]
                                     /\ f.saved = 0 /\ f.step = 1
      <4>1. PICK f \in ToolForm : f = ToolForms!NoForm /\ f.saved = 0
        BY ToolsBound DEF ToolForms!NoForm
      <4>2. [f EXCEPT !.step = 1, !.mcp = TRUE] \in ToolForm /\ [f EXCEPT !.step = 1, !.mcp = FALSE] \in ToolForm
        <5>1. [f EXCEPT !.step = 1] \in ToolForm
          BY DEF ToolForm
        <5>2. PICK g \in ToolForm : g = [f EXCEPT !.step = 1]
          BY <5>1
        <5>3. [g EXCEPT !.mcp = TRUE] \in ToolForm /\ [g EXCEPT !.mcp = FALSE] \in ToolForm
          BY DEF ToolForm
        <5> QED  BY <5>2, <5>3
      <4>3. [f EXCEPT !.step = 1, !.mcp = b].saved = 0 /\ [f EXCEPT !.step = 1, !.mcp = b].step = 1
        BY <4>1 DEF ToolForm
      <4> QED  BY <3>1, <4>1, <4>2, <4>3
    <3> QED  BY <2>1, <3>1
  <2>3. PICK v \in ToolView : v = [tpPage EXCEPT !.form = f] /\ v.form = f
                              /\ v.shown = tpPage.shown /\ v.busy = tpPage.busy
    BY <1>0, <2>2, ToolFormShown
  <2>4. /\ tpPast' \in [made : Nat, lost : BOOLEAN, overtaken : BOOLEAN, untested : BOOLEAN]
        /\ tpPast'.made = 0 /\ tpPast'.lost = tpPast.lost /\ tpPast'.overtaken = tpPast.overtaken
    BY <1>0, <2>1
  <2>5. PICK past \in [made : Nat, lost : BOOLEAN, overtaken : BOOLEAN, untested : BOOLEAN] :
          /\ tpPast' = past /\ past.made = 0
          /\ past.lost = tpPast.lost /\ past.overtaken = tpPast.overtaken
    BY <2>4
  <2>6. tpPage' = v
    BY <2>1, <2>2, <2>3
  <2>7. tpPage.form.step = 0 /\ ~tpPage.form.busy /\ v.form.step # 0 /\ v.form.saved = 0
    <3>1. v.form.step = 1
      BY <2>2, <2>3
    <3>2. v.form.step # 0
      BY <3>1
    <3>3. v.form.saved = 0
      BY <2>2, <2>3
    <3>4. tpPage.form.step = 0 /\ ~tpPage.form.busy
      BY <1>0, <2>1
    <3> QED  BY <3>2, <3>3, <3>4
  <2>8. UNCHANGED <<tpTools, tpCalls, tpProven>>
    BY <2>1
  <2> QED  BY <2>3, <2>5, <2>6, <2>7, <2>8, ToolsQuiet
<1>6. CASE ToolForms!editForm
  <2>1. PICK f : /\ f \in [saved : {tpPage.form.saved}, step : {tpPage.form.step},
                          mcp : {tpPage.form.mcp}, setup : Setups, enabled : BOOLEAN,
                          agents : SUBSET ToolAgents, busy : {tpPage.form.busy}]
                 /\ tpPage.form.step \in 1..2 /\ ToolForms!Shows([tpPage EXCEPT !.form = f])
    BY <1>6 DEF ToolForms!editForm
  <2>2. f \in ToolForm /\ f.saved = tpPage.form.saved /\ f.step = tpPage.form.step
        /\ f.busy = tpPage.form.busy
    BY <1>0, <2>1 DEF ToolForm
  <2> QED  BY <1>0, <1>2, <2>1, <2>2
<1>7. CASE ToolForms!back
  <2>1. PICK n \in 1..2 : n = tpPage.form.step - 1 /\ tpPage.form.step # 0 /\ ~tpPage.form.busy
    BY <1>7, <1>0 DEF ToolForms!back, ToolForm
  <2>2. PICK f \in ToolForm : f = [tpPage.form EXCEPT !.step = n] /\ f.saved = tpPage.form.saved
                              /\ f.step = n /\ f.busy = tpPage.form.busy
    <3>1. n \in 0..3
      BY <2>1
    <3>2. PICK e \in ToolForm : e = tpPage.form
      BY <1>0
    <3>3. PICK f \in ToolForm : f = [e EXCEPT !.step = n] /\ f.saved = e.saved
                                /\ f.step = n /\ f.busy = e.busy
      BY <3>1, ToolStepShown
    <3> QED  BY <3>2, <3>3
  <2>3. ToolForms!Shows([tpPage EXCEPT !.form = f])
    BY <1>7, <2>1, <2>2 DEF ToolForms!back
  <2>4. f.step # 0
    BY <2>1, <2>2
  <2> QED  BY <1>2, <2>1, <2>2, <2>3, <2>4
<1>8. CASE ToolForms!closeForm
  <2>1. PICK f \in ToolForm : f = ToolForms!NoForm /\ f.saved = 0 /\ f.step = 0 /\ ~f.busy
    BY ToolsBound DEF ToolForms!NoForm
  <2> QED  BY <1>2, <1>8, <2>1 DEF ToolForms!closeForm
<1>9. CASE ToolForms!next
  <2>1. PICK f \in ToolForm : f = [tpPage.form EXCEPT !.step = 3] /\ f.saved = tpPage.form.saved
                              /\ f.step = 3 /\ f.busy = tpPage.form.busy
    <3>1. PICK e \in ToolForm : e = tpPage.form
      BY <1>0
    <3>2. PICK f \in ToolForm : f = [e EXCEPT !.step = 3] /\ f.saved = e.saved
                                /\ f.step = 3 /\ f.busy = e.busy
      BY ToolStepShown
    <3> QED  BY <3>1, <3>2
  <2>2. ToolForms!Shows([tpPage EXCEPT !.form = f]) /\ tpPage.form.step # 0 /\ ~tpPage.form.busy
    BY <1>9, <2>1 DEF ToolForms!next
  <2>3. f.step # 0
    BY <2>1
  <2> QED  BY <1>2, <2>1, <2>2, <2>3
<1> QED  BY <1>3, <1>4, <1>5, <1>6, <1>7, <1>8, <1>9

LEMMA ToolCallsMove ==
  ASSUME NEW k \in 1..MaxOps, NEW c \in ToolCall, tpCalls \in [1..MaxOps -> ToolCall],
         ToolForms!CallIs(k, c)
  PROVE  /\ tpCalls' \in [1..MaxOps -> ToolCall] /\ tpCalls'[k] = c
         /\ \A j \in 1..MaxOps : j # k => tpCalls'[j] = tpCalls[j]
BY DEF ToolForms!CallIs

\* What a step that is not the form's does to the rows: a card's test writes the
\* status of a row no form has, and a package adds a row it has proved.
RowsTested ==
  \A t \in ToolIds :
    \/ tpTools'[t] = tpTools[t]
    \/ /\ ToolThere(tpTools, t) /\ tpTools'[t].status \in {"connected", "error"}
       /\ tpTools'[t].setup = tpTools[t].setup /\ tpTools'[t].agents = tpTools[t].agents
       /\ ~tpPast.overtaken =>
            /\ tpPage.form.saved # t
            /\ tpTools'[t].status = "connected" => <<t, tpTools'[t].setup>> \in tpProven'
    \/ /\ ~ToolThere(tpTools, t) /\ tpTools'[t].status = "connected"
       /\ <<t, tpTools'[t].setup>> \in tpProven'

FormStays(f, g) == g.saved = f.saved /\ g.step = f.step /\ g.busy = f.busy

\* A call of the cards, the packages, the list or the assignments moves.
LEMMA ToolsOthers ==
  ASSUME ToolsInv, NEW k \in 1..MaxOps, NEW c \in ToolCall, ToolForms!CallIs(k, c),
         tpCalls[k].op # "form", c.op # "form", c.at \notin {"prove", "assign", "done"},
         c.op \in {"card", "assignments"} => ToolThere(tpTools, c.tool),
         tpTools' \in [ToolIds -> ToolRow], tpProven \subseteq tpProven',
         tpProven' \subseteq ToolIds \X Setups, RowsTested,
         NEW v \in ToolView, tpPage' = v,
         \A t \in ToolIds : v.shown[t] = tpPage.shown[t] \/ v.shown[t] = tpTools'[t],
         NEW past \in [made : Nat, lost : BOOLEAN, overtaken : BOOLEAN, untested : BOOLEAN],
         tpPast' = past, past.lost = tpPast.lost, ~past.overtaken => ~tpPast.overtaken,
         \/ FormStays(tpPage.form, v.form) /\ past.made = tpPast.made
         \/ /\ tpPage.form.step = 0 /\ v.form.step = 1 /\ ~v.form.busy /\ past.made = 0
            /\ v.form.saved # 0 /\ ToolThere(tpTools, v.form.saved)
  PROVE  ToolsShape' /\ ToolsStay' /\ ToolsForms' /\ ToolsOnce' /\ ToolForms!ConnectedIsProven'
<1> USE DEF ToolsInv
<1>0. /\ tpCalls' \in [1..MaxOps -> ToolCall] /\ tpCalls'[k] = c
      /\ \A j \in 1..MaxOps : j # k => tpCalls'[j] = tpCalls[j]
  BY ToolCallsMove DEF ToolsShape
<1>1. ToolsShape'
  BY <1>0 DEF ToolsShape
<1>2. \A t \in ToolIds : /\ ToolThere(tpTools, t) => ToolThere(tpTools', t)
                         /\ tpTools'[t] # ToolForms!NoTool => ToolThere(tpTools', t)
  <2> SUFFICES ASSUME NEW t \in ToolIds
               PROVE  /\ ToolThere(tpTools, t) => ToolThere(tpTools', t)
                      /\ tpTools'[t] # ToolForms!NoTool => ToolThere(tpTools', t)
    OBVIOUS
  <2>1. CASE tpTools'[t] = tpTools[t]
    BY <2>1 DEF ToolThere, ToolsStay
  <2>2. CASE tpTools'[t] # tpTools[t]
    BY <2>2 DEF RowsTested, ToolThere
  <2> QED  BY <2>1, <2>2
<1>3. \A t : ToolThere(tpTools, t) => ToolThere(tpTools', t) /\ t \in ToolIds
  <2> SUFFICES ASSUME NEW t, ToolThere(tpTools, t)
               PROVE  ToolThere(tpTools', t) /\ t \in ToolIds
    OBVIOUS
  <2>1. t \in ToolIds
    BY DEF ToolThere
  <2> QED  BY <1>2, <2>1
<1>4. ToolsStay'
  <2>1. \A t \in ToolIds : v.shown[t] # ToolForms!NoTool => ToolThere(tpTools', t)
    BY <1>2, <1>3 DEF ToolsStay
  <2>2. v.form.saved # 0 => ToolThere(tpTools', v.form.saved)
    BY <1>3 DEF ToolsStay, FormStays
  <2>3. v.form.step = 0 => v.form.saved = 0 /\ ~v.form.busy
    BY DEF ToolsStay, FormStays
  <2>4. ASSUME NEW j \in 1..MaxOps, tpCalls'[j].op \in {"card", "assignments"}
        PROVE  ToolThere(tpTools', tpCalls'[j].tool)
    BY <2>4, <1>0, <1>3 DEF ToolsStay
  <2> QED  BY <1>2, <2>1, <2>2, <2>3, <2>4 DEF ToolsStay, ToolThere
<1>5. ASSUME NEW d, FormCall(d)
      PROVE  FormCall(d)'
  <2>1. tpPage.form.busy /\ tpPage.form.step # 0
    BY <1>5 DEF FormCall, ToolsStay
  <2>2. FormStays(tpPage.form, v.form)
    BY <2>1
  <2>3. ASSUME d.tool \in ToolIds, tpPage.form.saved = d.tool
        PROVE  /\ tpTools'[d.tool].setup = tpTools[d.tool].setup
               /\ tpTools'[d.tool].agents = tpTools[d.tool].agents
               /\ ~tpPast.overtaken => tpTools'[d.tool].status = tpTools[d.tool].status
    <3>1. ToolThere(tpTools, d.tool)
      BY <2>3, ToolsBound DEF ToolsStay
    <3> QED  BY <2>3, <3>1 DEF RowsTested
  <2> QED  BY <1>5, <2>2, <2>3 DEF FormCall, FormStays
<1>6. ToolsForms'
  BY <1>0, <1>5 DEF ToolsForms
<1>7. ToolsOnce'
  BY DEF ToolsOnce, FormStays, ToolsShape
<1>8. ToolForms!ConnectedIsProven'
  BY ToolsBound DEF ToolForms!ConnectedIsProven, RowsTested
<1> QED  BY <1>1, <1>4, <1>6, <1>7, <1>8

\* A call without a mark begins or ends.
LEMMA ToolsAloneKept ==
  ASSUME ToolsInv, NEW k \in 1..MaxOps, NEW c \in ToolCall, ToolForms!CallIs(k, c),
         ~Marks(c), tpTools' = tpTools, tpPage'.busy = tpPage.busy,
         ~tpPast'.overtaken => ~tpPast.overtaken,
         \/ tpPage'.form.saved = tpPage.form.saved
         \/ tpPage.busy # <<"card", tpPage'.form.saved>>
  PROVE  ToolsAlone'
<1>0. /\ tpCalls' \in [1..MaxOps -> ToolCall] /\ tpCalls'[k] = c
      /\ \A j \in 1..MaxOps : j # k => tpCalls'[j] = tpCalls[j]
  BY ToolCallsMove DEF ToolsInv, ToolsShape
<1>1. \A d : CardCall(d) => CardCall(d)'
  BY DEF CardCall
<1> QED  BY <1>0, <1>1 DEF ToolsInv, ToolsAlone, Marks

\* An operation takes the mark.
LEMMA ToolsMarkTaken ==
  ASSUME ToolsInv, NEW k \in 1..MaxOps, NEW c \in ToolCall, ToolForms!CallIs(k, c),
         tpTools' = tpTools, tpPage'.form = tpPage.form,
         ~tpPast'.overtaken => ~tpPast.overtaken /\ tpPage.busy = ToolForms!NoBusy,
         \/ /\ c.op = "card" /\ tpPage'.busy = <<"card", c.tool>> /\ c.row = tpTools[c.tool]
            /\ tpPage.form.saved # c.tool
         \/ c.op = "add" /\ tpPage'.busy = <<"catalog", 0>>
  PROVE  ToolsAlone'
<1>0. /\ tpCalls' \in [1..MaxOps -> ToolCall] /\ tpCalls'[k] = c
      /\ \A j \in 1..MaxOps : j # k => tpCalls'[j] = tpCalls[j]
  BY ToolCallsMove DEF ToolsInv, ToolsShape
<1>1. ASSUME ~tpPast'.overtaken, NEW j \in 1..MaxOps
      PROVE  ~Marks(tpCalls[j])
  BY <1>1, ToolsBound DEF ToolsInv, ToolsAlone, Marks, CardCall
<1>2. c.op = "card" => CardCall(c)'
  BY DEF CardCall
<1> QED  BY <1>0, <1>1, <1>2 DEF ToolsAlone, Marks

\* The operation that holds the mark ends.
LEMMA ToolsMarkDropped ==
  ASSUME ToolsInv, NEW k \in 1..MaxOps, NEW c \in ToolCall, ToolForms!CallIs(k, c),
         Marks(tpCalls[k]), ~Marks(c), ~tpPast'.overtaken => ~tpPast.overtaken
  PROVE  ToolsAlone'
<1>0. /\ tpCalls' \in [1..MaxOps -> ToolCall] /\ tpCalls'[k] = c
      /\ \A j \in 1..MaxOps : j # k => tpCalls'[j] = tpCalls[j]
  BY ToolCallsMove DEF ToolsInv, ToolsShape
<1>1. ASSUME ~tpPast'.overtaken, NEW j \in 1..MaxOps
      PROVE  ~Marks(tpCalls'[j])
  BY <1>0, <1>1 DEF ToolsInv, ToolsAlone
<1> QED  BY <1>1 DEF ToolsAlone, Marks

LEMMA ToolsFacts ==
  ASSUME ToolsInv
  PROVE  /\ tpTools \in [ToolIds -> ToolRow] /\ tpPage \in ToolView
         /\ tpCalls \in [1..MaxOps -> ToolCall] /\ tpProven \subseteq ToolIds \X Setups
         /\ tpPast \in [made : Nat, lost : BOOLEAN, overtaken : BOOLEAN, untested : BOOLEAN]
         /\ tpPage.form \in ToolForm /\ tpPage.package \in ToolPackage
         /\ tpPage.shown \in [ToolIds -> ToolRow]
         /\ \A k \in 1..MaxOps : tpCalls[k].form \in ToolForm /\ tpCalls[k].row \in ToolRow
BY ToolViewParts DEF ToolsInv, ToolsShape, ToolCall

\* An operation that is over, and the list that follows a form.
LEMMA ToolsEnds ==
  /\ [ToolForms!NoCall EXCEPT !.at = "over"] \in ToolCall
  /\ [ToolForms!NoCall EXCEPT !.at = "over"].op = "none"
  /\ [ToolForms!NoCall EXCEPT !.at = "over"].at = "over"
<1>1. PICK c \in ToolCall : c = ToolForms!NoCall /\ c.op = "none"
  BY ToolsBound DEF ToolForms!NoCall
<1>2. [c EXCEPT !.at = "over"] \in ToolCall
  BY DEF ToolCall
<1>3. [c EXCEPT !.at = "over"].op = c.op /\ [c EXCEPT !.at = "over"].at = "over"
  BY DEF ToolCall
<1> QED  BY <1>1, <1>2, <1>3

LEMMA ToolsList ==
  ASSUME ToolsInv, NEW k \in 1..MaxOps, ToolForms!load(k)
  PROVE  ToolsInv'
<1>0. PICK c \in ToolCall : /\ ToolForms!CallIs(k, c) /\ c.op = "none" /\ c.at = "over"
                            /\ tpCalls[k].op = "list"
  BY ToolsEnds DEF ToolForms!load, ToolForms!Over
<1>1. PICK rows \in [ToolIds -> ToolRow] :
        /\ tpPage' = [tpPage EXCEPT !.shown = rows, !.loading = FALSE]
        /\ rows = tpTools \/ rows = tpPage.shown
  BY ToolsFacts DEF ToolForms!load
<1>2. tpPage' \in ToolView /\ tpPage'.shown = rows /\ tpPage'.form = tpPage.form
      /\ tpPage'.busy = tpPage.busy
  BY <1>1, ToolsFacts DEF ToolView
<1>3. PICK v \in ToolView : tpPage' = v /\ v.shown = rows /\ v.form = tpPage.form
  BY <1>2
<1>4. PICK past \in [made : Nat, lost : BOOLEAN, overtaken : BOOLEAN, untested : BOOLEAN] :
        tpPast' = past /\ tpPast = past
  BY ToolsFacts DEF ToolForms!load
<1>5. tpTools' = tpTools /\ tpProven' = tpProven /\ RowsTested
  BY DEF ToolForms!load, RowsTested
<1>6. FormStays(tpPage.form, v.form)
  BY <1>3 DEF FormStays
<1>7. ToolsShape' /\ ToolsStay' /\ ToolsForms' /\ ToolsOnce' /\ ToolForms!ConnectedIsProven'
  BY <1>0, <1>1, <1>3, <1>4, <1>5, <1>6, ToolsOthers, ToolsFacts
<1>8. ToolsAlone'
  BY <1>0, <1>2, <1>4, <1>5, ToolsAloneKept DEF Marks
<1> QED  BY <1>7, <1>8 DEF ToolsInv

\* The requests that the operations send.
CardRequest(n, t, r) == [[n EXCEPT !.op = "card", !.tool = t, !.row = r] EXCEPT !.at = "asked"]

LEMMA CardRequestIsSent ==
  ASSUME NEW n \in ToolCall, NEW t \in ToolIds, NEW r \in ToolRow
  PROVE  /\ CardRequest(n, t, r) \in ToolCall
         /\ CardRequest(n, t, r).op = "card" /\ CardRequest(n, t, r).at = "asked"
         /\ CardRequest(n, t, r).tool = t /\ CardRequest(n, t, r).row = r
<1>1. [n EXCEPT !.op = "card", !.tool = t, !.row = r] \in ToolCall
  BY DEF ToolCall
<1>2. PICK m \in ToolCall : m = [n EXCEPT !.op = "card", !.tool = t, !.row = r]
  BY <1>1
<1>3. [m EXCEPT !.at = "asked"] \in ToolCall
  BY DEF ToolCall
<1>4. PICK c \in ToolCall : c = [m EXCEPT !.at = "asked"]
  BY <1>3
<1>5. c.op = "card" /\ c.at = "asked" /\ c.tool = t /\ c.row = r
  BY <1>2, <1>4 DEF ToolCall
<1>6. c = CardRequest(n, t, r)
  BY <1>2, <1>4 DEF CardRequest
<1> QED  BY <1>5, <1>6

PreflightRequest(n, s) == [[n EXCEPT !.op = "preflight", !.row.setup = s] EXCEPT !.at = "asked"]

LEMMA PreflightRequestIsSent ==
  ASSUME NEW n \in ToolCall, NEW s \in Setups
  PROVE  /\ PreflightRequest(n, s) \in ToolCall
         /\ PreflightRequest(n, s).op = "preflight" /\ PreflightRequest(n, s).at = "asked"
         /\ PreflightRequest(n, s).row.setup = s
<1>1. [n EXCEPT !.op = "preflight", !.row.setup = s] \in ToolCall
  BY DEF ToolCall, ToolRow
<1>2. PICK m \in ToolCall : m = [n EXCEPT !.op = "preflight", !.row.setup = s]
  BY <1>1
<1>3. [m EXCEPT !.at = "asked"] \in ToolCall
  BY DEF ToolCall
<1>4. PICK c \in ToolCall : c = [m EXCEPT !.at = "asked"]
  BY <1>3
<1>5. c.op = "preflight" /\ c.at = "asked" /\ c.row.setup = s
  BY <1>2, <1>4 DEF ToolCall, ToolRow
<1>6. c = PreflightRequest(n, s)
  BY <1>2, <1>4 DEF PreflightRequest
<1> QED  BY <1>5, <1>6

AddRequest(n, s) == [[n EXCEPT !.op = "add", !.row.setup = s] EXCEPT !.at = "asked"]

LEMMA AddRequestIsSent ==
  ASSUME NEW n \in ToolCall, NEW s \in Setups
  PROVE  /\ AddRequest(n, s) \in ToolCall
         /\ AddRequest(n, s).op = "add" /\ AddRequest(n, s).at = "asked"
         /\ AddRequest(n, s).row.setup = s
<1>1. [n EXCEPT !.op = "add", !.row.setup = s] \in ToolCall
  BY DEF ToolCall, ToolRow
<1>2. PICK m \in ToolCall : m = [n EXCEPT !.op = "add", !.row.setup = s]
  BY <1>1
<1>3. [m EXCEPT !.at = "asked"] \in ToolCall
  BY DEF ToolCall
<1>4. PICK c \in ToolCall : c = [m EXCEPT !.at = "asked"]
  BY <1>3
<1>5. c.op = "add" /\ c.at = "asked" /\ c.row.setup = s
  BY <1>2, <1>4 DEF ToolCall, ToolRow
<1>6. c = AddRequest(n, s)
  BY <1>2, <1>4 DEF AddRequest
<1> QED  BY <1>5, <1>6

AssignmentsRequest(n, t) == [[n EXCEPT !.op = "assignments", !.tool = t] EXCEPT !.at = "asked"]

LEMMA AssignmentsRequestIsSent ==
  ASSUME NEW n \in ToolCall, NEW t \in ToolIds
  PROVE  /\ AssignmentsRequest(n, t) \in ToolCall
         /\ AssignmentsRequest(n, t).op = "assignments" /\ AssignmentsRequest(n, t).at = "asked"
         /\ AssignmentsRequest(n, t).tool = t
<1>1. [n EXCEPT !.op = "assignments", !.tool = t] \in ToolCall
  BY DEF ToolCall
<1>2. PICK m \in ToolCall : m = [n EXCEPT !.op = "assignments", !.tool = t]
  BY <1>1
<1>3. [m EXCEPT !.at = "asked"] \in ToolCall
  BY DEF ToolCall
<1>4. PICK c \in ToolCall : c = [m EXCEPT !.at = "asked"]
  BY <1>3
<1>5. c.op = "assignments" /\ c.at = "asked" /\ c.tool = t
  BY <1>2, <1>4 DEF ToolCall
<1>6. c = AssignmentsRequest(n, t)
  BY <1>2, <1>4 DEF AssignmentsRequest
<1> QED  BY <1>5, <1>6

FormRequest(n, f) == [[n EXCEPT !.op = "form", !.form = f] EXCEPT !.at = "asked"]

LEMMA FormRequestIsSent ==
  ASSUME NEW n \in ToolCall, NEW f \in ToolForm
  PROVE  /\ FormRequest(n, f) \in ToolCall
         /\ FormRequest(n, f).op = "form" /\ FormRequest(n, f).at = "asked"
         /\ FormRequest(n, f).form = f
<1>1. [n EXCEPT !.op = "form", !.form = f] \in ToolCall
  BY DEF ToolCall
<1>2. PICK m \in ToolCall : m = [n EXCEPT !.op = "form", !.form = f]
  BY <1>1
<1>3. [m EXCEPT !.at = "asked"] \in ToolCall
  BY DEF ToolCall
<1>4. PICK c \in ToolCall : c = [m EXCEPT !.at = "asked"]
  BY <1>3
<1>5. c.op = "form" /\ c.at = "asked" /\ c.form = f
  BY <1>2, <1>4 DEF ToolCall
<1>6. c = FormRequest(n, f)
  BY <1>2, <1>4 DEF FormRequest
<1> QED  BY <1>5, <1>6

LEMMA ToolPastOvertaken ==
  ASSUME ToolsInv, NEW b \in BOOLEAN, NEW u \in BOOLEAN,
         tpPast' = [tpPast EXCEPT !.overtaken = @ \/ b, !.untested = @ \/ u]
         \/ tpPast' = [tpPast EXCEPT !.overtaken = @ \/ b]
  PROVE  \E past \in [made : Nat, lost : BOOLEAN, overtaken : BOOLEAN, untested : BOOLEAN] :
           /\ tpPast' = past /\ past.made = tpPast.made /\ past.lost = tpPast.lost
           /\ ~past.overtaken => ~tpPast.overtaken /\ ~b
<1>1. PICK p \in [made : Nat, lost : BOOLEAN, overtaken : BOOLEAN, untested : BOOLEAN] : p = tpPast
  BY ToolsFacts
<1>2. PICK o \in BOOLEAN, v \in BOOLEAN : /\ o = (p.overtaken \/ b) /\ (~o => ~p.overtaken /\ ~b)
                                         /\ v = (p.untested \/ u)
  OBVIOUS
<1>3. tpPast' = [p EXCEPT !.overtaken = o, !.untested = v] \/ tpPast' = [p EXCEPT !.overtaken = o]
  BY <1>1, <1>2
<1> HIDE DEF ToolsInv
<1>4. CASE tpPast' = [p EXCEPT !.overtaken = o, !.untested = v]
  <2>1. /\ tpPast' \in [made : Nat, lost : BOOLEAN, overtaken : BOOLEAN, untested : BOOLEAN]
        /\ tpPast'.made = p.made
    BY <1>4
  <2>2. tpPast'.lost = p.lost /\ tpPast'.overtaken = o
    BY <1>4
  <2> QED  BY <1>1, <1>2, <2>1, <2>2
<1>5. CASE tpPast' = [p EXCEPT !.overtaken = o]
  <2>1. /\ tpPast' \in [made : Nat, lost : BOOLEAN, overtaken : BOOLEAN, untested : BOOLEAN]
        /\ tpPast'.made = p.made
    BY <1>5
  <2>2. tpPast'.lost = p.lost /\ tpPast'.overtaken = o
    BY <1>5
  <2> QED  BY <1>1, <1>2, <2>1, <2>2
<1> QED  BY <1>3, <1>4, <1>5

LEMMA ToolsTestCard ==
  ASSUME ToolsInv, NEW k \in 1..MaxOps, ToolForms!testConnection(k)
  PROVE  ToolsInv'
<1>1. PICK t \in ToolIds :
        /\ ToolForms!Idle(t)
        /\ ToolForms!Asks(k, [ToolForms!NoCall EXCEPT !.op = "card", !.tool = t, !.row = tpTools[t]],
                          [tpPage EXCEPT !.busy = <<"card", t>>])
        /\ tpPast' = [tpPast EXCEPT !.overtaken = @ \/ tpPage.busy # ToolForms!NoBusy]
  BY ToolsBound DEF ToolForms!testConnection
<1>2. PICK r \in ToolRow : r = tpTools[t]
  BY ToolsFacts
<1>3. PICK n \in ToolCall : n = ToolForms!NoCall
  BY ToolsBound
<1>4. PICK c \in ToolCall : /\ c = CardRequest(n, t, r) /\ c.op = "card" /\ c.at = "asked"
                            /\ c.tool = t /\ c.row = r
  BY CardRequestIsSent
<1>5. ToolForms!CallIs(k, c) /\ tpCalls[k].op = "none" /\ tpTools' = tpTools /\ tpProven' = tpProven
  <2>1. ToolForms!CallIs(k, c)
    BY <1>1, <1>2, <1>3, <1>4 DEF ToolForms!Asks, CardRequest
  <2>2. tpCalls[k].op = "none"
    BY <1>1 DEF ToolForms!Asks, ToolForms!NoCall
  <2> QED  BY <1>1, <2>1, <2>2 DEF ToolForms!Asks
<1>6. tpPage' \in ToolView /\ tpPage'.busy = <<"card", t>> /\ tpPage'.form = tpPage.form
      /\ tpPage'.shown = tpPage.shown
  BY <1>1, ToolsFacts DEF ToolForms!Asks, ToolView
<1>7. PICK v \in ToolView : tpPage' = v /\ v.shown = tpPage.shown /\ v.form = tpPage.form
  BY <1>6
<1>8. PICK b \in BOOLEAN : b = (tpPage.busy # ToolForms!NoBusy) /\ (~b => tpPage.busy = ToolForms!NoBusy)
  OBVIOUS
<1>9. PICK past \in [made : Nat, lost : BOOLEAN, overtaken : BOOLEAN, untested : BOOLEAN] :
        /\ tpPast' = past /\ past.made = tpPast.made /\ past.lost = tpPast.lost
        /\ ~past.overtaken => ~tpPast.overtaken /\ ~b
  <2>1. tpPast' = [tpPast EXCEPT !.overtaken = @ \/ b]
    BY <1>1, <1>8
  <2> QED  BY <2>1, ToolPastOvertaken
<1>10. ToolThere(tpTools, t) /\ tpPage.form.saved # t
  BY <1>1, ToolsBound DEF ToolForms!Idle, ToolForms!Modal, ToolsInv, ToolsStay
<1>11. RowsTested /\ FormStays(tpPage.form, v.form)
  BY <1>5, <1>7 DEF RowsTested, FormStays
<1>12. ToolsShape' /\ ToolsStay' /\ ToolsForms' /\ ToolsOnce' /\ ToolForms!ConnectedIsProven'
  BY <1>4, <1>5, <1>7, <1>9, <1>10, <1>11, ToolsOthers, ToolsFacts
<1>13. ToolsAlone'
  BY <1>2, <1>4, <1>5, <1>6, <1>8, <1>9, <1>10, ToolsMarkTaken
<1> QED  BY <1>12, <1>13 DEF ToolsInv

LEMMA ToolsCardTested ==
  ASSUME ToolsInv, NEW k \in 1..MaxOps, ToolForms!ConnectionTested(k)
  PROVE  ToolsInv'
<1>0. PICK c \in ToolCall : /\ ToolForms!CallIs(k, c) /\ c.op = "none" /\ c.at = "over"
                            /\ tpCalls[k].op = "card" /\ tpPast' = tpPast
  BY ToolsEnds DEF ToolForms!ConnectionTested, ToolForms!Over
<1>1. PICK t \in ToolIds, r \in ToolRow : /\ t = tpCalls[k].tool /\ r = tpCalls[k].row
                                         /\ ToolThere(tpTools, t)
  BY <1>0, ToolsFacts DEF ToolsInv, ToolsStay, ToolThere
<1>2. PICK status \in {"connected", "error"} :
        /\ tpTools' = IF status = r.status \/ r.status = "disabled" THEN tpTools
                      ELSE [tpTools EXCEPT ![t].status = status]
        /\ tpProven' = tpProven \union {<<t, r.setup>> : s \in {status} \ {"error"}}
  BY <1>1 DEF ToolForms!ConnectionTested
<1>3. PICK row : /\ row = tpTools'[t] \/ row = tpPage.shown[t]
                 /\ tpPage' = [tpPage EXCEPT !.shown[t] = row, !.busy = ToolForms!NoBusy]
  BY <1>1 DEF ToolForms!ConnectionTested
<1>4. r.setup \in Setups
  BY DEF ToolRow
<1>5. /\ tpProven \subseteq tpProven' /\ tpProven' \subseteq ToolIds \X Setups
      /\ status = "connected" => <<t, r.setup>> \in tpProven'
  BY <1>2, <1>4, ToolsFacts
<1>6. /\ tpTools' \in [ToolIds -> ToolRow]
      /\ \A u \in ToolIds : u # t => tpTools'[u] = tpTools[u]
      /\ \/ tpTools'[t] = tpTools[t]
         \/ /\ tpTools'[t].status = status /\ tpTools'[t].setup = tpTools[t].setup
            /\ tpTools'[t].agents = tpTools[t].agents
  <2>1. PICK q \in ToolRow : q = tpTools[t]
    BY ToolsFacts
  <2>2. [q EXCEPT !.status = status] \in ToolRow
    BY DEF ToolRow
  <2>3. PICK w \in ToolRow : w = [q EXCEPT !.status = status]
    BY <2>2
  <2>4. w.status = status /\ w.setup = q.setup /\ w.agents = q.agents
    BY <2>3 DEF ToolRow
  <2>5. tpTools' = tpTools \/ tpTools' = [tpTools EXCEPT ![t] = w]
    BY <1>2, <2>1, <2>3
  <2> QED  BY <2>1, <2>4, <2>5, ToolsFacts
<1>7. RowsTested
  <2>1. ~tpPast.overtaken => tpTools[t].setup = r.setup /\ tpPage.form.saved # t
    BY <1>0, <1>1 DEF ToolsInv, ToolsAlone, CardCall
  <2>2. ASSUME NEW u \in ToolIds, tpTools'[u] # tpTools[u]
        PROVE  /\ u = t /\ ToolThere(tpTools, u) /\ tpTools'[u].status \in {"connected", "error"}
               /\ tpTools'[u].setup = tpTools[u].setup /\ tpTools'[u].agents = tpTools[u].agents
               /\ tpTools'[u].status = status
    BY <1>1, <1>6, <2>2
  <2> QED  BY <1>5, <2>1, <2>2 DEF RowsTested
<1>8. /\ tpPage' \in ToolView /\ tpPage'.form = tpPage.form
      /\ \A u \in ToolIds : tpPage'.shown[u] = tpPage.shown[u] \/ tpPage'.shown[u] = tpTools'[u]
  <2>1. PICK w \in ToolRow : w = row
    BY <1>3, <1>6, ToolsFacts
  <2>2. PICK v \in ToolView : v = tpPage
    BY ToolsFacts
  <2>3. PICK rows \in [ToolIds -> ToolRow] : rows = [v.shown EXCEPT ![t] = w]
    BY ToolViewParts
  <2>4. tpPage' = [v EXCEPT !.shown = rows, !.busy = <<"none", 0>>]
    BY <1>3, <2>1, <2>2, <2>3, ToolsBound
  <2>5. tpPage' \in ToolView /\ tpPage'.form = v.form /\ tpPage'.shown = rows
    BY <2>4 DEF ToolView
  <2> QED  BY <1>3, <2>1, <2>2, <2>3, <2>5, ToolViewParts
<1>9. PICK v \in ToolView : /\ tpPage' = v /\ v.form = tpPage.form
        /\ \A u \in ToolIds : v.shown[u] = tpPage.shown[u] \/ v.shown[u] = tpTools'[u]
  BY <1>8
<1>10. PICK past \in [made : Nat, lost : BOOLEAN, overtaken : BOOLEAN, untested : BOOLEAN] :
        tpPast' = past /\ past = tpPast
  BY <1>0, ToolsFacts
<1>11. FormStays(tpPage.form, v.form)
  BY <1>9 DEF FormStays
<1>12. ToolsShape' /\ ToolsStay' /\ ToolsForms' /\ ToolsOnce' /\ ToolForms!ConnectedIsProven'
  BY <1>0, <1>5, <1>6, <1>7, <1>9, <1>10, <1>11, ToolsOthers
<1>13. ToolsAlone'
  BY <1>0, ToolsMarkDropped DEF Marks
<1> QED  BY <1>12, <1>13 DEF ToolsInv

\* The dialog's test begins, or a package is sent.
LEMMA ToolsPackageSent ==
  ASSUME ToolsInv, NEW k \in 1..MaxOps, ToolForms!testPackage(k) \/ ToolForms!addPackageTool(k)
  PROVE  ToolsInv'
<1>1. PICK n \in ToolCall, s \in Setups : n = ToolForms!NoCall /\ s = tpPage.package.setup
  BY ToolsBound, ToolsFacts DEF ToolPackage
<1>2. PICK c \in ToolCall, b \in BOOLEAN :
        /\ c.op = (IF b THEN "add" ELSE "preflight") /\ c.at = "asked"
        /\ IF b THEN c = AddRequest(n, s) /\ ToolForms!addPackageTool(k)
                ELSE c = PreflightRequest(n, s) /\ ToolForms!testPackage(k)
  <2>1. CASE ToolForms!addPackageTool(k)
    <3>1. PICK c \in ToolCall : c = AddRequest(n, s) /\ c.op = "add" /\ c.at = "asked"
      BY AddRequestIsSent
    <3> QED  BY <2>1, <3>1
  <2>2. CASE ToolForms!testPackage(k)
    <3>1. PICK c \in ToolCall : c = PreflightRequest(n, s) /\ c.op = "preflight" /\ c.at = "asked"
      BY PreflightRequestIsSent
    <3> QED  BY <2>2, <3>1
  <2> QED  BY <2>1, <2>2
<1>3. ToolForms!CallIs(k, c) /\ tpCalls[k].op = "none" /\ tpTools' = tpTools /\ tpProven' = tpProven
  <2>1. ToolForms!CallIs(k, c)
    BY <1>1, <1>2 DEF ToolForms!testPackage, ToolForms!addPackageTool, ToolForms!Asks,
                      PreflightRequest, AddRequest
  <2>2. tpCalls[k].op = "none" /\ tpTools' = tpTools /\ tpProven' = tpProven
    BY DEF ToolForms!testPackage, ToolForms!addPackageTool, ToolForms!Asks, ToolForms!NoCall
  <2> QED  BY <2>1, <2>2
<1>4. /\ tpPage' \in ToolView /\ tpPage'.form = tpPage.form /\ tpPage'.shown = tpPage.shown
      /\ tpPage'.busy = IF b THEN <<"catalog", 0>> ELSE tpPage.busy
  <2>1. CASE b
    <3>1. tpPage' = [tpPage EXCEPT !.busy = <<"catalog", 0>>]
      BY <1>2, <2>1 DEF ToolForms!addPackageTool, ToolForms!Asks
    <3> QED  BY <2>1, <3>1, ToolsFacts DEF ToolView
  <2>2. CASE ~b
    <3>1. PICK p \in ToolPackage : p = [tpPage.package EXCEPT !.tested = FALSE]
      <4>1. PICK q \in ToolPackage : q = tpPage.package
        BY ToolsFacts
      <4>2. [q EXCEPT !.tested = FALSE] \in ToolPackage
        BY DEF ToolPackage
      <4> QED  BY <4>1, <4>2
    <3>2. tpPage' = [tpPage EXCEPT !.testing = TRUE, !.package = p]
      BY <1>2, <2>2, <3>1 DEF ToolForms!testPackage, ToolForms!Asks
    <3> QED  BY <2>2, <3>2, ToolsFacts DEF ToolView
  <2> QED  BY <2>1, <2>2
<1>5. PICK v \in ToolView : tpPage' = v /\ v.shown = tpPage.shown /\ v.form = tpPage.form
  BY <1>4
<1>6. PICK past \in [made : Nat, lost : BOOLEAN, overtaken : BOOLEAN, untested : BOOLEAN] :
        /\ tpPast' = past /\ past.made = tpPast.made /\ past.lost = tpPast.lost
        /\ ~past.overtaken => ~tpPast.overtaken /\ (b => tpPage.busy = ToolForms!NoBusy)
  <2>1. CASE b
    <3>1. PICK d \in BOOLEAN : d = (tpPage.busy # ToolForms!NoBusy) /\ (~d => tpPage.busy = ToolForms!NoBusy)
      OBVIOUS
    <3>2. PICK u \in BOOLEAN : u = (tpPage.package.setup \notin tpPage.package.proof)
      OBVIOUS
    <3>3. tpPast' = [tpPast EXCEPT !.overtaken = @ \/ d, !.untested = @ \/ u]
      BY <1>2, <2>1, <3>1, <3>2 DEF ToolForms!addPackageTool
    <3> QED  BY <3>1, <3>3, ToolPastOvertaken
  <2>2. CASE ~b
    BY <1>2, <2>2, ToolsFacts DEF ToolForms!testPackage
  <2> QED  BY <2>1, <2>2
<1>7. RowsTested /\ FormStays(tpPage.form, v.form)
  BY <1>3, <1>5 DEF RowsTested, FormStays
<1>8. c.op # "form" /\ c.op \notin {"card", "assignments"} /\ c.at \notin {"prove", "assign", "done"} /\ (b => c.op = "add")
      /\ (~b => ~Marks(c))
  BY <1>2 DEF Marks
<1>9. ToolsShape' /\ ToolsStay' /\ ToolsForms' /\ ToolsOnce' /\ ToolForms!ConnectedIsProven'
  BY <1>3, <1>5, <1>6, <1>7, <1>8, ToolsOthers, ToolsFacts
<1>10. ToolsAlone'
  <2>1. CASE b
    BY <1>3, <1>4, <1>6, <1>8, <2>1, ToolsMarkTaken
  <2>2. CASE ~b
    BY <1>3, <1>4, <1>6, <1>8, <2>2, ToolsAloneKept
  <2> QED  BY <2>1, <2>2
<1> QED  BY <1>9, <1>10 DEF ToolsInv

\* The dialog's test is answered, whatever its fields hold by now.
LEMMA ToolsPackageTested ==
  ASSUME ToolsInv, NEW k \in 1..MaxOps, ToolForms!PackageTested(k)
  PROVE  ToolsInv'
<1>0. PICK c \in ToolCall : /\ ToolForms!CallIs(k, c) /\ c.op = "none" /\ c.at = "over"
        /\ tpCalls[k].op = "preflight" /\ tpPast' = tpPast /\ tpTools' = tpTools /\ tpProven' = tpProven
  BY ToolsEnds DEF ToolForms!PackageTested, ToolForms!Over
<1>1. PICK ok \in BOOLEAN :
        tpPage' = [tpPage EXCEPT !.testing = FALSE, !.package.tested = ok,
                     !.package.proof = @ \union {tpCalls[k].row.setup : y \in {ok} \ {FALSE}}]
  BY DEF ToolForms!PackageTested
<1>2. PICK s \in Setups : s = tpCalls[k].row.setup
  BY ToolsFacts DEF ToolRow
<1>3. PICK q \in ToolPackage : q = tpPage.package
  BY ToolsFacts
<1>4. PICK proof \in SUBSET Setups : proof = q.proof \union {s : y \in {ok} \ {FALSE}}
  BY DEF ToolPackage
<1>5. PICK p \in ToolPackage : p = [q EXCEPT !.tested = ok, !.proof = proof]
  <2>1. [q EXCEPT !.tested = ok] \in ToolPackage
    BY DEF ToolPackage
  <2>2. PICK r \in ToolPackage : r = [q EXCEPT !.tested = ok]
    BY <2>1
  <2>3. [r EXCEPT !.proof = proof] \in ToolPackage
    BY DEF ToolPackage
  <2> QED  BY <2>2, <2>3
<1>6. tpPage' = [tpPage EXCEPT !.testing = FALSE, !.package = p]
  <2>1. {tpCalls[k].row.setup : y \in {ok} \ {FALSE}} = {s : y \in {ok} \ {FALSE}}
    BY <1>2
  <2>2. p = [tpPage.package EXCEPT !.tested = ok,
               !.proof = @ \union {tpCalls[k].row.setup : y \in {ok} \ {FALSE}}]
    BY <1>3, <1>4, <1>5, <2>1
  <2> QED  BY <1>1, <2>2
<1>7. tpPage' \in ToolView /\ tpPage'.form = tpPage.form /\ tpPage'.shown = tpPage.shown
      /\ tpPage'.busy = tpPage.busy
  BY <1>6, ToolsFacts DEF ToolView
<1>8. PICK v \in ToolView : tpPage' = v /\ v.shown = tpPage.shown /\ v.form = tpPage.form
  BY <1>7
<1>9. PICK past \in [made : Nat, lost : BOOLEAN, overtaken : BOOLEAN, untested : BOOLEAN] :
        tpPast' = past /\ past = tpPast
  BY <1>0, ToolsFacts
<1>10. RowsTested /\ FormStays(tpPage.form, v.form)
  BY <1>0, <1>8 DEF RowsTested, FormStays
<1>11. ToolsShape' /\ ToolsStay' /\ ToolsForms' /\ ToolsOnce' /\ ToolForms!ConnectedIsProven'
  BY <1>0, <1>8, <1>9, <1>10, ToolsOthers, ToolsFacts
<1>12. ToolsAlone'
  BY <1>0, <1>7, ToolsAloneKept DEF Marks
<1> QED  BY <1>11, <1>12 DEF ToolsInv

LEMMA ToolsPackageAdded ==
  ASSUME ToolsInv, NEW k \in 1..MaxOps, ToolForms!PackageAdded(k)
  PROVE  ToolsInv'
<1>0. PICK c \in ToolCall : /\ ToolForms!CallIs(k, c) /\ c.op = "none" /\ c.at = "over"
                            /\ tpCalls[k].op = "add" /\ tpPast' = tpPast
  BY ToolsEnds DEF ToolForms!PackageAdded, ToolForms!Over
<1>1. PICK row \in ToolRow : row = [tpCalls[k].row EXCEPT !.status = "connected"]
                             /\ row.status = "connected" /\ row.setup \in Setups
  <2>1. PICK r \in ToolRow : r = tpCalls[k].row
    BY ToolsFacts
  <2>2. /\ [r EXCEPT !.status = "connected"] \in ToolRow
        /\ [r EXCEPT !.status = "connected"].status = "connected"
        /\ [r EXCEPT !.status = "connected"].setup \in Setups
    BY DEF ToolRow
  <2> QED  BY <2>1, <2>2
<1>2. /\ tpPage' \in ToolView /\ tpPage'.form = tpPage.form
      /\ \A u \in ToolIds : tpPage'.shown[u] = tpPage.shown[u] \/ tpPage'.shown[u] = tpTools'[u]
      /\ tpTools' \in [ToolIds -> ToolRow] /\ RowsTested
      /\ tpProven \subseteq tpProven' /\ tpProven' \subseteq ToolIds \X Setups
  <2>1. CASE tpPage' = [tpPage EXCEPT !.busy = ToolForms!NoBusy] /\ UNCHANGED <<tpTools, tpProven>>
    <3>1. tpPage' \in ToolView /\ tpPage'.form = tpPage.form /\ tpPage'.shown = tpPage.shown
      BY <2>1, ToolsFacts, ToolsBound DEF ToolView
    <3> QED  BY <2>1, <3>1, ToolsFacts DEF RowsTested
  <2>2. ASSUME NEW t \in ToolForms!FirstNew,
               tpTools' = [tpTools EXCEPT ![t] = row], tpProven' = tpProven \union {<<t, row.setup>>},
               tpPage' = [tpPage EXCEPT !.busy = ToolForms!NoBusy, !.package = ToolForms!NoPackage,
                                        !.shown[t] = row]
        PROVE  /\ tpPage' \in ToolView /\ tpPage'.form = tpPage.form
               /\ \A u \in ToolIds : tpPage'.shown[u] = tpPage.shown[u] \/ tpPage'.shown[u] = tpTools'[u]
               /\ tpTools' \in [ToolIds -> ToolRow] /\ RowsTested
               /\ tpProven \subseteq tpProven' /\ tpProven' \subseteq ToolIds \X Setups
    <3>1. t \in ToolIds /\ ~ToolThere(tpTools, t)
      BY ToolsBound DEF ToolForms!FirstNew, ToolThere
    <3>2. /\ tpTools' \in [ToolIds -> ToolRow] /\ tpTools'[t] = row
          /\ \A u \in ToolIds : u # t => tpTools'[u] = tpTools[u]
      BY <2>2, <3>1, ToolsFacts
    <3>3. tpProven \subseteq tpProven' /\ tpProven' \subseteq ToolIds \X Setups
          /\ <<t, row.setup>> \in tpProven'
      BY <1>1, <2>2, <3>1, ToolsFacts
    <3>4. RowsTested
      BY <1>1, <3>1, <3>2, <3>3 DEF RowsTested
    <3>5. PICK v \in ToolView : v = tpPage
      BY ToolsFacts
    <3>6. PICK rows \in [ToolIds -> ToolRow] : rows = [v.shown EXCEPT ![t] = row]
      BY ToolViewParts
    <3>7. tpPage' = [v EXCEPT !.busy = <<"none", 0>>, !.package = ToolForms!NoPackage, !.shown = rows]
      BY <2>2, <3>5, <3>6, ToolsBound
    <3>8. tpPage' \in ToolView /\ tpPage'.form = v.form /\ tpPage'.shown = rows
      BY <3>7, ToolsBound DEF ToolView
    <3>9. \A u \in ToolIds : tpPage'.shown[u] = tpPage.shown[u] \/ tpPage'.shown[u] = tpTools'[u]
      BY <3>1, <3>2, <3>5, <3>6, <3>8, ToolViewParts
    <3> QED  BY <3>2, <3>3, <3>4, <3>5, <3>8, <3>9
  <2> QED  BY <1>1, <2>1, <2>2 DEF ToolForms!PackageAdded
<1>3. PICK v \in ToolView : /\ tpPage' = v /\ v.form = tpPage.form
        /\ \A u \in ToolIds : v.shown[u] = tpPage.shown[u] \/ v.shown[u] = tpTools'[u]
  BY <1>2
<1>4. PICK past \in [made : Nat, lost : BOOLEAN, overtaken : BOOLEAN, untested : BOOLEAN] :
        tpPast' = past /\ past = tpPast
  BY <1>0, ToolsFacts
<1>5. FormStays(tpPage.form, v.form)
  BY <1>3 DEF FormStays
<1>6. ToolsShape' /\ ToolsStay' /\ ToolsForms' /\ ToolsOnce' /\ ToolForms!ConnectedIsProven'
  BY <1>0, <1>2, <1>3, <1>4, <1>5, ToolsOthers
<1>7. ToolsAlone'
  BY <1>0, ToolsMarkDropped DEF Marks
<1> QED  BY <1>6, <1>7 DEF ToolsInv

\* The form of a Tool is opened; a card that is busy cannot open it.
LEMMA ToolsEdit ==
  ASSUME ToolsInv, NEW k \in 1..MaxOps, ToolForms!openEdit(k)
  PROVE  ToolsInv'
<1>1. PICK t \in ToolIds :
        /\ ToolForms!Idle(t) /\ tpPast' = [tpPast EXCEPT !.made = 0]
        /\ ToolForms!Asks(k, [ToolForms!NoCall EXCEPT !.op = "assignments", !.tool = t],
             [tpPage EXCEPT !.form = [ToolForms!NoForm EXCEPT !.saved = t, !.step = 1,
                !.setup = tpPage.shown[t].setup, !.enabled = tpPage.shown[t].status # "disabled"]])
  BY ToolsBound DEF ToolForms!openEdit
<1>2. PICK n \in ToolCall : n = ToolForms!NoCall
  BY ToolsBound
<1>3. PICK c \in ToolCall : /\ c = AssignmentsRequest(n, t) /\ c.op = "assignments" /\ c.at = "asked"
                            /\ c.tool = t
  BY AssignmentsRequestIsSent
<1>4. ToolForms!CallIs(k, c) /\ tpCalls[k].op = "none" /\ tpTools' = tpTools /\ tpProven' = tpProven
  <2>1. ToolForms!CallIs(k, c)
    BY <1>1, <1>2, <1>3 DEF ToolForms!Asks, AssignmentsRequest
  <2>2. tpCalls[k].op = "none"
    BY <1>1 DEF ToolForms!Asks, ToolForms!NoCall
  <2> QED  BY <1>1, <2>1, <2>2 DEF ToolForms!Asks
<1>5. PICK f \in ToolForm :
        /\ f = [ToolForms!NoForm EXCEPT !.saved = t, !.step = 1,
                !.setup = tpPage.shown[t].setup, !.enabled = tpPage.shown[t].status # "disabled"]
        /\ f.saved = t /\ f.step = 1 /\ ~f.busy
  <2>1. PICK e \in ToolForm : e = ToolForms!NoForm /\ ~e.busy
    BY ToolsBound DEF ToolForms!NoForm
  <2>2. PICK s \in Setups : s = tpPage.shown[t].setup
    BY ToolsFacts DEF ToolRow
  <2>3. PICK b \in BOOLEAN : b = (tpPage.shown[t].status # "disabled")
    OBVIOUS
  <2>4. PICK g \in ToolForm : g = [e EXCEPT !.saved = t, !.step = 1, !.setup = s]
    <3>1. PICK h \in ToolForm : h = [e EXCEPT !.saved = t]
      <4>1. [e EXCEPT !.saved = t] \in ToolForm
        BY DEF ToolForm
      <4> QED  BY <4>1
    <3>2. PICK i \in ToolForm : i = [h EXCEPT !.step = 1]
      BY ToolStepShown
    <3>3. [i EXCEPT !.setup = s] \in ToolForm
      BY DEF ToolForm
    <3> QED  BY <3>1, <3>2, <3>3
  <2>5. [g EXCEPT !.enabled = b] \in ToolForm
    BY DEF ToolForm
  <2>6. PICK f \in ToolForm : f = [g EXCEPT !.enabled = b]
    BY <2>5
  <2>7. f.saved = t /\ f.step = 1 /\ f.busy = e.busy
    BY <2>4, <2>6 DEF ToolForm
  <2> QED  BY <2>1, <2>2, <2>3, <2>4, <2>6, <2>7
<1>6. PICK v \in ToolView : /\ v = [tpPage EXCEPT !.form = f] /\ v.form = f
                            /\ v.shown = tpPage.shown /\ v.busy = tpPage.busy
  BY ToolsFacts, ToolFormShown
<1>7. tpPage' = v
  BY <1>1, <1>5, <1>6 DEF ToolForms!Asks
<1>8. /\ tpPast' \in [made : Nat, lost : BOOLEAN, overtaken : BOOLEAN, untested : BOOLEAN]
      /\ tpPast'.made = 0 /\ tpPast'.lost = tpPast.lost /\ tpPast'.overtaken = tpPast.overtaken
  BY <1>1, ToolsFacts
<1>9. PICK past \in [made : Nat, lost : BOOLEAN, overtaken : BOOLEAN, untested : BOOLEAN] :
        tpPast' = past /\ past.made = 0 /\ past.lost = tpPast.lost /\ past.overtaken = tpPast.overtaken
  BY <1>8
<1>10. ToolThere(tpTools, t) /\ tpPage.form.step = 0 /\ tpPage.busy # <<"card", t>> /\ t # 0
  BY <1>1, ToolsBound DEF ToolForms!Idle, ToolForms!Modal, ToolsInv, ToolsStay
<1>11. RowsTested
  BY <1>4 DEF RowsTested
<1>12. /\ v.form.step = 1 /\ ~v.form.busy /\ v.form.saved # 0 /\ ToolThere(tpTools, v.form.saved)
  BY <1>5, <1>6, <1>10
<1>13. ToolsShape' /\ ToolsStay' /\ ToolsForms' /\ ToolsOnce' /\ ToolForms!ConnectedIsProven'
  BY <1>3, <1>4, <1>6, <1>7, <1>9, <1>10, <1>11, <1>12, ToolsOthers, ToolsFacts
<1>14. ToolsAlone'
  <2>1. /\ ~Marks(c) /\ tpPage'.busy = tpPage.busy /\ tpPage.busy # <<"card", tpPage'.form.saved>>
        /\ ~tpPast'.overtaken => ~tpPast.overtaken
    BY <1>3, <1>5, <1>6, <1>7, <1>9, <1>10 DEF Marks
  <2> QED  BY <1>4, <2>1, ToolsAloneKept
<1> QED  BY <1>13, <1>14 DEF ToolsInv

LEMMA ToolsAssignmentsShown ==
  ASSUME ToolsInv, NEW k \in 1..MaxOps, ToolForms!AssignmentsAnswer(k)
  PROVE  ToolsInv'
<1>0. PICK c \in ToolCall : /\ ToolForms!CallIs(k, c) /\ c.op = "none" /\ c.at = "over"
        /\ tpCalls[k].op = "assignments" /\ tpPast' = tpPast /\ tpTools' = tpTools /\ tpProven' = tpProven
  BY ToolsEnds DEF ToolForms!AssignmentsAnswer, ToolForms!Over
<1>1. PICK agents : /\ tpPage' = [tpPage EXCEPT !.form.agents = agents]
                    /\ agents = tpTools[tpCalls[k].tool].agents \/ agents = tpPage.form.agents
  BY DEF ToolForms!AssignmentsAnswer
<1>2. agents \in SUBSET ToolAgents
  <2>1. ToolThere(tpTools, tpCalls[k].tool)
    BY <1>0 DEF ToolsInv, ToolsStay
  <2>2. tpTools[tpCalls[k].tool].agents \in SUBSET ToolAgents
    BY <2>1, ToolsFacts DEF ToolThere, ToolRow
  <2>3. tpPage.form.agents \in SUBSET ToolAgents
    BY ToolsFacts DEF ToolForm
  <2> QED  BY <1>1, <2>2, <2>3
<1>3. PICK e \in ToolForm : e = tpPage.form
  BY ToolsFacts
<1>4. [e EXCEPT !.agents = agents] \in ToolForm
  BY <1>2 DEF ToolForm
<1>5. PICK f \in ToolForm : f = [e EXCEPT !.agents = agents]
  BY <1>4
<1>6. FormStays(e, f)
  BY <1>5 DEF ToolForm, FormStays
<1>7. PICK v \in ToolView : /\ v = [tpPage EXCEPT !.form = f] /\ v.form = f
                            /\ v.shown = tpPage.shown /\ v.busy = tpPage.busy
  BY ToolsFacts, ToolFormShown
<1>8. tpPage' = v
  BY <1>1, <1>3, <1>5, <1>7
<1>9. PICK past \in [made : Nat, lost : BOOLEAN, overtaken : BOOLEAN, untested : BOOLEAN] :
        tpPast' = past /\ past = tpPast
  BY <1>0, ToolsFacts
<1>10. RowsTested
  BY <1>0 DEF RowsTested
<1>11. ToolsShape' /\ ToolsStay' /\ ToolsForms' /\ ToolsOnce' /\ ToolForms!ConnectedIsProven'
  BY <1>0, <1>3, <1>6, <1>7, <1>8, <1>9, <1>10, ToolsOthers, ToolsFacts
<1>12. ToolsAlone'
  BY <1>0, <1>3, <1>6, <1>7, <1>8, <1>9, ToolsAloneKept DEF Marks, FormStays
<1> QED  BY <1>11, <1>12 DEF ToolsInv

\* A step of the form's request: the row it writes, t, is the form's or a new one.
LEMMA ToolsFormStep ==
  ASSUME ToolsInv, NEW k \in 1..MaxOps, NEW c \in ToolCall, ToolForms!CallIs(k, c),
         \A j \in 1..MaxOps : tpCalls[j].op = "form" => j = k, ~Marks(tpCalls[k]),
         (c.op = "form" /\ FormCall(c)') \/ (c.op \in {"none", "list"} /\ c.at \in {"over", "asked"}),
         tpTools' \in [ToolIds -> ToolRow], tpProven \subseteq tpProven',
         tpProven' \subseteq ToolIds \X Setups,
         NEW t, t = tpPage.form.saved \/ ~ToolThere(tpTools, t),
         \A u \in ToolIds : u # t => tpTools'[u] = tpTools[u],
         t \in ToolIds => \/ tpTools'[t] = tpTools[t]
                         \/ /\ tpTools'[t].status # "none"
                            /\ tpTools'[t].status = "connected" =>
                                 \/ <<t, tpTools'[t].setup>> \in tpProven'
                                 \/ /\ tpTools[t].status = "connected"
                                    /\ tpTools'[t].setup = tpTools[t].setup,
         NEW v \in ToolView, tpPage' = v, v.shown = tpPage.shown, v.busy = tpPage.busy,
         v.form.saved \in {0, tpPage.form.saved} \/ (v.form.saved = t /\ ToolThere(tpTools', t)),
         v.form.step = 0 => v.form.saved = 0 /\ ~v.form.busy,
         tpPast' \in [made : Nat, lost : BOOLEAN, overtaken : BOOLEAN, untested : BOOLEAN],
         tpPast'.overtaken = tpPast.overtaken, ToolsOnce'
  PROVE  ToolsInv'
<1>0. /\ tpCalls' \in [1..MaxOps -> ToolCall] /\ tpCalls'[k] = c
      /\ \A j \in 1..MaxOps : j # k => tpCalls'[j] = tpCalls[j]
  BY ToolCallsMove, ToolsFacts
<1>1. ToolsShape'
  BY <1>0 DEF ToolsShape
<1>2. ASSUME NEW u \in ToolIds
      PROVE  /\ ToolThere(tpTools, u) => ToolThere(tpTools', u)
             /\ tpTools'[u] # ToolForms!NoTool => ToolThere(tpTools', u)
  <2>1. CASE tpTools'[u] = tpTools[u]
    BY <2>1 DEF ToolThere, ToolsStay, ToolsInv
  <2>2. CASE tpTools'[u] # tpTools[u]
    BY <2>2 DEF ToolThere
  <2> QED  BY <2>1, <2>2
<1>3. \A u : ToolThere(tpTools, u) => ToolThere(tpTools', u) /\ u \in ToolIds
  <2> SUFFICES ASSUME NEW u, ToolThere(tpTools, u)
               PROVE  ToolThere(tpTools', u) /\ u \in ToolIds
    OBVIOUS
  <2>1. u \in ToolIds
    BY DEF ToolThere
  <2> QED  BY <1>2, <2>1
<1>4. ToolsStay'
  <2>1. \A u \in ToolIds : v.shown[u] # ToolForms!NoTool => ToolThere(tpTools', u)
    BY <1>2 DEF ToolsStay, ToolsInv
  <2>2. v.form.saved # 0 => ToolThere(tpTools', v.form.saved)
    BY <1>3 DEF ToolsStay, ToolsInv
  <2>3. ASSUME NEW j \in 1..MaxOps, tpCalls'[j].op \in {"card", "assignments"}
        PROVE  ToolThere(tpTools', tpCalls'[j].tool)
    BY <2>3, <1>0, <1>3 DEF ToolsStay, ToolsInv
  <2> QED  BY <1>2, <2>1, <2>2, <2>3 DEF ToolsStay, ToolThere
<1>5. ToolsForms'
  BY <1>0 DEF ToolsForms, ToolsInv
<1>6. ToolsAlone'
  <2>1. ASSUME NEW j \in 1..MaxOps, j # k, tpCalls[j].op = "card", CardCall(tpCalls[j]),
               ToolThere(tpTools, tpCalls[j].tool)
        PROVE  CardCall(tpCalls[j])'
    <3>1. tpCalls[j].tool \in ToolIds /\ tpCalls[j].tool # t /\ tpCalls[j].tool # 0
      BY <2>1, ToolsBound DEF CardCall, ToolThere
    <3> QED  BY <1>0, <2>1, <3>1 DEF CardCall
  <2>2. \A j \in 1..MaxOps : tpCalls[j].op = "card" => ToolThere(tpTools, tpCalls[j].tool)
    BY DEF ToolsStay, ToolsInv
  <2> QED  BY <1>0, <2>1, <2>2 DEF ToolsAlone, ToolsInv, Marks
<1>7. ToolForms!ConnectedIsProven'
  <2>1. ASSUME NEW u \in ToolIds, ~tpPast.overtaken, tpTools'[u].status = "connected"
        PROVE  <<u, tpTools'[u].setup>> \in tpProven'
    <3>1. CASE u # t
      BY <2>1, <3>1, ToolsBound DEF ToolsInv, ToolForms!ConnectedIsProven
    <3>2. CASE u = t
      BY <2>1, <3>2, ToolsBound DEF ToolsInv, ToolForms!ConnectedIsProven
    <3> QED  BY <3>1, <3>2
  <2> QED  BY <2>1, ToolsBound DEF ToolForms!ConnectedIsProven
<1> QED  BY <1>1, <1>4, <1>5, <1>6, <1>7 DEF ToolsInv

\* What is known while a form's request is on its way.
LEMMA ToolsFormFacts ==
  ASSUME ToolsInv, NEW k \in 1..MaxOps, tpCalls[k].op = "form"
  PROVE  /\ FormCall(tpCalls[k]) /\ tpCalls[k] \in ToolCall /\ tpCalls[k].form \in ToolForm
         /\ \A j \in 1..MaxOps : tpCalls[j].op = "form" => j = k
         /\ ~Marks(tpCalls[k]) /\ tpPage.form.step # 0
         /\ tpPage.form.saved # 0 => ToolThere(tpTools, tpPage.form.saved)
BY DEF ToolsInv, ToolsShape, ToolsForms, Marks, ToolsStay, FormCall, ToolCall

LEMMA ToolBusyShown ==
  ASSUME NEW f \in ToolForm, NEW b \in {TRUE, FALSE}
  PROVE  \E g \in ToolForm : /\ g = [f EXCEPT !.busy = b] /\ g.busy = b
                             /\ g.saved = f.saved /\ g.step = f.step
<1>1. [f EXCEPT !.busy = TRUE] \in ToolForm /\ [f EXCEPT !.busy = FALSE] \in ToolForm
  BY DEF ToolForm
<1>2. PICK g \in ToolForm : g = [f EXCEPT !.busy = b]
  BY <1>1
<1>3. g.busy = b /\ g.saved = f.saved /\ g.step = f.step
  BY <1>2 DEF ToolForm
<1> QED  BY <1>2, <1>3

\* The page shows a form, and nothing else of it changes.
LEMMA ToolFormIs ==
  ASSUME ToolsInv, NEW f \in ToolForm, tpPage' = [tpPage EXCEPT !.form = f]
  PROVE  \E v \in ToolView : /\ tpPage' = v /\ v.form = f
                             /\ v.shown = tpPage.shown /\ v.busy = tpPage.busy
<1>1. PICK v \in ToolView : /\ v = [tpPage EXCEPT !.form = f] /\ v.form = f
                            /\ v.shown = tpPage.shown /\ v.busy = tpPage.busy
  BY ToolsFacts, ToolFormShown
<1> QED  BY <1>1

LEMMA ToolsSaves ==
  ASSUME ToolsInv, NEW k \in 1..MaxOps, ToolForms!Saves(k)
  PROVE  ToolsInv'
<1>1. PICK e \in ToolForm : e = tpPage.form
  BY ToolsFacts
<1>2. PICK n \in ToolCall : n = ToolForms!NoCall
  BY ToolsBound
<1>3. PICK c \in ToolCall : /\ c = FormRequest(n, e) /\ c.op = "form" /\ c.at = "asked" /\ c.form = e
  BY FormRequestIsSent
<1>4. ToolForms!CallIs(k, c) /\ tpCalls[k].op = "none" /\ tpTools' = tpTools /\ tpProven' = tpProven
      /\ tpPast' = tpPast /\ e.step \in {1, 3} /\ ~e.busy
  <2>1. ToolForms!CallIs(k, c)
    BY <1>1, <1>2, <1>3 DEF ToolForms!Saves, ToolForms!Asks, FormRequest
  <2>2. tpCalls[k].op = "none"
    BY DEF ToolForms!Saves, ToolForms!Asks, ToolForms!NoCall
  <2> QED  BY <1>1, <2>1, <2>2 DEF ToolForms!Saves, ToolForms!Asks
<1>5. PICK f \in ToolForm : /\ f = [e EXCEPT !.busy = TRUE] /\ f.busy = TRUE
                            /\ f.saved = e.saved /\ f.step = e.step
  BY ToolBusyShown
<1>6. tpPage' = [tpPage EXCEPT !.form = f]
  BY <1>1, <1>5 DEF ToolForms!Saves, ToolForms!Asks
<1>7. PICK v \in ToolView : /\ tpPage' = v /\ v.form = f
                            /\ v.shown = tpPage.shown /\ v.busy = tpPage.busy
  BY <1>6, ToolFormIs
<1>8. FormCall(c)'
  BY <1>3, <1>4, <1>5, <1>7 DEF FormCall
<1>9. \A j \in 1..MaxOps : tpCalls[j].op # "form"
  BY <1>1, <1>4 DEF ToolsInv, ToolsForms, FormCall
<1>10. ToolsOnce'
  BY <1>1, <1>4, <1>5, <1>7 DEF ToolsInv, ToolsOnce
<1>11. v.form.step # 0 /\ ~Marks(tpCalls[k])
  BY <1>4, <1>5, <1>7 DEF Marks
<1> QED  BY <1>1, <1>3, <1>4, <1>5, <1>7, <1>8, <1>9, <1>10, <1>11, ToolsFormStep, ToolsFacts

LEMMA ToolsFormFails ==
  ASSUME ToolsInv, NEW k \in 1..MaxOps, ToolForms!FormFails(k)
  PROVE  ToolsInv'
<1>0. PICK c \in ToolCall : /\ ToolForms!CallIs(k, c) /\ c.op = "none" /\ c.at = "over"
        /\ tpCalls[k].op = "form" /\ tpPast' = tpPast /\ tpTools' = tpTools /\ tpProven' = tpProven
  BY ToolsEnds DEF ToolForms!FormFails, ToolForms!Over
<1>1. PICK e \in ToolForm : e = tpPage.form
  BY ToolsFacts
<1>2. PICK f \in ToolForm : /\ f = [e EXCEPT !.busy = FALSE] /\ f.busy = FALSE
                            /\ f.saved = e.saved /\ f.step = e.step
  BY ToolBusyShown
<1>3. tpPage' = [tpPage EXCEPT !.form = f]
  BY <1>1, <1>2 DEF ToolForms!FormFails
<1>4. PICK v \in ToolView : /\ tpPage' = v /\ v.form = f
                            /\ v.shown = tpPage.shown /\ v.busy = tpPage.busy
  BY <1>3, ToolFormIs
<1>5. ToolsOnce'
  BY <1>0, <1>1, <1>2, <1>4 DEF ToolsInv, ToolsOnce
<1>6. v.form.step # 0
  BY <1>0, <1>1, <1>2, <1>4, ToolsFormFacts
<1> QED  BY <1>0, <1>1, <1>2, <1>4, <1>5, <1>6, ToolsFormStep, ToolsFormFacts, ToolsFacts

\* The row is written, new or the form's; the form keeps it when it hears of it.
LEMMA ToolsPersisted ==
  ASSUME ToolsInv, NEW k \in 1..MaxOps, ToolForms!persist(k)
  PROVE  ToolsInv'
<1>1. PICK d \in ToolCall : d = tpCalls[k] /\ d.op = "form" /\ d.at = "asked"
  BY ToolsFacts DEF ToolForms!persist
<1>2. PICK g \in ToolForm : g = d.form
  BY <1>1, ToolsFacts
<1>3. PICK e \in ToolForm : e = tpPage.form /\ e.busy /\ e.step = g.step /\ e.saved = g.saved
                            /\ g.step \in {1, 3}
  BY <1>1, <1>2, ToolsFacts, ToolsFormFacts DEF FormCall
<1>4. PICK t \in ToolIds, heard \in BOOLEAN :
        /\ (g.saved = 0 /\ t \in ToolForms!FirstNew) \/ (g.saved # 0 /\ t = g.saved)
        /\ tpTools' = [tpTools EXCEPT ![t].setup = g.setup,
                         ![t].status = IF g.enabled THEN "not_configured" ELSE "disabled"]
        /\ IF heard THEN /\ tpPage' = [tpPage EXCEPT !.form.saved = t]
                         /\ ToolForms!CallIs(k, [d EXCEPT !.tool = t, !.at =
                              IF g.step = 3 /\ ~g.enabled THEN "assign"
                                ELSE IF g.step = 3 \/ g.mcp THEN "prove" ELSE "done"])
           ELSE tpPage' = [tpPage EXCEPT !.form.busy = FALSE] /\ ToolForms!Over(k)
        /\ tpPast' = IF g.saved # 0 THEN tpPast
                     ELSE [tpPast EXCEPT !.made = @ + 1, !.lost = @ \/ ~heard]
        /\ tpProven' = tpProven
  <2>1. \A t \in (IF g.saved = 0 THEN ToolForms!FirstNew ELSE {g.saved}) :
          t \in ToolIds /\ ((g.saved = 0 /\ t \in ToolForms!FirstNew) \/ (g.saved # 0 /\ t = g.saved))
    BY ToolsBound DEF ToolForms!FirstNew, ToolForm
  <2> QED  BY <1>1, <1>2, <2>1 DEF ToolForms!persist
<1>5. PICK w \in ToolRow : /\ tpTools' = [tpTools EXCEPT ![t] = w]
                           /\ w.setup = g.setup /\ w.status \in {"not_configured", "disabled"}
  <2>1. PICK q \in ToolRow : q = tpTools[t]
    BY ToolsFacts
  <2>2. PICK status \in {"not_configured", "disabled"} :
          status = IF g.enabled THEN "not_configured" ELSE "disabled"
    OBVIOUS
  <2>3. [q EXCEPT !.setup = g.setup, !.status = status] \in ToolRow
    BY DEF ToolRow, ToolForm
  <2>4. PICK w \in ToolRow : w = [q EXCEPT !.setup = g.setup, !.status = status]
    BY <2>3
  <2>5. w.setup = g.setup /\ w.status = status
    BY <2>4 DEF ToolRow
  <2>6. tpTools' = [tpTools EXCEPT ![t] = w]
    BY <1>4, <2>1, <2>2, <2>4, ToolsFacts
  <2> QED  BY <2>5, <2>6
<1>6. /\ tpTools' \in [ToolIds -> ToolRow] /\ tpTools'[t] = w /\ ToolThere(tpTools', t)
      /\ \A u \in ToolIds : u # t => tpTools'[u] = tpTools[u]
  BY <1>5, ToolsFacts DEF ToolThere
<1>7. t = e.saved \/ ~ToolThere(tpTools, t)
  BY <1>3, <1>4, ToolsBound DEF ToolForms!FirstNew, ToolThere
<1>8. /\ tpPast' \in [made : Nat, lost : BOOLEAN, overtaken : BOOLEAN, untested : BOOLEAN] /\ tpPast'.overtaken = tpPast.overtaken
      /\ ~tpPast'.lost => /\ tpPast'.made <= 1 /\ (g.saved = 0 => heard)
  <2>0. PICK p \in [made : Nat, lost : BOOLEAN, overtaken : BOOLEAN, untested : BOOLEAN] : p = tpPast
    BY ToolsFacts
  <2>1. PICK m \in Nat, lost \in BOOLEAN : m = tpPast.made + 1 /\ lost = (tpPast.lost \/ ~heard)
                                         /\ (~lost => ~tpPast.lost /\ heard)
    <3>1. PICK m \in Nat : m = p.made + 1
      OBVIOUS
    <3>2. PICK lost \in BOOLEAN : /\ lost = (p.lost \/ ~heard) /\ (~lost => ~p.lost /\ heard)
      OBVIOUS
    <3> QED  BY <2>0, <3>1, <3>2
  <2>2. ~tpPast.lost => /\ tpPast.made <= 1 /\ (g.saved = 0 => tpPast.made = 0)
    BY <1>1, <1>3, ToolsFormFacts DEF ToolsInv, ToolsOnce
  <2>3. CASE g.saved # 0
    BY <1>4, <2>2, <2>3, ToolsFacts
  <2>4. CASE g.saved = 0
    <3>1. tpPast' = [tpPast EXCEPT !.made = m, !.lost = lost]
      BY <1>4, <2>1, <2>4
    <3>2. /\ tpPast' \in [made : Nat, lost : BOOLEAN, overtaken : BOOLEAN, untested : BOOLEAN] /\ tpPast'.overtaken = tpPast.overtaken
          /\ tpPast'.made = m
      BY <3>1, ToolsFacts
    <3>3. tpPast'.lost = lost
      BY <3>1, ToolsFacts
    <3>4. tpPast.made \in Nat
      BY ToolsFacts
    <3> QED  BY <2>1, <2>2, <2>4, <3>2, <3>3, <3>4
  <2> QED  BY <2>3, <2>4
<1>9. CASE heard
  <2>1. PICK f \in ToolForm : /\ f = [e EXCEPT !.saved = t] /\ f.saved = t /\ f.busy /\ f.step = e.step
    <3>1. [e EXCEPT !.saved = t] \in ToolForm
      BY DEF ToolForm
    <3>2. PICK f \in ToolForm : f = [e EXCEPT !.saved = t]
      BY <3>1
    <3>3. f.saved = t /\ f.busy = e.busy /\ f.step = e.step
      BY <3>2 DEF ToolForm
    <3> QED  BY <1>3, <3>2, <3>3
  <2>2. PICK v \in ToolView : /\ tpPage' = v /\ v.form = f
                              /\ v.shown = tpPage.shown /\ v.busy = tpPage.busy
    <3>1. tpPage' = [tpPage EXCEPT !.form = f]
      BY <1>3, <1>4, <1>9, <2>1
    <3> QED  BY <3>1, ToolFormIs
  <2>3. PICK at \in {"assign", "prove", "done"} :
          /\ at = IF g.step = 3 /\ ~g.enabled THEN "assign" ELSE IF g.step = 3 \/ g.mcp THEN "prove" ELSE "done"
          /\ at = "assign" => g.step = 3 /\ ~g.enabled
          /\ at = "done" => g.step # 3
    OBVIOUS
  <2>4. PICK c \in ToolCall : /\ c = [d EXCEPT !.tool = t, !.at = at]
                              /\ c.op = "form" /\ c.at = at /\ c.tool = t /\ c.form = g
    <3>1. [d EXCEPT !.tool = t, !.at = at] \in ToolCall
      BY DEF ToolCall
    <3>2. PICK c \in ToolCall : c = [d EXCEPT !.tool = t, !.at = at]
      BY <3>1
    <3>3. c.op = d.op /\ c.at = at /\ c.tool = t /\ c.form = d.form
      BY <3>2 DEF ToolCall
    <3> QED  BY <1>1, <1>2, <3>2, <3>3
  <2>5. ToolForms!CallIs(k, c)
    BY <1>4, <1>9, <2>3, <2>4
  <2>6. FormCall(c)'
    BY <1>3, <1>5, <1>6, <2>1, <2>2, <2>3, <2>4 DEF FormCall
  <2>7. t # 0 /\ f.step # 0
    BY <1>3, <2>1, ToolsBound
  <2>8. ToolsOnce'
    BY <1>8, <2>1, <2>2, <2>7 DEF ToolsOnce
  <2>9. w.status # "none" /\ w.status # "connected"
    BY <1>5
  <2>10. v.form.step # 0 /\ v.form.saved = t
    BY <2>1, <2>2, <2>7
  <2>11. tpProven \subseteq tpProven' /\ tpProven' \subseteq ToolIds \X Setups
    BY <1>4, ToolsFacts
  <2>12. ~Marks(tpCalls[k]) /\ \A j \in 1..MaxOps : tpCalls[j].op = "form" => j = k
    BY <1>1, ToolsFormFacts
  <2> QED  BY <1>3, <1>6, <1>7, <1>8, <2>2, <2>4, <2>5, <2>6, <2>8, <2>9, <2>10, <2>11, <2>12, ToolsFormStep
<1>10. CASE ~heard
  <2>1. PICK f \in ToolForm : /\ f = [e EXCEPT !.busy = FALSE] /\ f.busy = FALSE
                              /\ f.saved = e.saved /\ f.step = e.step
    BY ToolBusyShown
  <2>2. PICK v \in ToolView : /\ tpPage' = v /\ v.form = f
                              /\ v.shown = tpPage.shown /\ v.busy = tpPage.busy
    <3>1. tpPage' = [tpPage EXCEPT !.form = f]
      BY <1>3, <1>4, <1>10, <2>1
    <3> QED  BY <3>1, ToolFormIs
  <2>3. PICK c \in ToolCall : ToolForms!CallIs(k, c) /\ c.op = "none" /\ c.at = "over"
    BY <1>4, <1>10, ToolsEnds DEF ToolForms!Over
  <2>4. f.step # 0
    BY <1>3, <2>1
  <2>5. ToolsOnce'
    BY <1>3, <1>8, <1>10, <2>1, <2>2 DEF ToolsOnce
  <2>9. w.status # "none" /\ w.status # "connected"
    BY <1>5
  <2>10. v.form.step # 0 /\ v.form.saved = tpPage.form.saved
    BY <1>3, <2>1, <2>2, <2>4
  <2>11. tpProven \subseteq tpProven' /\ tpProven' \subseteq ToolIds \X Setups
    BY <1>4, ToolsFacts
  <2>12. ~Marks(tpCalls[k]) /\ \A j \in 1..MaxOps : tpCalls[j].op = "form" => j = k
    BY <1>1, ToolsFormFacts
  <2> QED  BY <1>3, <1>6, <1>7, <1>8, <2>2, <2>3, <2>5, <2>9, <2>10, <2>11, <2>12, ToolsFormStep
<1> QED  BY <1>9, <1>10

LEMMA ToolsProves ==
  ASSUME ToolsInv, NEW k \in 1..MaxOps, ToolForms!FormProves(k)
  PROVE  ToolsInv'
<1>1. PICK d \in ToolCall : d = tpCalls[k] /\ d.at = "prove" /\ d.op = "form"
  BY ToolsFacts DEF ToolForms!FormProves, ToolsInv, ToolsForms
<1>2. FormCall(d) /\ d.form \in ToolForm
  BY <1>1, ToolsFormFacts
<1>3. PICK t \in ToolIds, e \in ToolForm : /\ t = d.tool /\ e = tpPage.form /\ e.saved = t /\ e.busy
        /\ e.step = d.form.step /\ e.step \in {1, 3} /\ tpTools[t].setup = d.form.setup
  BY <1>1, <1>2, ToolsFacts DEF FormCall
<1>4. PICK status \in {"connected", "error"} :
        /\ tpTools' = [tpTools EXCEPT ![t].status = status] /\ tpPast' = tpPast
        /\ IF status = "connected"
           THEN /\ tpProven' = tpProven \union {<<t, tpTools[t].setup>>}
                /\ ToolForms!CallIs(k, [d EXCEPT !.at = IF d.form.step = 3 THEN "assign" ELSE "done"])
                /\ tpPage' = tpPage
           ELSE /\ tpPage' = [tpPage EXCEPT !.form.busy = FALSE] /\ ToolForms!Over(k)
                /\ tpProven' = tpProven
  BY <1>1, <1>3 DEF ToolForms!FormProves
<1>5. PICK w \in ToolRow : /\ tpTools' = [tpTools EXCEPT ![t] = w]
                           /\ w.setup = d.form.setup /\ w.status = status
  <2>1. PICK q \in ToolRow : q = tpTools[t]
    BY ToolsFacts
  <2>2. [q EXCEPT !.status = status] \in ToolRow
    BY DEF ToolRow
  <2>3. PICK w \in ToolRow : w = [q EXCEPT !.status = status]
    BY <2>2
  <2>4. w.setup = q.setup /\ w.status = status
    BY <2>3 DEF ToolRow
  <2> QED  BY <1>3, <1>4, <2>1, <2>3, <2>4
<1>6. /\ tpTools' \in [ToolIds -> ToolRow] /\ tpTools'[t] = w /\ w.status # "none"
      /\ \A u \in ToolIds : u # t => tpTools'[u] = tpTools[u]
  BY <1>5, ToolsFacts
<1>7. ~Marks(tpCalls[k]) /\ \A j \in 1..MaxOps : tpCalls[j].op = "form" => j = k
  BY <1>1, ToolsFormFacts
<1>8. ToolsOnce /\ tpPast \in [made : Nat, lost : BOOLEAN, overtaken : BOOLEAN, untested : BOOLEAN]
  BY ToolsFacts DEF ToolsInv
<1>9. CASE status = "connected"
  <2>1. PICK at \in {"assign", "done"} :
          /\ at = IF d.form.step = 3 THEN "assign" ELSE "done"
          /\ at = "assign" => d.form.step = 3
          /\ at = "done" => d.form.step # 3
    OBVIOUS
  <2>2. PICK c \in ToolCall : /\ c = [d EXCEPT !.at = at] /\ c.op = "form" /\ c.at = at
                              /\ c.tool = t /\ c.form = d.form
    <3>1. [d EXCEPT !.at = at] \in ToolCall
      BY DEF ToolCall
    <3>2. PICK c \in ToolCall : c = [d EXCEPT !.at = at]
      BY <3>1
    <3>3. c.op = d.op /\ c.at = at /\ c.tool = d.tool /\ c.form = d.form
      BY <3>2 DEF ToolCall
    <3> QED  BY <1>1, <1>3, <3>2, <3>3
  <2>3. ToolForms!CallIs(k, c) /\ tpPage' = tpPage
    <3>1. ToolForms!CallIs(k, [d EXCEPT !.at = IF d.form.step = 3 THEN "assign" ELSE "done"])
          /\ tpPage' = tpPage
      BY <1>4, <1>9
    <3>2. [d EXCEPT !.at = IF d.form.step = 3 THEN "assign" ELSE "done"] = [d EXCEPT !.at = at]
      BY <2>1
    <3>3. [d EXCEPT !.at = IF d.form.step = 3 THEN "assign" ELSE "done"] = c
      BY <2>2, <3>2
    <3> QED  BY <3>1, <3>3
  <2>4. tpProven \subseteq tpProven' /\ <<t, w.setup>> \in tpProven'
        /\ tpProven' \subseteq ToolIds \X Setups
    <3>1. PICK s \in Setups : s = tpTools[t].setup /\ s = w.setup
      BY <1>2, <1>3, <1>5 DEF ToolForm
    <3>2. tpProven' = tpProven \union {<<t, s>>}
      BY <1>4, <1>9, <3>1
    <3> QED  BY <3>1, <3>2, ToolsFacts
  <2>5. FormCall(c)'
    <3>1. /\ tpPage'.form.busy /\ tpPage'.form.step = c.form.step /\ c.form.step \in {1, 3}
          /\ tpPage'.form.saved = c.tool
      BY <1>3, <2>2, <2>3
    <3>2. c.tool \in ToolIds /\ tpTools'[c.tool].setup = c.form.setup
          /\ tpTools'[c.tool].status = "connected" /\ <<c.tool, c.form.setup>> \in tpProven'
      BY <1>5, <1>6, <1>9, <2>2, <2>4
    <3>3. c.at \in {"assign", "done"} /\ (c.at = "assign" => c.form.step = 3)
          /\ (c.at = "done" => c.form.step # 3)
      BY <2>1, <2>2
    <3> QED  BY <3>1, <3>2, <3>3 DEF FormCall
  <2>6. ToolsOnce'
    BY <1>4, <1>8, <2>3 DEF ToolsOnce
  <2>7. tpPage.form.step # 0 /\ tpPage \in ToolView
    BY <1>3, ToolsFacts
  <2> QED
    BY <1>3, <1>4, <1>6, <1>7, <1>8, <2>2, <2>3, <2>4, <2>5, <2>6, <2>7, ToolsFormStep
<1>10. CASE status = "error"
  <2>1. PICK f \in ToolForm : /\ f = [e EXCEPT !.busy = FALSE] /\ f.busy = FALSE
                              /\ f.saved = e.saved /\ f.step = e.step
    BY ToolBusyShown
  <2>2. PICK v \in ToolView : /\ tpPage' = v /\ v.form = f
                              /\ v.shown = tpPage.shown /\ v.busy = tpPage.busy
    <3>1. tpPage' = [tpPage EXCEPT !.form = f]
      BY <1>3, <1>4, <1>10, <2>1
    <3> QED  BY <3>1, ToolFormIs
  <2>3. PICK c \in ToolCall : ToolForms!CallIs(k, c) /\ c.op = "none" /\ c.at = "over"
    BY <1>4, <1>10, ToolsEnds DEF ToolForms!Over
  <2>4. v.form.step # 0 /\ v.form.saved = tpPage.form.saved
    BY <1>3, <2>1, <2>2
  <2>5. ToolsOnce'
    BY <1>3, <1>4, <1>8, <2>1, <2>2 DEF ToolsOnce
  <2>6. tpProven \subseteq tpProven' /\ tpProven' \subseteq ToolIds \X Setups /\ w.status # "connected"
    BY <1>4, <1>5, <1>10, ToolsFacts
  <2> QED
    BY <1>3, <1>4, <1>6, <1>7, <1>8, <2>2, <2>3, <2>4, <2>5, <2>6, ToolsFormStep
<1> QED  BY <1>9, <1>10

LEMMA ToolsAssigns ==
  ASSUME ToolsInv, NEW k \in 1..MaxOps, ToolForms!Assigns(k)
  PROVE  ToolsInv'
<1>1. PICK d \in ToolCall : d = tpCalls[k] /\ d.at = "assign" /\ d.op = "form"
  BY ToolsFacts DEF ToolForms!Assigns, ToolsInv, ToolsForms
<1>2. FormCall(d) /\ d.form \in ToolForm
  BY <1>1, ToolsFormFacts
<1>3. PICK t \in ToolIds :
        /\ t = d.tool /\ tpPage.form.saved = t /\ tpPage.form.busy
        /\ tpPage.form.step = d.form.step /\ d.form.step = 3 /\ tpTools[t].setup = d.form.setup
        /\ d.form.enabled => /\ <<t, d.form.setup>> \in tpProven
                             /\ ~tpPast.overtaken => tpTools[t].status = "connected"
  BY <1>1, <1>2 DEF FormCall
<1>4. PICK agents \in SUBSET ToolAgents :
        /\ agents = IF d.form.enabled THEN d.form.agents ELSE {}
        /\ tpTools' = [tpTools EXCEPT ![t].agents = agents]
        /\ ToolForms!CallIs(k, [d EXCEPT !.at = "done"])
        /\ UNCHANGED <<tpPage, tpProven, tpPast>>
  <2>1. PICK agents \in SUBSET ToolAgents : agents = IF d.form.enabled THEN d.form.agents ELSE {}
    BY <1>2 DEF ToolForm
  <2> QED  BY <1>1, <1>3, <2>1 DEF ToolForms!Assigns
<1>5. PICK w \in ToolRow : /\ tpTools' = [tpTools EXCEPT ![t] = w] /\ w.agents = agents
                           /\ w.setup = tpTools[t].setup /\ w.status = tpTools[t].status
  <2>1. PICK q \in ToolRow : q = tpTools[t]
    BY ToolsFacts
  <2>2. [q EXCEPT !.agents = agents] \in ToolRow
    BY DEF ToolRow
  <2>3. PICK w \in ToolRow : w = [q EXCEPT !.agents = agents]
    BY <2>2
  <2>4. w.agents = agents /\ w.setup = q.setup /\ w.status = q.status
    BY <2>3 DEF ToolRow
  <2> QED  BY <1>4, <2>1, <2>3, <2>4
<1>6. /\ tpTools' \in [ToolIds -> ToolRow] /\ tpTools'[t] = w
      /\ \A u \in ToolIds : u # t => tpTools'[u] = tpTools[u]
  BY <1>5, ToolsFacts
<1>7. PICK c \in ToolCall : /\ c = [d EXCEPT !.at = "done"] /\ c.op = "form" /\ c.at = "done"
                            /\ c.tool = t /\ c.form = d.form
  <2>1. [d EXCEPT !.at = "done"] \in ToolCall
    BY DEF ToolCall
  <2>2. PICK c \in ToolCall : c = [d EXCEPT !.at = "done"]
    BY <2>1
  <2>3. c.op = d.op /\ c.at = "done" /\ c.tool = d.tool /\ c.form = d.form
    BY <2>2 DEF ToolCall
  <2> QED  BY <1>1, <1>3, <2>2, <2>3
<1>8. ToolForms!CallIs(k, c)
  BY <1>4, <1>7
<1>9. FormCall(c)'
  <2>1. /\ tpPage'.form.busy /\ tpPage'.form.step = c.form.step /\ c.form.step \in {1, 3}
        /\ tpPage'.form.saved = c.tool
    BY <1>3, <1>4, <1>7
  <2>2. /\ c.tool \in ToolIds /\ tpTools'[c.tool].setup = c.form.setup
        /\ tpTools'[c.tool].agents = IF c.form.enabled THEN c.form.agents ELSE {}
    BY <1>3, <1>4, <1>5, <1>6, <1>7
  <2>3. c.form.enabled => /\ <<c.tool, c.form.setup>> \in tpProven'
                          /\ ~tpPast'.overtaken => tpTools'[c.tool].status = "connected"
    BY <1>3, <1>4, <1>5, <1>6, <1>7
  <2> QED  BY <1>7, <2>1, <2>2, <2>3 DEF FormCall
<1>10. ToolsOnce'
  BY <1>4 DEF ToolsInv, ToolsOnce
<1>11. /\ tpPage \in ToolView /\ tpPage.form.step # 0 /\ tpProven \subseteq ToolIds \X Setups
       /\ tpPast \in [made : Nat, lost : BOOLEAN, overtaken : BOOLEAN, untested : BOOLEAN]
       /\ ~Marks(tpCalls[k]) /\ \A j \in 1..MaxOps : tpCalls[j].op = "form" => j = k
  BY <1>1, ToolsFacts, ToolsFormFacts
<1>12. w.status # "none" /\ w.setup = tpTools[t].setup /\ w.status = tpTools[t].status
  <2>1. t # 0
    BY ToolsBound
  <2>2. ToolThere(tpTools, t)
    BY <1>3, <2>1 DEF ToolsInv, ToolsStay
  <2> QED  BY <1>5, <2>2 DEF ToolThere
<1>13. /\ tpPage' = tpPage /\ tpProven \subseteq tpProven' /\ tpProven' \subseteq ToolIds \X Setups
       /\ tpPast' \in [made : Nat, lost : BOOLEAN, overtaken : BOOLEAN, untested : BOOLEAN]
       /\ tpPast'.overtaken = tpPast.overtaken
  BY <1>4, <1>11
<1>14. /\ tpTools'[t].status # "none"
       /\ tpTools'[t].status = "connected" => /\ tpTools[t].status = "connected"
                                              /\ tpTools'[t].setup = tpTools[t].setup
  BY <1>6, <1>12
<1> QED  BY <1>3, <1>6, <1>7, <1>8, <1>9, <1>10, <1>11, <1>13, <1>14, ToolsFormStep

\* The form that was finished is closed; that of an earlier step goes on.
LEMMA ToolsFormSaved ==
  ASSUME ToolsInv, NEW k \in 1..MaxOps, ToolForms!FormSaved(k)
  PROVE  ToolsInv'
<1>1. PICK d \in ToolCall : d = tpCalls[k] /\ d.at = "done" /\ d.op = "form"
  BY ToolsFacts DEF ToolForms!FormSaved, ToolsInv, ToolsForms
<1>2. FormCall(d) /\ d.form \in ToolForm
  BY <1>1, ToolsFormFacts
<1>3. PICK e \in ToolForm : e = tpPage.form /\ e.busy /\ e.step = d.form.step /\ e.step \in {1, 3}
  BY <1>2, ToolsFacts DEF FormCall
<1>4. /\ tpTools' = tpTools /\ tpProven' = tpProven /\ tpPast' = tpPast
      /\ tpPast \in [made : Nat, lost : BOOLEAN, overtaken : BOOLEAN, untested : BOOLEAN]
      /\ ~Marks(tpCalls[k]) /\ \A j \in 1..MaxOps : tpCalls[j].op = "form" => j = k
  BY <1>1, ToolsFacts, ToolsFormFacts DEF ToolForms!FormSaved
<1>5. CASE d.form.step = 3
  <2>1. /\ tpPage' = [tpPage EXCEPT !.form = ToolForms!NoForm, !.loading = TRUE]
        /\ ToolForms!CallIs(k, [ToolForms!NoCall EXCEPT !.op = "list", !.at = "asked"])
    BY <1>1, <1>5 DEF ToolForms!FormSaved
  <2>2. PICK f \in ToolForm : f = ToolForms!NoForm /\ f.saved = 0 /\ f.step = 0 /\ ~f.busy
    BY ToolsBound DEF ToolForms!NoForm
  <2>3. PICK v \in ToolView : /\ tpPage' = v /\ v.form = f
                              /\ v.shown = tpPage.shown /\ v.busy = tpPage.busy
    <3>1. PICK x \in ToolView : /\ x = [tpPage EXCEPT !.form = f] /\ x.form = f
                                /\ x.shown = tpPage.shown /\ x.busy = tpPage.busy
      BY ToolsFacts, ToolFormShown
    <3>2. [x EXCEPT !.loading = TRUE] \in ToolView
      BY DEF ToolView
    <3>3. PICK v \in ToolView : v = [x EXCEPT !.loading = TRUE]
      BY <3>2
    <3>4. v.form = x.form /\ v.shown = x.shown /\ v.busy = x.busy
      BY <3>3 DEF ToolView
    <3>5. tpPage' = v
      BY <2>1, <2>2, <3>1, <3>3
    <3> QED  BY <3>1, <3>4, <3>5
  <2>4. PICK c \in ToolCall : /\ ToolForms!CallIs(k, c) /\ c.op = "list" /\ c.at = "asked"
    <3>1. PICK n \in ToolCall : n = ToolForms!NoCall
      BY ToolsBound
    <3>2. [n EXCEPT !.op = "list"] \in ToolCall
      BY DEF ToolCall
    <3>3. PICK m \in ToolCall : m = [n EXCEPT !.op = "list"]
      BY <3>2
    <3>4. [m EXCEPT !.at = "asked"] \in ToolCall
      BY DEF ToolCall
    <3>5. PICK c \in ToolCall : c = [m EXCEPT !.at = "asked"]
      BY <3>4
    <3>6. c.op = m.op /\ c.at = "asked" /\ m.op = "list"
      BY <3>3, <3>5 DEF ToolCall
    <3>7. ToolForms!CallIs(k, c)
      BY <2>1, <3>1, <3>3, <3>5
    <3> QED  BY <3>6, <3>7
  <2>5. ToolsOnce'
    BY <1>4, <2>2, <2>3 DEF ToolsInv, ToolsOnce
  <2>6. v.form.saved = 0 /\ ~v.form.busy
    BY <2>2, <2>3
  <2>7. tpPage.form.saved \in {0} \union ToolIds /\ tpProven' \subseteq ToolIds \X Setups
    BY <1>3, <1>4, ToolsFacts DEF ToolForm
  <2> QED  BY <1>4, <2>3, <2>4, <2>5, <2>6, <2>7, ToolsFormStep, ToolsFacts
<1>6. CASE d.form.step # 3
  <2>1. /\ tpPage' = [tpPage EXCEPT !.form.busy = FALSE, !.form.step = @ + 1]
        /\ ToolForms!Over(k)
    BY <1>1, <1>6 DEF ToolForms!FormSaved
  <2>2. PICK f \in ToolForm : f = [e EXCEPT !.busy = FALSE, !.step = @ + 1]
                              /\ f.saved = e.saved /\ f.step = 2
    <3>1. PICK g \in ToolForm : /\ g = [e EXCEPT !.busy = FALSE]
                                /\ g.saved = e.saved /\ g.step = e.step
      BY ToolBusyShown
    <3>2. PICK f \in ToolForm : /\ f = [g EXCEPT !.step = 2] /\ f.step = 2 /\ f.saved = g.saved
      BY ToolStepShown
    <3>3. e.step = 1
      BY <1>3, <1>6
    <3>4. f = [e EXCEPT !.busy = FALSE, !.step = @ + 1]
      BY <3>1, <3>2, <3>3 DEF ToolForm
    <3> QED  BY <3>1, <3>2, <3>4
  <2>3. PICK v \in ToolView : /\ tpPage' = v /\ v.form = f
                              /\ v.shown = tpPage.shown /\ v.busy = tpPage.busy
    <3>1. tpPage' = [tpPage EXCEPT !.form = f]
      BY <1>3, <2>1, <2>2
    <3> QED  BY <3>1, ToolFormIs
  <2>4. PICK c \in ToolCall : ToolForms!CallIs(k, c) /\ c.op = "none" /\ c.at = "over"
    BY <2>1, ToolsEnds DEF ToolForms!Over
  <2>5. v.form.step = 2 /\ v.form.saved = tpPage.form.saved
    BY <1>3, <2>2, <2>3
  <2>6. ToolsOnce'
    <3>1. tpPage.form.step # 0
      BY <1>3
    <3> QED  BY <1>4, <2>3, <2>5, <3>1 DEF ToolsInv, ToolsOnce
  <2>7. v.form.step # 0
    BY <2>5
  <2> QED  BY <1>4, <2>3, <2>4, <2>5, <2>6, <2>7, ToolsFormStep, ToolsFacts
<1> QED  BY <1>5, <1>6

LEMMA ToolsStep ==
  ASSUME ToolsInv, ToolForms!ToolsNext
  PROVE  ToolsInv'
<1>1. CASE \/ ToolForms!openPackage \/ ToolForms!closePackage \/ ToolForms!editPackage
           \/ ToolForms!openCreate \/ ToolForms!editForm \/ ToolForms!back
           \/ ToolForms!closeForm \/ ToolForms!next
  BY <1>1, ToolsPageStep
<1>2. ASSUME NEW k \in 1..MaxOps,
             \/ ToolForms!load(k) \/ ToolForms!testConnection(k) \/ ToolForms!ConnectionTested(k)
             \/ ToolForms!testPackage(k) \/ ToolForms!PackageTested(k)
             \/ ToolForms!addPackageTool(k) \/ ToolForms!PackageAdded(k)
             \/ ToolForms!openEdit(k) \/ ToolForms!AssignmentsAnswer(k)
             \/ ToolForms!Saves(k) \/ ToolForms!FormFails(k) \/ ToolForms!persist(k)
             \/ ToolForms!FormProves(k) \/ ToolForms!Assigns(k) \/ ToolForms!FormSaved(k)
      PROVE  ToolsInv'
  BY <1>2, ToolsList, ToolsTestCard, ToolsCardTested, ToolsPackageSent, ToolsPackageTested,
     ToolsPackageAdded, ToolsEdit, ToolsAssignmentsShown, ToolsSaves, ToolsFormFails,
     ToolsPersisted, ToolsProves, ToolsAssigns, ToolsFormSaved
<1> QED  BY <1>1, <1>2, ToolsBound DEF ToolForms!ToolsNext

LEMMA ToolsSame ==
  ASSUME ToolsInv, UNCHANGED tools
  PROVE  ToolsInv'
BY DEF tools, ToolsInv, ToolsShape, ToolsStay, ToolThere, ToolsForms, FormCall, ToolsAlone, CardCall,
       ToolsOnce, ToolForms!ConnectedIsProven

LEMMA ToolsKnow ==
  ASSUME ToolsInv
  PROVE  /\ ToolForms!ToolsTypeOK /\ ToolForms!ConnectedIsProven
         /\ ToolForms!FormMakesOneTool /\ ToolForms!FinishedFormIsServed
<1>1. ToolForms!ToolsTypeOK
  <2>1. \A t \in ToolIds : /\ tpTools[t].setup \in Setups /\ tpTools[t].agents \subseteq ToolAgents
                           /\ tpTools[t].status \in
                                {"none", "not_configured", "connected", "error", "disabled"}
    BY ToolsFacts DEF ToolRow
  <2>2. tpPage.form.step \in 0..3 /\ tpPage.package.proof \subseteq Setups
    BY ToolsFacts, ToolViewParts DEF ToolForm, ToolPackage
  <2> QED  BY <2>1, <2>2, ToolsFacts, ToolsBound DEF ToolForms!ToolsTypeOK
<1>2. ToolForms!ConnectedIsProven /\ ToolForms!FormMakesOneTool
  BY DEF ToolsInv, ToolsOnce, ToolForms!FormMakesOneTool
<1>3. ASSUME NEW k \in 1..MaxOps, tpCalls[k].at = "done", tpCalls[k].form.step = 3
      PROVE  /\ tpTools[tpCalls[k].tool].setup = tpCalls[k].form.setup
             /\ tpTools[tpCalls[k].tool].agents =
                  IF tpCalls[k].form.enabled THEN tpCalls[k].form.agents ELSE {}
             /\ ~tpPast.overtaken /\ tpCalls[k].form.enabled
                  => tpTools[tpCalls[k].tool].status = "connected"
             /\ tpTools[tpCalls[k].tool].agents # {}
                  => <<tpCalls[k].tool, tpTools[tpCalls[k].tool].setup>> \in tpProven
  <2>1. FormCall(tpCalls[k])
    BY <1>3 DEF ToolsInv, ToolsForms
  <2> QED  BY <1>3, <2>1 DEF FormCall
<1>4. ToolForms!FinishedFormIsServed
  BY <1>3, ToolsBound DEF ToolForms!FinishedFormIsServed
<1> QED  BY <1>1, <1>2, <1>4

-----------------------------------------------------------------------------
(* The page of Tools on screen.                                            *)

LEMMA ToolsBegin == Init => (route = "tools" => ToolsInv)
BY ToolsInit DEF Init

LEMMA ToolsPageMoves ==
  ASSUME [Next]_vars
  PROVE  /\ route' = route
         /\ route = "tools" => ToolForms!ToolsNext \/ UNCHANGED tools
<1>1. CASE Next
  BY <1>1 DEF Next, EditsTree, WalksThrough, ConnectsTools, SetsUp, ManagesPeople,
              KeepsSecrets, TidiesShelf, Integrates, LooksUp, Launches
<1>2. CASE UNCHANGED vars
  BY <1>2 DEF vars, pages
<1> QED  BY <1>1, <1>2

LEMMA ToolsAlways == Spec => [](route = "tools" => ToolsInv)
<1>1. ASSUME route = "tools" => ToolsInv, [Next]_vars
      PROVE  (route = "tools" => ToolsInv)'
  BY <1>1, ToolsPageMoves, ToolsStep, ToolsSame
<1> QED  BY <1>1, ToolsBegin, PTL DEF Spec

\* A Tool is said to be connected for the setup it has, as long as no mark of an
\* operation that works was taken; however often the steps of a form are
\* repeated and whichever of its requests fail, it makes one Tool unless the
\* answer to the creation was lost, and finished it leaves the Tool as it was
\* sent, tested when it is enabled, without Agents when it is not (tools.tsx,
\* tool-form.tsx).
THEOREM ToolsAreTested == Spec => []ToolIsAsTested
<1>1. (route = "tools" => ToolsInv) => ToolIsAsTested
  BY ToolsKnow DEF ToolIsAsTested
<1> QED  BY <1>1, ToolsAlways, PTL

\* The page and its part of the server keep their shape.
LEMMA ToolsAreTyped == (route = "tools" => ToolsInv) => (route = "tools" => ToolForms!ToolsTypeOK)
BY ToolsKnow
=============================================================================
