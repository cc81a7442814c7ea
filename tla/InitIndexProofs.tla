-------------------------- MODULE InitIndexProofs ---------------------------
(***************************************************************************)
(* Theorems about the start of the program, for any number of instances,   *)
(* document types, chains, failed requests and restarts.                   *)
(***************************************************************************)
EXTENDS InitIndex, TLAPS

-----------------------------------------------------------------------------
(* Types.                                                                   *)

LEMMA TypeConstants ==
    /\ NoPrefix \in Prefixes
    /\ 1..MaxClock \subseteq Prefixes
    /\ 1 \in Types /\ 2 \in Types /\ Whitelist \in Types
    /\ \A t \in Types : t \in 2..NTypes-1 => t + 1 \in Types
    /\ \A t \in Types : t > 1 => 1 # t
BY InitAssumption DEF NoPrefix, Prefixes, Types, Whitelist

LEMMA InitTypes == Init => TypeOK
<1> SUFFICES ASSUME Init PROVE TypeOK
  OBVIOUS
<1>1. clock \in 1..MaxClock /\ errors \in 0..MaxErrors /\ crashes \in 0..MaxCrashes
  BY InitAssumption DEF Init
<1>4. overlap \in BOOLEAN /\ unread \in BOOLEAN
  BY DEF Init
<1>2. /\ indices \subseteq Prefixes \X Types /\ data \subseteq Prefixes \X Chains
      /\ alias \in [Types -> SUBSET Prefixes] /\ chainDocs \in [Prefixes -> SUBSET Chains]
  BY DEF Init
<1>3. /\ pc \in [Instances -> PCs] /\ type \in [Instances -> Types]
      /\ old \in [Instances -> SUBSET Prefixes] /\ chain \in [Instances -> Chains]
      /\ indexNamePrefix \in [Instances -> Prefixes]
  BY TypeConstants DEF Init, PCs
<1> QED
  BY <1>1, <1>2, <1>3, <1>4 DEF TypeOK

(* Where the loop over the types leads.                                     *)
LEMMA NextTypeTypes ==
    ASSUME TypeOK, NEW p \in Instances, NextType(p) \/ Failed(p)
    PROVE  pc' \in [Instances -> PCs] /\ type' \in [Instances -> Types]
<1>1. pc' \in [Instances -> PCs]
  BY DEF TypeOK, NextType, Failed, Goto, PCs
<1>2. CASE UNCHANGED type
  BY <1>1, <1>2 DEF TypeOK
<1>3. CASE type[p] \in 2..NTypes-1 /\ type' = [type EXCEPT ![p] = @ + 1]
  BY <1>1, <1>3, TypeConstants DEF TypeOK
<1> QED
  BY <1>1, <1>2, <1>3 DEF NextType, Failed

LEMMA InitStepTypes ==
    ASSUME TypeOK, NEW p \in Instances, InitStep(p)
    PROVE  TypeOK'
<1> USE TypeConstants
<1>0. chain[p] \in Chains /\ indexNamePrefix[p] \in Prefixes /\ type[p] \in Types
      /\ old[p] \in SUBSET Prefixes
  BY DEF TypeOK
<1>1. CASE NewIndexer(p)
  <2>1. indices' \subseteq Prefixes \X Types /\ data' \subseteq Prefixes \X Chains
    BY <1>0, <1>1 DEF NewIndexer, WriteDoc, TypeOK
  <2>2. pc' \in [Instances -> PCs]
    BY <1>1 DEF NewIndexer, Goto, TypeOK, PCs
  <2> QED
    BY <1>1, <2>1, <2>2 DEF NewIndexer, TypeOK, historyVars, boundVars
<1>2. CASE Start(p)
  <2>1. clock \in Prefixes
    BY DEF TypeOK
  <2>2. pc' \in [Instances -> PCs]
    BY <1>2 DEF Start, Goto, TypeOK, PCs
  <2>3. overlap' \in BOOLEAN
    BY <1>2 DEF Start, TypeOK
  <2> QED
    BY <1>2, <2>1, <2>2, <2>3 DEF Start, TypeOK, dbVars, boundVars
<1>3. CASE Look(p)
  <2>1. pc' \in [Instances -> PCs] /\ type' \in [Instances -> Types]
    <3>1. CASE NextType(p) \/ Failed(p)
      BY <3>1, NextTypeTypes
    <3>2. CASE Goto(p, "create") /\ UNCHANGED type
      BY <3>2 DEF Goto, TypeOK, PCs
    <3> QED
      BY <1>3, <3>1, <3>2 DEF Look
  <2>2. indexNamePrefix' \in [Instances -> Prefixes]
    BY <1>0, <1>3 DEF Look, TypeOK
  <2>3. errors' \in 0..MaxErrors
    BY <1>3, InitAssumption DEF Look, RequestFails, TypeOK
  <2> QED
    BY <1>3, <2>1, <2>2, <2>3 DEF Look, TypeOK, dbVars, historyVars
<1>4. CASE CreateIndex(p)
  <2>1. pc' \in [Instances -> PCs] /\ type' \in [Instances -> Types]
    <3>1. CASE NextType(p) \/ Failed(p)
      BY <3>1, NextTypeTypes
    <3>2. CASE Goto(p, "aliases") /\ UNCHANGED type
      BY <3>2 DEF Goto, TypeOK, PCs
    <3> QED
      BY <1>4, <3>1, <3>2 DEF CreateIndex
  <2>2. indices' \subseteq Prefixes \X Types
    BY <1>0, <1>4 DEF CreateIndex, TypeOK
  <2>3. errors' \in 0..MaxErrors
    BY <1>4, InitAssumption DEF CreateIndex, RequestFails, TypeOK
  <2> QED
    BY <1>4, <2>1, <2>2, <2>3 DEF CreateIndex, TypeOK, historyVars
<1>5. CASE ReadAliases(p)
  <2>1. pc' \in [Instances -> PCs] /\ type' \in [Instances -> Types]
    <3>1. CASE NextType(p) \/ Failed(p)
      BY <3>1, NextTypeTypes
    <3>2. CASE Goto(p, "update") /\ UNCHANGED type
      BY <3>2 DEF Goto, TypeOK, PCs
    <3> QED
      BY <1>5, <3>1, <3>2 DEF ReadAliases
  <2>2. old' \in [Instances -> SUBSET Prefixes]
    BY <1>0, <1>5 DEF ReadAliases, TypeOK
  <2>3. errors' \in 0..MaxErrors
    BY <1>5, InitAssumption DEF ReadAliases, RequestFails, TypeOK
  <2> QED
    BY <1>5, <2>1, <2>2, <2>3 DEF ReadAliases, TypeOK, dbVars, historyVars
<1>6. CASE UpdateAlias(p)
  <2>1. pc' \in [Instances -> PCs]
    BY <1>6 DEF UpdateAlias, Goto, TypeOK, PCs
  <2>2. alias' \in [Types -> SUBSET Prefixes]
    BY <1>0, <1>6 DEF UpdateAlias, TypeOK
  <2>3. errors' \in 0..MaxErrors
    BY <1>6, InitAssumption DEF UpdateAlias, RequestFails, TypeOK
  <2> QED
    BY <1>6, <2>1, <2>2, <2>3 DEF UpdateAlias, TypeOK, historyVars
<1>7. CASE DeleteOld(p)
  <2>1. pc' \in [Instances -> PCs] /\ type' \in [Instances -> Types]
    BY <1>7, NextTypeTypes DEF DeleteOld
  <2>2. alias' \in [Types -> SUBSET Prefixes] /\ indices' \subseteq Prefixes \X Types
    BY <1>0, <1>7 DEF DeleteOld, TypeOK
  <2>3. chainDocs' \in [Prefixes -> SUBSET Chains]
    BY <1>0, <1>7 DEF DeleteOld, TypeOK
  <2> QED
    BY <1>7, <2>1, <2>2, <2>3 DEF DeleteOld, TypeOK, historyVars, boundVars
<1>8. CASE Valid(p)
  <2>1. pc' \in [Instances -> PCs] /\ type' \in [Instances -> Types]
    BY <1>8 DEF Valid, Goto, TypeOK, PCs
  <2> QED
    BY <1>8, <2>1 DEF Valid, TypeOK, dbVars, historyVars, boundVars
<1>9. CASE QueryFails(p)
  <2>1. pc' \in [Instances -> PCs]
    BY <1>9 DEF QueryFails, Goto, TypeOK, PCs
  <2>2. errors' \in 0..MaxErrors
    BY <1>9, InitAssumption DEF QueryFails, RequestFails, TypeOK
  <2> QED
    BY <1>9, <2>1, <2>2 DEF QueryFails, TypeOK, dbVars
<1>10. CASE NodeFails(p)
  <2>1. pc' \in [Instances -> PCs]
    BY <1>10 DEF NodeFails, Goto, TypeOK, PCs
  <2>2. errors' \in 0..MaxErrors
    BY <1>10, InitAssumption DEF NodeFails, RequestFails, TypeOK
  <2> QED
    BY <1>10, <2>1, <2>2 DEF NodeFails, TypeOK, dbVars, historyVars
<1>11. CASE AddChainInfo(p)
  <2>1. pc' \in [Instances -> PCs] /\ type' \in [Instances -> Types]
    BY <1>11 DEF AddChainInfo, Goto, TypeOK, PCs
  <2>2. chainDocs' \in [Prefixes -> SUBSET Chains] /\ indices' \subseteq Prefixes \X Types
    BY <1>0, <1>11 DEF AddChainInfo, TypeOK
  <2>3. errors' \in 0..MaxErrors
    BY <1>11, InitAssumption DEF AddChainInfo, RequestFails, TypeOK
  <2> QED
    BY <1>11, <2>1, <2>2, <2>3 DEF AddChainInfo, TypeOK, historyVars
<1> QED
  BY <1>1, <1>2, <1>3, <1>4, <1>5, <1>6, <1>7, <1>8, <1>9, <1>10, <1>11 DEF InitStep

LEMMA NextTypes == TypeOK /\ [Next]_vars => TypeOK'
<1> SUFFICES ASSUME TypeOK, [Next]_vars PROVE TypeOK'
  OBVIOUS
<1>1. CASE Tick
  BY <1>1, InitAssumption DEF Tick, TypeOK, dbVars, historyVars
<1>2. CASE \E p \in Instances : InitStep(p)
  BY <1>2, InitStepTypes
<1>3. ASSUME NEW p \in Instances, Write(p) PROVE TypeOK'
  <2>1. chain[p] \in Chains /\ indexNamePrefix[p] \in Prefixes
    BY DEF TypeOK
  <2>2. indices' \subseteq Prefixes \X Types /\ data' \subseteq Prefixes \X Chains
    BY <1>3, <2>1 DEF Write, WriteDoc, TypeOK, Types
  <2> QED
    BY <1>3, <2>2 DEF Write, TypeOK, historyVars, boundVars
<1>4. ASSUME NEW p \in Instances, Crash(p) PROVE TypeOK'
  <2>1. pc' \in [Instances -> PCs] /\ indexNamePrefix' \in [Instances -> Prefixes]
        /\ old' \in [Instances -> SUBSET Prefixes]
    BY <1>4, TypeConstants DEF Crash, Goto, TypeOK, PCs
  <2>2. chain' \in [Instances -> Chains]
    BY <1>4 DEF Crash, TypeOK
  <2>3. clock' \in 1..MaxClock /\ crashes' \in 0..MaxCrashes
    BY <1>4, InitAssumption DEF Crash, TypeOK
  <2> QED
    BY <1>4, <2>1, <2>2, <2>3 DEF Crash, TypeOK, dbVars, historyVars
<1>5. CASE UNCHANGED vars
  BY <1>5 DEF vars, dbVars, historyVars, boundVars, TypeOK
<1> QED
  BY <1>1, <1>2, <1>3, <1>4, <1>5 DEF Next

(* The state of every instance and of the database has its types: an       *)
(* instance works on a document type there is, whatever requests fail.      *)
THEOREM StartTypeCorrect == Spec => []TypeOK
<1> QED
  BY InitTypes, NextTypes, PTL DEF Spec
-----------------------------------------------------------------------------
(* The aliases.                                                             *)

(* An instance changes no other's state.                                    *)
LEMMA OthersStay ==
    ASSUME TypeOK, NEW p \in Instances, InitStep(p) \/ Write(p) \/ Crash(p),
           NEW q \in Instances, q # p
    PROVE  /\ pc'[q] = pc[q] /\ indexNamePrefix'[q] = indexNamePrefix[q]
           /\ type'[q] = type[q] /\ old'[q] = old[q] /\ chain'[q] = chain[q]
<1>1. ASSUME NextType(p) \/ Failed(p)
      PROVE  pc'[q] = pc[q] /\ type'[q] = type[q]
  BY <1>1 DEF NextType, Failed, Goto, TypeOK
<1>2. CASE NewIndexer(p) \/ Start(p)
  BY <1>2 DEF NewIndexer, Start, Goto, TypeOK, boundVars, historyVars
<1>3. CASE Look(p)
  BY <1>1, <1>3 DEF Look, Goto, TypeOK
<1>4. CASE CreateIndex(p)
  BY <1>1, <1>4 DEF CreateIndex, Goto, TypeOK
<1>5. CASE ReadAliases(p)
  BY <1>1, <1>5 DEF ReadAliases, Goto, TypeOK
<1>6. CASE UpdateAlias(p)
  BY <1>6 DEF UpdateAlias, Goto, TypeOK
<1>7. CASE DeleteOld(p)
  BY <1>1, <1>7 DEF DeleteOld, Goto, TypeOK
<1>8. CASE Valid(p) \/ QueryFails(p) \/ NodeFails(p) \/ AddChainInfo(p)
  BY <1>8 DEF Valid, QueryFails, NodeFails, AddChainInfo, Goto, TypeOK
<1>9. CASE Write(p)
  BY <1>9 DEF Write
<1>10. CASE Crash(p)
  BY <1>10 DEF Crash, Goto, TypeOK
<1> QED
  BY <1>2, <1>3, <1>4, <1>5, <1>6, <1>7, <1>8, <1>9, <1>10 DEF InitStep

(* Where the loop over the types leads.                                     *)
LEMMA NextTypeLeads ==
    ASSUME TypeOK, NEW p \in Instances, NextType(p)
    PROVE  \/ pc'[p] = "valid" /\ type[p] = 1 /\ type'[p] = 1
           \/ pc'[p] \in {"look", "run"} /\ type[p] > 1 /\ type'[p] > 1
<1>1. type[p] \in 1..NTypes /\ NTypes \in Nat /\ NTypes > 1
  BY InitAssumption DEF TypeOK, Types
<1> QED
  BY <1>1 DEF NextType, Goto, TypeOK

LEMMA FailedLeads ==
    ASSUME TypeOK, NEW p \in Instances, Failed(p)
    PROVE  \/ pc'[p] = "look" /\ type[p] = 1 /\ type'[p] = 1
           \/ pc'[p] \in {"look", "run"} /\ type[p] > 1 /\ type'[p] > 1
<1>1. CASE type[p] = 1 /\ Goto(p, "look") /\ UNCHANGED type
  BY <1>1 DEF Goto, TypeOK
<1>2. CASE type[p] > 1 /\ NextType(p)
  BY <1>2, NextTypeLeads
<1> QED
  BY <1>1, <1>2 DEF Failed

(* A step that leaves the aliases alone has to be looked at for its own     *)
(* instance only.                                                           *)
LEMMA AliasFrame ==
    ASSUME TypeOK, AliasInv, ~overlap, alias' = alias,
           NEW p \in Instances, InitStep(p) \/ Write(p) \/ Crash(p),
           Starting(p)' => \A q \in Instances \ {p} : ~Starting(q),
           AliasOf(p)'
    PROVE  AliasInv'
<1>1. ASSUME NEW q \in Instances, q # p
      PROVE  (Starting(q)' <=> Starting(q)) /\ AliasOf(q)'
  <2>1. /\ pc'[q] = pc[q] /\ indexNamePrefix'[q] = indexNamePrefix[q]
        /\ type'[q] = type[q] /\ old'[q] = old[q]
    BY <1>1, OthersStay
  <2>2. AliasOf(q)
    BY DEF AliasInv
  <2> QED
    BY <2>1, <2>2 DEF AliasOf, PastFirst, Starting
<1>2. \A q, r \in Instances : Starting(q)' /\ Starting(r)' => q = r
  BY <1>1 DEF AliasInv
<1>3. \A q \in Instances : AliasOf(q)'
  BY <1>1
<1>4. \A t \in Types : \A x \in alias'[t] : alias'[1] = {x}
  BY DEF AliasInv
<1> QED
  BY <1>2, <1>3, <1>4 DEF AliasInv

(* A step of a start, and what it deletes: nothing.                         *)
LEMMA AliasStarting ==
    ASSUME TypeOK, AliasInv, ~overlap, NEW p \in Instances, Starting(p), InitStep(p)
    PROVE  AliasInv' /\ indices \subseteq indices' /\ UNCHANGED overlap
<1>0. /\ \A q \in Instances \ {p} : ~Starting(q)
      /\ AliasOf(p)
      /\ type[p] \in Types /\ 1 \in Types
  BY TypeConstants DEF AliasInv, TypeOK
<1>f. ASSUME alias' = alias, AliasOf(p)' PROVE AliasInv'
  BY <1>0, <1>f, AliasFrame
<1>n. ASSUME pc[p] # "off", pc[p] # "new" PROVE ~NewIndexer(p) /\ ~Start(p)
  BY <1>n DEF NewIndexer, Start
<1>1. CASE Look(p)
  <2>1. old'[p] = old[p] /\ alias' = alias /\ indices' = indices /\ overlap' = overlap
        /\ pc[p] = "look"
    BY <1>1 DEF Look, dbVars, historyVars
  <2>2. ASSUME NEW x \in alias[type[p]], NextType(p),
               indexNamePrefix' = [indexNamePrefix EXCEPT ![p] = x]
        PROVE  AliasOf(p)'
    <3>1. indexNamePrefix'[p] = x /\ alias[1] = {x}
      BY <1>0, <2>2 DEF TypeOK, AliasInv
    <3> QED
      BY <2>1, <2>2, <3>1, NextTypeLeads DEF AliasOf, PastFirst, Starting
  <2>3. ASSUME alias[type[p]] = {}, Goto(p, "create"), UNCHANGED <<type, indexNamePrefix>>
        PROVE  AliasOf(p)'
    <3>1. pc'[p] = "create"
      BY <2>3 DEF Goto, TypeOK
    <3> QED
      BY <1>0, <2>1, <2>3, <3>1 DEF AliasOf, PastFirst, Starting
  <2>4. ASSUME Failed(p), UNCHANGED indexNamePrefix
        PROVE  AliasOf(p)'
    BY <1>0, <2>1, <2>4, FailedLeads DEF AliasOf, PastFirst, Starting
  <2>5. AliasOf(p)'
    BY <1>1, <2>2, <2>3, <2>4 DEF Look
  <2> QED
    BY <1>f, <2>1, <2>5
<1>2. CASE CreateIndex(p)
  <2>1. old'[p] = old[p] /\ alias' = alias /\ overlap' = overlap
        /\ indexNamePrefix' = indexNamePrefix /\ pc[p] = "create"
    BY <1>2 DEF CreateIndex, historyVars
  <2>2. indices \subseteq indices'
    BY <1>2 DEF CreateIndex
  <2>3. CASE Goto(p, "aliases") /\ UNCHANGED type
    <3>1. pc'[p] = "aliases"
      BY <2>3 DEF Goto, TypeOK
    <3>2. AliasOf(p)'
      BY <1>0, <2>1, <2>3, <3>1 DEF AliasOf, PastFirst, Starting
    <3> QED
      BY <1>f, <2>1, <2>2, <3>2
  <2>4. CASE Failed(p)
    <3>1. AliasOf(p)'
      BY <1>0, <2>1, <2>4, FailedLeads DEF AliasOf, PastFirst, Starting
    <3> QED
      BY <1>f, <2>1, <2>2, <3>1
  <2> QED
    BY <1>2, <2>3, <2>4 DEF CreateIndex
<1>3. CASE ReadAliases(p)
  <2>1. alias' = alias /\ indices' = indices /\ overlap' = overlap
        /\ indexNamePrefix' = indexNamePrefix /\ pc[p] = "aliases"
    BY <1>3 DEF ReadAliases, dbVars, historyVars
  <2>2. CASE old' = [old EXCEPT ![p] = alias[type[p]]] /\ Goto(p, "update") /\ UNCHANGED type
    <3>1. pc'[p] = "update" /\ old'[p] = {}
      BY <1>0, <2>1, <2>2 DEF Goto, TypeOK, AliasOf
    <3>2. AliasOf(p)'
      BY <1>0, <2>1, <2>2, <3>1 DEF AliasOf, PastFirst, Starting
    <3> QED
      BY <1>f, <2>1, <3>2
  <2>3. CASE Failed(p)
    <3>1. AliasOf(p)'
      BY <1>0, <2>1, <2>3, FailedLeads DEF AliasOf, PastFirst, Starting
    <3> QED
      BY <1>f, <2>1, <3>1
  <2> QED
    BY <1>3, <2>2, <2>3 DEF ReadAliases
<1>4. CASE UpdateAlias(p)
  <2>1. old' = old /\ type' = type /\ indices' = indices /\ overlap' = overlap
        /\ indexNamePrefix' = indexNamePrefix /\ pc[p] = "update" /\ old[p] = {}
        /\ alias[type[p]] = {}
    BY <1>0, <1>4 DEF UpdateAlias, historyVars, AliasOf
  <2>2. CASE alias' = alias /\ Goto(p, "deleteFailed")
    <3>1. pc'[p] = "deleteFailed"
      BY <2>2 DEF Goto, TypeOK
    <3>2. AliasOf(p)'
      BY <1>0, <2>1, <2>2, <3>1 DEF AliasOf, PastFirst, Starting
    <3> QED
      BY <1>f, <2>1, <2>2, <3>2
  <2>3. CASE /\ alias' = [alias EXCEPT ![type[p]] = (@ \ old[p]) \cup {indexNamePrefix[p]}]
             /\ Goto(p, "delete")
    <3>1. /\ alias'[type[p]] = {indexNamePrefix[p]}
          /\ \A t \in Types \ {type[p]} : alias'[t] = alias[t]
          /\ pc'[p] = "delete"
      BY <1>0, <2>1, <2>3 DEF Goto, TypeOK
    <3>2. alias'[1] = {indexNamePrefix[p]}
      <4>1. CASE type[p] = 1
        BY <3>1, <4>1
      <4>2. CASE type[p] # 1
        <5>1. type[p] > 1
          BY <1>0, <4>2, InitAssumption DEF Types
        <5>2. PastFirst(p)
          BY <5>1 DEF PastFirst
        <5> QED
          BY <1>0, <3>1, <4>2, <5>2 DEF AliasOf
      <4> QED
        BY <4>1, <4>2
    <3>3. ASSUME NEW t \in Types, NEW x \in alias'[t]
          PROVE  x = indexNamePrefix[p]
      <4>1. CASE t = type[p]
        BY <3>1, <3>3, <4>1
      <4>2. CASE t # type[p]
        <5>1. x \in alias[t] /\ alias[1] = {x}
          BY <3>1, <3>3, <4>2 DEF AliasInv
        <5>2. type[p] # 1
          BY <2>1, <5>1
        <5> QED
          BY <1>0, <3>1, <3>2, <5>1, <5>2
      <4> QED
        BY <4>1, <4>2
    <3>4. ASSUME NEW q \in Instances, q # p
          PROVE  AliasOf(q)' /\ ~Starting(q)'
      <4>1. /\ pc'[q] = pc[q] /\ indexNamePrefix'[q] = indexNamePrefix[q]
            /\ type'[q] = type[q] /\ old'[q] = old[q] /\ ~Starting(q)
        BY <1>0, <1>4, <3>4, OthersStay DEF InitStep
      <4>2. AliasOf(q)
        BY DEF AliasInv
      <4>3. CASE PastFirst(q)
        <5>1. alias[1] = {indexNamePrefix[q]}
          BY <4>2, <4>3 DEF AliasOf
        <5>2. type[p] # 1
          BY <2>1, <5>1
        <5>3. alias'[1] = alias[1]
          BY <1>0, <3>1, <5>2
        <5> QED
          BY <4>1, <5>1, <5>3 DEF AliasOf, PastFirst, Starting
      <4>4. CASE ~PastFirst(q)
        BY <4>1, <4>4 DEF AliasOf, PastFirst, Starting
      <4> QED
        BY <4>3, <4>4
    <3>5. AliasOf(p)'
      BY <2>1, <3>1, <3>2 DEF AliasOf, PastFirst, Starting
    <3>6. \A q, r \in Instances : Starting(q)' /\ Starting(r)' => q = r
      BY <3>4
    <3>7. \A q \in Instances : AliasOf(q)'
      BY <3>4, <3>5
    <3>8. \A t \in Types : \A x \in alias'[t] : alias'[1] = {x}
      BY <3>2, <3>3
    <3>9. AliasInv'
      BY <3>6, <3>7, <3>8 DEF AliasInv
    <3> QED
      BY <2>1, <3>9
  <2> QED
    BY <1>4, <2>2, <2>3 DEF UpdateAlias
<1>5. CASE DeleteOld(p)
  <2>1. old' = old /\ overlap' = overlap /\ indexNamePrefix' = indexNamePrefix
        /\ pc[p] \in {"delete", "deleteFailed"} /\ old[p] = {}
    BY <1>0, <1>5 DEF DeleteOld, historyVars, AliasOf
  <2>2. alias' = alias /\ indices' = indices
    BY <1>5, <2>1 DEF DeleteOld, TypeOK
  <2>3. CASE pc[p] = "delete" /\ NextType(p)
    <3>1. AliasOf(p)'
      BY <1>0, <2>1, <2>2, <2>3, NextTypeLeads DEF AliasOf, PastFirst, Starting
    <3> QED
      BY <1>f, <2>1, <2>2, <3>1
  <2>4. CASE pc[p] # "delete" /\ Failed(p)
    <3>1. AliasOf(p)'
      BY <1>0, <2>1, <2>2, <2>4, FailedLeads DEF AliasOf, PastFirst, Starting
    <3> QED
      BY <1>f, <2>1, <2>2, <3>1
  <2> QED
    BY <1>5, <2>3, <2>4 DEF DeleteOld
<1>6. CASE Valid(p) \/ QueryFails(p) \/ NodeFails(p) \/ AddChainInfo(p)
  <2>1. old' = old /\ overlap' = overlap /\ indexNamePrefix' = indexNamePrefix
        /\ alias' = alias /\ pc[p] \in {"valid", "add"}
    BY <1>6 DEF Valid, QueryFails, NodeFails, AddChainInfo, dbVars, historyVars
  <2>2. indices \subseteq indices'
    BY <1>6 DEF Valid, QueryFails, NodeFails, AddChainInfo, dbVars
  <2>3. pc'[p] \in {"look", "add", "exit"}
    BY <1>6 DEF Valid, QueryFails, NodeFails, AddChainInfo, Goto, TypeOK
  <2>4. AliasOf(p)'
    BY <1>0, <2>1, <2>3 DEF AliasOf, PastFirst, Starting
  <2> QED
    BY <1>f, <2>1, <2>2, <2>4
<1> QED
  BY <1>1, <1>2, <1>3, <1>4, <1>5, <1>6, <1>n DEF InitStep, Starting

(* The other steps.                                                         *)
LEMMA AliasNext ==
    ASSUME TypeOK, AliasInv, [Next]_vars
    PROVE  AliasInv' /\ (~overlap => indices \subseteq indices')
<1>0. CASE overlap
  <2>1. overlap'
    <3>1. ASSUME NEW p \in Instances, InitStep(p) PROVE overlap'
      BY <1>0, <3>1 DEF InitStep, NewIndexer, Start, Look, CreateIndex, ReadAliases,
            UpdateAlias, DeleteOld, Valid, QueryFails, NodeFails, AddChainInfo, historyVars
    <3> QED
      BY <1>0, <3>1 DEF Next, Tick, Write, Crash, vars, historyVars
  <2> QED
    BY <1>0, <2>1 DEF AliasInv
<1>1. CASE ~overlap /\ (Tick \/ UNCHANGED vars)
  <2>1. UNCHANGED <<indices, alias, overlap, pc, indexNamePrefix, type, old>>
    BY <1>1 DEF Tick, vars, dbVars, historyVars
  <2> QED
    BY <2>1 DEF AliasInv, AliasOf, PastFirst, Starting
<1>2. ASSUME ~overlap, NEW p \in Instances, NewIndexer(p)
      PROVE  AliasInv' /\ indices \subseteq indices'
  <2>1. alias' = alias /\ pc'[p] = "new" /\ indices \subseteq indices'
    BY <1>2 DEF NewIndexer, WriteDoc, Goto, TypeOK
  <2>2. AliasOf(p)' /\ ~Starting(p)'
    BY <2>1 DEF AliasOf, PastFirst, Starting
  <2>3. InitStep(p)
    BY <1>2 DEF InitStep
  <2> QED
    BY <1>2, <2>1, <2>2, <2>3, AliasFrame
<1>3. ASSUME ~overlap, NEW p \in Instances, Start(p)
      PROVE  AliasInv' /\ indices \subseteq indices'
  <2>1. /\ alias' = alias /\ indices' = indices /\ pc'[p] = "look" /\ type'[p] = 1
        /\ overlap' = (overlap \/ \E q \in Instances \ {p} : Starting(q))
    BY <1>3 DEF Start, Goto, TypeOK, dbVars
  <2>2. AliasOf(p)'
    BY <2>1 DEF AliasOf, PastFirst, Starting
  <2>3. InitStep(p)
    BY <1>3 DEF InitStep
  <2>4. CASE overlap'
    BY <2>1, <2>4 DEF AliasInv
  <2>5. CASE ~overlap'
    <3>1. \A q \in Instances \ {p} : ~Starting(q)
      BY <2>1, <2>5
    <3> QED
      BY <1>3, <2>1, <2>2, <2>3, <3>1, AliasFrame
  <2> QED
    BY <2>4, <2>5
<1>4. ASSUME ~overlap, NEW p \in Instances, Write(p) \/ Crash(p)
      PROVE  AliasInv' /\ indices \subseteq indices'
  <2>1. alias' = alias /\ indices \subseteq indices'
    BY <1>4 DEF Write, Crash, WriteDoc, dbVars
  <2>2. AliasOf(p)' /\ ~Starting(p)'
    <3>1. CASE Write(p)
      <4>1. UNCHANGED <<pc, indexNamePrefix, type, old, alias>> /\ pc[p] = "run"
        BY <3>1 DEF Write
      <4>2. AliasOf(p)
        BY <1>4 DEF AliasInv
      <4> QED
        BY <4>1, <4>2 DEF AliasOf, PastFirst, Starting
    <3>2. CASE Crash(p)
      <4>1. pc'[p] = "off"
        BY <3>2 DEF Crash, Goto, TypeOK
      <4> QED
        BY <4>1 DEF AliasOf, PastFirst, Starting
    <3> QED
      BY <1>4, <3>1, <3>2
  <2> QED
    BY <1>4, <2>1, <2>2, AliasFrame
<1>5. ASSUME ~overlap, NEW p \in Instances, InitStep(p)
      PROVE  AliasInv' /\ indices \subseteq indices'
  <2>1. CASE Starting(p)
    BY <1>5, <2>1, AliasStarting
  <2>2. CASE ~Starting(p)
    <3>1. NewIndexer(p) \/ Start(p)
      BY <1>5, <2>2 DEF InitStep, Starting, Look, CreateIndex, ReadAliases, UpdateAlias,
            DeleteOld, Valid, QueryFails, NodeFails, AddChainInfo
    <3> QED
      BY <1>2, <1>3, <1>5, <3>1
  <2> QED
    BY <2>1, <2>2
<1> QED
  BY <1>0, <1>1, <1>4, <1>5 DEF Next

LEMMA AliasInit == Init => AliasInv
<1> SUFFICES ASSUME Init PROVE AliasInv
  OBVIOUS
<1>1. \A p \in Instances : pc[p] = "off"
  BY DEF Init
<1>2. \A p \in Instances : ~Starting(p) /\ AliasOf(p)
  BY <1>1 DEF Starting, AliasOf, PastFirst
<1>3. \A t \in Types : alias[t] = {}
  BY DEF Init
<1> QED
  BY <1>2, <1>3 DEF AliasInv

(* The inductive invariant of the aliases.                                  *)
THEOREM AliasInvariant == Spec => [](TypeOK /\ AliasInv)
<1>1. Init => TypeOK /\ AliasInv
  BY InitTypes, AliasInit
<1>2. TypeOK /\ AliasInv /\ [Next]_vars => (TypeOK /\ AliasInv)'
  BY NextTypes, AliasNext
<1> QED
  BY <1>1, <1>2, PTL DEF Spec

(* As long as no two instances start at the same time, every alias leads to *)
(* at most one index, and all of them, and the instances at work, have one  *)
(* prefix, wherever a start is interrupted and whatever requests fail       *)
(* (CreateIndexIfNotExists).                                                *)
THEOREM PrefixIsOne == Spec => []OnePrefix
<1>1. TypeOK /\ AliasInv => OnePrefix
  <2>1. SUFFICES ASSUME TypeOK, AliasInv, ~overlap
                 PROVE  /\ \A t, u \in Types : \A x \in alias[t], y \in alias[u] : x = y
                        /\ \A p \in Instances : pc[p] = "run" => alias[1] = {indexNamePrefix[p]}
    BY DEF OnePrefix
  <2>2. ASSUME NEW t \in Types, NEW u \in Types, NEW x \in alias[t], NEW y \in alias[u]
        PROVE  x = y
    <3>1. alias[1] = {x} /\ alias[1] = {y}
      BY <2>1 DEF AliasInv
    <3> QED
      BY <3>1
  <2>3. ASSUME NEW p \in Instances, pc[p] = "run"
        PROVE  alias[1] = {indexNamePrefix[p]}
    BY <2>1, <2>3 DEF AliasInv, AliasOf, PastFirst
  <2> QED
    BY <2>2, <2>3
<1> QED
  BY <1>1, AliasInvariant, PTL

(* No index is deleted unless two instances start at the same time: what    *)
(* UpdateAlias finds for an alias it has just seen missing is empty.        *)
THEOREM NoIndexDropped == Spec => NothingDropped
<1>1. TypeOK /\ AliasInv /\ [Next]_vars => [~overlap => indices \subseteq indices']_vars
  BY AliasNext
<1> QED
  BY <1>1, AliasInvariant, PTL DEF Spec, NothingDropped

-----------------------------------------------------------------------------
(* The chain info.                                                          *)

(* A step that leaves the chain infos and the data alone has to be looked   *)
(* at for its own instance only.                                            *)
LEMMA ChainFrame ==
    ASSUME TypeOK, ChainInv, ~overlap, ~unread, chainDocs' = chainDocs, data' = data,
           NEW p \in Instances, InitStep(p) \/ Write(p) \/ Crash(p),
           ChainOf(p)'
    PROVE  ChainInv'
<1>1. ASSUME NEW q \in Instances, q # p
      PROVE  ChainOf(q)'
  <2>1. /\ pc'[q] = pc[q] /\ indexNamePrefix'[q] = indexNamePrefix[q]
        /\ type'[q] = type[q] /\ chain'[q] = chain[q]
    BY <1>1, OthersStay
  <2>2. ChainOf(q)
    BY DEF ChainInv
  <2> QED
    BY <2>1, <2>2 DEF ChainOf, PastValid, Starting
<1>2. \A q \in Instances : ChainOf(q)'
  BY <1>1
<1>3. /\ \A x \in Prefixes : \A c, d \in chainDocs'[x] : c = d
      /\ \A d \in data' : chainDocs'[d[1]] = {d[2]}
  BY DEF ChainInv
<1> QED
  BY <1>2, <1>3 DEF ChainInv

(* Each step of an instance.                                                *)
LEMMA ChainStep ==
    ASSUME TypeOK, AliasInv, ChainInv, ~overlap, ~unread, ~unread', NEW p \in Instances,
           InitStep(p) \/ Write(p) \/ Crash(p)
    PROVE  ChainInv'
<1>0. /\ ChainOf(p) /\ AliasOf(p) /\ type[p] \in Types /\ chain[p] \in Chains
      /\ indexNamePrefix[p] \in Prefixes /\ old[p] \in SUBSET Prefixes
  BY DEF AliasInv, ChainInv, TypeOK
<1>f. ASSUME chainDocs' = chainDocs, data' = data, ChainOf(p)' PROVE ChainInv'
  BY <1>f, ChainFrame
<1>1. CASE NewIndexer(p)
  <2>1. /\ pc[p] = "off" /\ pc'[p] = "new" /\ chainDocs' = chainDocs
        /\ indexNamePrefix[p] = NoPrefix
    BY <1>0, <1>1 DEF NewIndexer, Goto, TypeOK, ChainOf
  <2>2. data' = data
    BY <1>1, <2>1 DEF NewIndexer, WriteDoc
  <2>3. ChainOf(p)'
    BY <2>1 DEF ChainOf, PastValid, Starting
  <2> QED
    BY <1>f, <2>1, <2>2, <2>3
<1>2. CASE Start(p)
  <2>1. pc'[p] = "look" /\ type'[p] = 1 /\ chainDocs' = chainDocs /\ data' = data
    BY <1>2 DEF Start, Goto, TypeOK, dbVars
  <2>2. ChainOf(p)'
    BY <2>1 DEF ChainOf, PastValid, Starting
  <2> QED
    BY <1>f, <2>1, <2>2
<1>3. CASE Look(p)
  <2>1. chain' = chain /\ data' = data /\ chainDocs' = chainDocs /\ pc[p] = "look"
    BY <1>3 DEF Look, dbVars
  <2>2. ASSUME NEW x \in alias[type[p]], NextType(p),
               indexNamePrefix' = [indexNamePrefix EXCEPT ![p] = x]
        PROVE  ChainOf(p)'
    <3>1. indexNamePrefix'[p] = x /\ alias[1] = {x}
      BY <1>0, <2>2 DEF TypeOK, AliasInv
    <3>2. CASE pc'[p] = "valid" /\ type'[p] = 1
      BY <3>2 DEF ChainOf, PastValid, Starting
    <3>3. CASE pc'[p] \in {"look", "run"} /\ type[p] > 1
      <4>1. PastValid(p) /\ PastFirst(p)
        BY <2>1, <3>3 DEF PastValid, PastFirst, Starting
      <4>2. alias[1] = {indexNamePrefix[p]}
        BY <1>0, <4>1 DEF AliasOf
      <4>3. x = indexNamePrefix[p]
        BY <3>1, <4>2
      <4>4. chainDocs[x] = {chain[p]}
        BY <1>0, <4>1, <4>3 DEF ChainOf
      <4> QED
        BY <2>1, <3>1, <3>3, <4>4 DEF ChainOf, PastValid, Starting
    <3> QED
      BY <2>2, <3>2, <3>3, NextTypeLeads
  <2>3. ASSUME Goto(p, "create"), UNCHANGED <<type, indexNamePrefix>>
        PROVE  ChainOf(p)'
    <3>1. pc'[p] = "create"
      BY <2>3 DEF Goto, TypeOK
    <3> QED
      BY <1>0, <2>1, <2>3, <3>1 DEF ChainOf, PastValid, Starting
  <2>4. ASSUME Failed(p), UNCHANGED indexNamePrefix
        PROVE  ChainOf(p)'
    BY <1>0, <2>1, <2>4, FailedLeads DEF ChainOf, PastValid, Starting
  <2>5. ChainOf(p)'
    BY <1>3, <2>2, <2>3, <2>4 DEF Look
  <2> QED
    BY <1>f, <2>1, <2>5
<1>4. CASE CreateIndex(p) \/ ReadAliases(p)
  <2>1. /\ chain' = chain /\ data' = data /\ chainDocs' = chainDocs
        /\ indexNamePrefix' = indexNamePrefix /\ pc[p] \in {"create", "aliases"}
    BY <1>4 DEF CreateIndex, ReadAliases, dbVars
  <2>2. CASE pc'[p] \in {"aliases", "update"} /\ UNCHANGED type
    <3>1. ChainOf(p)'
      BY <1>0, <2>1, <2>2 DEF ChainOf, PastValid, Starting
    <3> QED
      BY <1>f, <2>1, <3>1
  <2>3. CASE Failed(p)
    <3>1. ChainOf(p)'
      BY <1>0, <2>1, <2>3, FailedLeads DEF ChainOf, PastValid, Starting
    <3> QED
      BY <1>f, <2>1, <3>1
  <2>4. \/ pc'[p] \in {"aliases", "update"} /\ UNCHANGED type
        \/ Failed(p)
    BY <1>4 DEF CreateIndex, ReadAliases, Goto, TypeOK
  <2> QED
    BY <2>2, <2>3, <2>4
<1>5. CASE UpdateAlias(p)
  <2>1. /\ chain' = chain /\ data' = data /\ chainDocs' = chainDocs /\ type' = type
        /\ indexNamePrefix' = indexNamePrefix /\ pc[p] = "update"
    BY <1>5 DEF UpdateAlias
  <2>2. pc'[p] \in {"delete", "deleteFailed"}
    BY <1>5 DEF UpdateAlias, Goto, TypeOK
  <2>3. ChainOf(p)'
    BY <1>0, <2>1, <2>2 DEF ChainOf, PastValid, Starting
  <2> QED
    BY <1>f, <2>1, <2>3
<1>6. CASE DeleteOld(p)
  <2>1. /\ chain' = chain /\ data' = data /\ indexNamePrefix' = indexNamePrefix
        /\ pc[p] \in {"delete", "deleteFailed"} /\ old[p] = {}
    BY <1>0, <1>6 DEF DeleteOld, AliasOf
  <2>2. chainDocs' = chainDocs
    BY <1>6, <2>1 DEF DeleteOld, TypeOK
  <2>3. NextType(p) \/ Failed(p)
    BY <1>6 DEF DeleteOld
  <2>4. ChainOf(p)'
    BY <1>0, <2>1, <2>2, <2>3, NextTypeLeads, FailedLeads DEF ChainOf, PastValid, Starting
  <2> QED
    BY <1>f, <2>1, <2>2, <2>4
<1>7. CASE Valid(p)
  <2>1. /\ chain' = chain /\ data' = data /\ chainDocs' = chainDocs
        /\ indexNamePrefix' = indexNamePrefix /\ pc[p] = "valid"
    BY <1>7 DEF Valid, dbVars
  <2>2. \/ pc'[p] = "look" /\ chain[p] \in chainDocs[indexNamePrefix[p]]
        \/ pc'[p] = "exit"
        \/ pc'[p] = "add" /\ chainDocs[indexNamePrefix[p]] = {} /\ UNCHANGED type
    BY <1>7 DEF Valid, Goto, TypeOK
  <2>3. \A c, d \in chainDocs[indexNamePrefix[p]] : c = d
    BY <1>0 DEF ChainInv
  <2>4. pc'[p] = "look" => chainDocs[indexNamePrefix[p]] = {chain[p]}
    BY <2>2, <2>3
  <2>5. pc'[p] = "add" => ~PastValid(p)'
    BY <1>0, <2>1, <2>2 DEF ChainOf, PastValid, Starting
  <2>6. ChainOf(p)'
    BY <2>1, <2>2, <2>4, <2>5 DEF ChainOf, PastValid, Starting
  <2> QED
    BY <1>f, <2>1, <2>6
<1>8. CASE NodeFails(p)
  <2>1. pc'[p] = "exit" /\ chainDocs' = chainDocs /\ data' = data
    BY <1>8 DEF NodeFails, Goto, TypeOK, dbVars
  <2>2. ChainOf(p)'
    BY <2>1 DEF ChainOf, PastValid, Starting
  <2> QED
    BY <1>f, <2>1, <2>2
<1>9. ~QueryFails(p)
  BY DEF QueryFails
<1>10. CASE AddChainInfo(p)
  <2>1. /\ chain' = chain /\ data' = data /\ indexNamePrefix' = indexNamePrefix
        /\ pc[p] = "add" /\ chainDocs[indexNamePrefix[p]] = {}
    BY <1>0, <1>10 DEF AddChainInfo, ChainOf
  <2>2. CASE pc'[p] = "exit" /\ chainDocs' = chainDocs
    <3>1. ChainOf(p)'
      BY <2>2 DEF ChainOf, PastValid, Starting
    <3> QED
      BY <1>f, <2>1, <2>2, <3>1
  <2>3. CASE /\ pc'[p] = "look"
             /\ chainDocs' = [chainDocs EXCEPT ![indexNamePrefix[p]] = @ \cup {chain[p]}]
    <3>1. /\ chainDocs'[indexNamePrefix[p]] = {chain[p]}
          /\ \A x \in Prefixes \ {indexNamePrefix[p]} : chainDocs'[x] = chainDocs[x]
      BY <1>0, <2>1, <2>3 DEF TypeOK
    <3>2. ASSUME NEW x \in Prefixes, NEW c \in chainDocs'[x], NEW d \in chainDocs'[x]
          PROVE  c = d
      BY <3>1, <3>2 DEF ChainInv
    <3>3. ASSUME NEW d \in data' PROVE chainDocs'[d[1]] = {d[2]}
      <4>1. chainDocs[d[1]] = {d[2]} /\ d[1] \in Prefixes
        BY <2>1, <3>3 DEF ChainInv, TypeOK
      <4>2. d[1] # indexNamePrefix[p]
        BY <2>1, <4>1
      <4> QED
        BY <3>1, <4>1, <4>2
    <3>4. ASSUME NEW q \in Instances, q # p PROVE ChainOf(q)'
      <4>1. /\ pc'[q] = pc[q] /\ indexNamePrefix'[q] = indexNamePrefix[q]
            /\ type'[q] = type[q] /\ chain'[q] = chain[q]
        BY <1>10, <3>4, OthersStay DEF InitStep
      <4>2. ChainOf(q) /\ indexNamePrefix[q] \in Prefixes
        BY DEF ChainInv, TypeOK
      <4>3. pc[q] # "add"
        <5>1. Starting(p) /\ (pc[q] = "add" => Starting(q))
          BY <2>1 DEF Starting
        <5> QED
          BY <3>4, <5>1 DEF AliasInv
      <4>4. CASE PastValid(q)
        <5>1. chainDocs[indexNamePrefix[q]] = {chain[q]}
          BY <4>2, <4>4 DEF ChainOf
        <5>2. indexNamePrefix[q] # indexNamePrefix[p]
          BY <2>1, <5>1
        <5>3. chainDocs'[indexNamePrefix[q]] = {chain[q]}
          BY <3>1, <4>2, <5>1, <5>2
        <5> QED
          BY <4>1, <4>2, <4>3, <5>3 DEF ChainOf
      <4>5. CASE ~PastValid(q)
        BY <4>1, <4>2, <4>3, <4>5 DEF ChainOf, PastValid, Starting
      <4> QED
        BY <4>4, <4>5
    <3>5. ChainOf(p)'
      BY <2>1, <2>3, <3>1 DEF ChainOf
    <3>6. \A q \in Instances : ChainOf(q)'
      BY <3>4, <3>5
    <3> QED
      BY <3>2, <3>3, <3>6 DEF ChainInv
  <2>4. \/ pc'[p] = "exit" /\ chainDocs' = chainDocs
        \/ /\ pc'[p] = "look"
           /\ chainDocs' = [chainDocs EXCEPT ![indexNamePrefix[p]] = @ \cup {chain[p]}]
    BY <1>10 DEF AddChainInfo, Goto, TypeOK
  <2> QED
    BY <2>2, <2>3, <2>4
<1>11. CASE Write(p)
  <2>1. /\ UNCHANGED <<chainDocs, pc, indexNamePrefix, type, chain>> /\ pc[p] = "run"
        /\ data' \subseteq data \cup {<<indexNamePrefix[p], chain[p]>>}
    BY <1>11 DEF Write, WriteDoc
  <2>2. chainDocs[indexNamePrefix[p]] = {chain[p]}
    BY <1>0, <2>1 DEF ChainOf, PastValid
  <2>3. \A d \in data' : chainDocs'[d[1]] = {d[2]}
    BY <2>1, <2>2 DEF ChainInv
  <2>4. \A q \in Instances : ChainOf(q)'
    BY <2>1 DEF ChainInv, ChainOf, PastValid, Starting
  <2>5. \A x \in Prefixes : \A c, d \in chainDocs'[x] : c = d
    BY <2>1 DEF ChainInv
  <2> QED
    BY <2>3, <2>4, <2>5 DEF ChainInv
<1>12. CASE Crash(p)
  <2>1. /\ pc'[p] = "off" /\ indexNamePrefix'[p] = NoPrefix
        /\ chainDocs' = chainDocs /\ data' = data
    BY <1>12 DEF Crash, Goto, TypeOK, dbVars
  <2>2. ChainOf(p)'
    BY <2>1 DEF ChainOf, PastValid, Starting
  <2> QED
    BY <1>f, <2>1, <2>2
<1> QED
  BY <1>1, <1>2, <1>3, <1>4, <1>5, <1>6, <1>7, <1>8, <1>9, <1>10, <1>11, <1>12 DEF InitStep

LEMMA ChainNext ==
    ASSUME TypeOK, AliasInv, ChainInv, [Next]_vars
    PROVE  ChainInv'
<1>1. CASE overlap' \/ unread'
  BY <1>1 DEF ChainInv
<1>2. CASE ~overlap' /\ ~unread' /\ (Tick \/ UNCHANGED vars)
  <2>1. UNCHANGED <<chainDocs, data, overlap, unread, pc, indexNamePrefix, type, chain>>
    BY <1>2 DEF Tick, vars, dbVars, historyVars
  <2> QED
    BY <2>1 DEF ChainInv, ChainOf, PastValid, Starting
<1>3. ASSUME ~overlap', ~unread', NEW p \in Instances, InitStep(p) \/ Write(p) \/ Crash(p)
      PROVE  ChainInv'
  <2>1. (overlap => overlap') /\ (unread => unread')
    <3>1. CASE Start(p)
      BY <3>1 DEF Start
    <3>2. CASE QueryFails(p)
      BY <3>2 DEF QueryFails
    <3>3. CASE NewIndexer(p) \/ Look(p) \/ CreateIndex(p) \/ ReadAliases(p) \/ UpdateAlias(p)
      BY <3>3 DEF NewIndexer, Look, CreateIndex, ReadAliases, UpdateAlias, historyVars
    <3>4. CASE DeleteOld(p) \/ Valid(p) \/ NodeFails(p) \/ AddChainInfo(p)
      BY <3>4 DEF DeleteOld, Valid, NodeFails, AddChainInfo, historyVars
    <3>5. CASE Write(p) \/ Crash(p)
      BY <3>5 DEF Write, Crash, historyVars
    <3> QED
      BY <1>3, <3>1, <3>2, <3>3, <3>4, <3>5 DEF InitStep
  <2> QED
    BY <1>3, <2>1, ChainStep
<1> QED
  BY <1>1, <1>2, <1>3 DEF Next

LEMMA ChainInit == Init => ChainInv
<1> SUFFICES ASSUME Init PROVE ChainInv
  OBVIOUS
<1>1. \A p \in Instances : pc[p] = "off" /\ indexNamePrefix[p] = NoPrefix
  BY DEF Init
<1>2. \A p \in Instances : ChainOf(p)
  BY <1>1 DEF ChainOf, PastValid, Starting
<1>3. data = {} /\ \A x \in Prefixes : chainDocs[x] = {}
  BY DEF Init
<1> QED
  BY <1>2, <1>3 DEF ChainInv

(* The documents written to one prefix are of one chain, whichever node an  *)
(* instance is given at a restart, unless two instances start at the same   *)
(* time or the query for the chain info has failed (ValidChainInfo).        *)
THEOREM ChainIsOne == Spec => []OneChain
<1>1. Init => TypeOK /\ AliasInv /\ ChainInv
  BY InitTypes, AliasInit, ChainInit
<1>2. TypeOK /\ AliasInv /\ ChainInv /\ [Next]_vars => (TypeOK /\ AliasInv /\ ChainInv)'
  BY NextTypes, AliasNext, ChainNext
<1>3. TypeOK /\ ChainInv => OneChain
  <2>1. SUFFICES ASSUME TypeOK, ChainInv, ~overlap, ~unread,
                        NEW d \in data, NEW e \in data, d[1] = e[1]
                 PROVE  d[2] = e[2]
    BY DEF OneChain
  <2>2. chainDocs[d[1]] = {d[2]} /\ chainDocs[e[1]] = {e[2]}
    BY <2>1 DEF ChainInv
  <2> QED
    BY <2>1, <2>2
<1> QED
  BY <1>1, <1>2, <1>3, PTL DEF Spec
=============================================================================
