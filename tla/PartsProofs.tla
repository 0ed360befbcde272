----------------------------- MODULE PartsProofs -----------------------------
(***************************************************************************)
(* MCParts runs one part at a time while the others stand still.  What it  *)
(* does to the variables of a part is therefore what that part's own       *)
(* specification allows, and every theorem about a part holds of MCParts.  *)
(* Of the row locks this is shown for their invariant, since MCParts also  *)
(* starts them with a session that is over.                                *)
(***************************************************************************)
EXTENDS MCParts, ApiProofs, WorkerProofs, RowLocksProofs

\* A step of MCParts is a step of each part, or leaves it alone.
LEMMA StepsOfTheParts ==
    [PartsNext]_partsVars =>
        /\ [LedgerNext]_ledgerVars /\ [AccountsNext]_accountsVars
        /\ [CatalogueNext]_catalogueVars /\ [FalNext]_falVars /\ [HealthNext]_healthVars
        /\ [PlanningNext]_planningVars /\ [RowLocksNext]_rowLocksVars
<1> SUFFICES ASSUME [PartsNext]_partsVars
             PROVE  /\ [LedgerNext]_ledgerVars /\ [AccountsNext]_accountsVars
                    /\ [CatalogueNext]_catalogueVars /\ [FalNext]_falVars
                    /\ [HealthNext]_healthVars /\ [PlanningNext]_planningVars
                    /\ [RowLocksNext]_rowLocksVars
    OBVIOUS
<1>1. CASE LedgerPart
    BY <1>1 DEF LedgerPart, OnlyIn
<1>2. CASE AccountsPart
    BY <1>2 DEF AccountsPart, OnlyIn
<1>3. CASE CataloguePart
    BY <1>3 DEF CataloguePart, OnlyIn
<1>4. CASE FalPart
    BY <1>4 DEF FalPart, OnlyIn
<1>5. CASE HealthPart
    BY <1>5 DEF HealthPart, OnlyIn
<1>6. CASE PlanningPart
    BY <1>6 DEF PlanningPart, OnlyIn
<1>7. CASE LocksPart
    BY <1>7 DEF LocksPart, OnlyIn
<1>8. CASE UNCHANGED partsVars
    BY <1>8 DEF partsVars
<1> QED
    BY <1>1, <1>2, <1>3, <1>4, <1>5, <1>6, <1>7, <1>8 DEF PartsNext

\* MCParts implements each part but the row locks, whatever the constants.
THEOREM PartsStandAlone ==
    PartsSpec => /\ LedgerSpec /\ AccountsSpec /\ CatalogueSpec
                 /\ FalSpec /\ HealthSpec /\ PlanningSpec
<1>1. PartsInit => /\ LedgerInit /\ AccountsInit /\ CatalogueInit
                   /\ FalInit /\ HealthInit /\ PlanningInit
    BY DEF PartsInit
<1> QED
    BY <1>1, StepsOfTheParts, PTL
    DEF PartsSpec, LedgerSpec, AccountsSpec, CatalogueSpec, FalSpec, HealthSpec, PlanningSpec

\* Two sessions are like three of which one is over.
LEMMA TwoSessionsAreFine == TwoSessionsInit => RowLocksInv
<1> SUFFICES ASSUME TwoSessionsInit PROVE RowLocksInv
    OBVIOUS
<1>1. <<>> \in Seq(Steps) /\ Worker \in Processes /\ NoSession \notin Sessions
    BY EmptySeq, RowLocksAssumption DEF Processes
<1>2. \A s \in Sessions : handler[s] \in {"none", "ended"} /\ ~Active(s)
    BY DEF TwoSessionsInit, Active
<1>3. Shapes
    BY <1>1, <1>2 DEF TwoSessionsInit, Shapes, Names
<1>4. LoopsAreBusy
    BY <1>1 DEF TwoSessionsInit, LoopsAreBusy
<1>5. SessionsAreFine
    BY <1>2, SessionEnds DEF TwoSessionsInit, SessionsAreFine
<1> QED
    BY <1>3, <1>4, <1>5 DEF RowLocksInv

\* The invariant of the row locks holds in MCParts, too.
LEMMA RowLocksInParts == PartsSpec => []RowLocksInv
<1>1. PartsInit => RowLocksInv
    BY TwoSessionsAreFine, RowLocksInvHoldsAtFirst DEF PartsInit
<1> QED
    BY <1>1, StepsOfTheParts, RowLocksInvIsKept, PTL DEF PartsSpec

\* TypesOK, whatever the constants: the part that runs keeps its types, and so
\* do those that stand still.
THEOREM PartsAreTyped == PartsSpec => []TypesOK
<1>1. RowLocksInv => RowLocksTypeOK
    BY DEF RowLocksInv, Shapes, Names, RowLocksTypeOK, Modes
<1>2. /\ LedgerTypeOK /\ AccountsTypeOK /\ CatalogueTypeOK /\ FalTypeOK /\ HealthTypeOK
      /\ PlanningTypeOK /\ RowLocksTypeOK
      => TypesOK
    BY DEF TypesOK
<1> QED
    BY <1>1, <1>2, PartsStandAlone, RowLocksInParts, LedgerIsTyped, AccountsAreTyped,
       CatalogueIsTyped, FalTypesHold, HealthIsTyped, PlansAreTyped, PTL
=============================================================================
