------------------------------- MODULE MCParts -------------------------------
(***************************************************************************)
(* The parts of the system that do not act on one another, one at a time:  *)
(* the part that runs is chosen at the start, and the others stand still.  *)
(*                                                                         *)
(*   ledger     one team, two batches of up to two outputs, a balance that *)
(*              pays for some of them, one pack, refills, lapses and a     *)
(*              switch; and the credit operators against reference         *)
(*              definitions                                                *)
(*   accounts   four requests of three users, one of them with another's   *)
(*              address and a throwaway one at that; two requests share an *)
(*              IP address with a third; the cap is one bonus; one day     *)
(*   midnight   the first three of them, over two days                    *)
(*   catalogue  a cache of one row and one of a list, three readers, rows  *)
(*              that are deleted and put back                              *)
(*   fal        three attempts, and a worker that dies once                *)
(*   health     the real intervals, in ticks of five seconds               *)
(*   planning   shoots with two slots and references, listings             *)
(*   two        any two handlers of two API processes and the worker       *)
(*   three      any three handlers of one API process and the worker that  *)
(*              lock one job at most                                       *)
(***************************************************************************)
EXTENDS CreditLedger, Accounts, Catalogue, FalRequests, WorkerHealth, Planning,
        RowLocks, FiniteSetsExt, TLC

CONSTANTS
    t1, r1, r2, p1,
    l1, l2, l3, l4, ua, ub, uc,
    a1, a2, j1, j2

MCTeamOf == r1 :> t1 @@ r2 :> t1
MCPool == [sub |-> 2, top |-> 3]
MCBuyerOf == p1 :> t1
MCPackOf == p1 :> 2

\* The two requests are of one team and may change places.
Alike == Permutations(Requests)

MCUidOf == l1 :> ua @@ l2 :> ua @@ l3 :> ub @@ l4 :> uc
MCEmailOf == ua :> "a" @@ ub :> "b" @@ uc :> "a"
MCKeysOf == l1 :> <<"ip", "device">> @@ l2 :> <<>> @@ l3 :> <<"ip">> @@ l4 :> <<"ip">>

MCTTLOf == "tooldef" :> 1 @@ "landing" :> 3
MCReaderOf == 1 :> "tooldef" @@ 2 :> "landing" @@ 3 :> "landing"

MCAsks ==
    {Ask("shoot", 1, <<Slot(u, 1), Slot(0, l)>>, Slot(r, 0), n) :
        u \in 0 .. 1, l \in 0 .. 1, r \in 0 .. 1, n \in {0, 2}}
    \union {Ask("shoot", 2, <<Slot(1, 0)>>, Slot(0, 0), 4)}
    \union {Ask("listing", 0, <<Slot(u, l)>>, Slot(0, 0), n) :
        u \in 1 .. 2, l \in 0 .. 1, n \in {0, 1, 3}}

MCToolRows ==
    {Tool(TRUE, 4, 3, sized, TRUE) : sized \in BOOLEAN}
    \union {Tool(FALSE, 4, 3, TRUE, TRUE), Tool(TRUE, 2, 2, TRUE, FALSE),
            Tool(TRUE, 4, 4, TRUE, TRUE)}

MCAnswers ==
    {Listed(n) : n \in {0, 1, 3, 4}} \union {NotJson, Raising}
    \union {Shot(category, age, n) :
               category \in {"intimate", "general", "other"},
               age \in {"adult", "underage", "adult_uncertain", "other"}, n \in 2 .. 3}

MCShotTypes == <<"hero", "detail">>
-----------------------------------------------------------------------------
VARIABLE part   \* which part runs

partsVars == <<part, ledgerVars, accountsVars, catalogueVars, falVars, healthVars,
               planningVars, rowLocksVars>>

Signing == {"accounts", "midnight"}
Locking == {"two", "three"}

Parts == {"ledger", "catalogue", "fal", "health", "planning"} \union Signing \union Locking

\* The third session is over before the others begin.
TwoSessionsInit ==
    /\ handler = [s \in Sessions |-> IF s = 3 THEN "ended" ELSE "none"]
    /\ home = [s \in Sessions |-> Worker]
    /\ rest = [s \in Sessions |-> <<>>]
    /\ held = [s \in Sessions |-> {}]
    /\ loop = [p \in Processes |-> NoSession]

PartsInit ==
    /\ part \in Parts
    /\ LedgerInit /\ AccountsInit /\ CatalogueInit /\ FalInit /\ HealthInit
    /\ PlanningInit
    /\ IF part = "two" THEN TwoSessionsInit ELSE RowLocksInit
    /\ part # "planning" => <<ask, toolRow>> = CHOOSE pair \in Asks \X ToolRows : TRUE

OnlyIn(p, others) == part = p /\ UNCHANGED <<part, others>>

LedgerPart ==
    /\ OnlyIn("ledger", <<accountsVars, catalogueVars, falVars, healthVars,
                          planningVars, rowLocksVars>>)
    /\ LedgerNext

AccountsPart ==
    /\ part \in Signing
    /\ OnlyIn(part, <<ledgerVars, catalogueVars, falVars, healthVars,
                      planningVars, rowLocksVars>>)
    /\ AccountsNext
    /\ IF part = "accounts" THEN UNCHANGED today
                            ELSE login'[l4] = "new"

CataloguePart ==
    /\ OnlyIn("catalogue", <<ledgerVars, accountsVars, falVars, healthVars,
                             planningVars, rowLocksVars>>)
    /\ CatalogueNext

FalPart ==
    /\ OnlyIn("fal", <<ledgerVars, accountsVars, catalogueVars, healthVars,
                       planningVars, rowLocksVars>>)
    /\ FalNext

HealthPart ==
    /\ OnlyIn("health", <<ledgerVars, accountsVars, catalogueVars, falVars,
                          planningVars, rowLocksVars>>)
    /\ HealthNext

PlanningPart ==
    /\ OnlyIn("planning", <<ledgerVars, accountsVars, catalogueVars, falVars,
                            healthVars, rowLocksVars>>)
    /\ PlanningNext

\* Sessions are alike: of two that are active, the one with the smaller
\* number has the handler that comes first.
HandlerOrder ==
    <<"none", "ended", "generate", "enqueueFailure", "falWebhook", "payment",
      "activated", "charged", "checkout", "cancel", "switch", "editTeam", "seat",
      "submit", "renew", "checkTimeouts", "sweep", "purge">>

Place == [h \in Range(HandlerOrder) |-> CHOOSE i \in DOMAIN HandlerOrder : HandlerOrder[i] = h]

InOrder ==
    \A s, t \in {u \in Sessions : Active(u)} :
        s < t => Place[handler[s]] <= Place[handler[t]]

OneJob ==
    \A s \in Sessions : Active(s) =>
        /\ handler[s] \notin {"checkTimeouts", "sweep", "purge"}
        /\ home[s] # a2
        /\ \A i \in DOMAIN rest[s] : rest[s][i].op = "take" => rest[s][i].row # j2

LocksPart ==
    /\ part \in Locking
    /\ OnlyIn(part, <<ledgerVars, accountsVars, catalogueVars, falVars, healthVars,
                      planningVars>>)
    /\ RowLocksNext
    /\ part = "three" => OneJob'
    /\ InOrder'

PartsNext ==
    \/ LedgerPart \/ AccountsPart \/ CataloguePart \/ FalPart \/ HealthPart
    \/ PlanningPart \/ LocksPart

PartsSpec == PartsInit /\ [][PartsNext]_partsVars

\* Every part's state keeps its types.
TypesOK ==
    /\ part = "ledger" => LedgerTypeOK
    /\ part \in Signing => AccountsTypeOK
    /\ part = "catalogue" => CatalogueTypeOK
    /\ part = "fal" => FalTypeOK
    /\ part = "health" => HealthTypeOK
    /\ part = "planning" => PlanningTypeOK
    /\ part \in Locking => RowLocksTypeOK
=============================================================================
