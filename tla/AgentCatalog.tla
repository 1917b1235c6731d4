---------------------------- MODULE AgentCatalog ----------------------------
(* Which model a worker may work with. The operator selects a backend and one   *)
(* of its models on the host (update_worker); the daemon asks the selected      *)
(* backend what it offers, at its start, every minute, when the backend is      *)
(* switched and when a refresh is ordered, reports that to the host, which      *)
(* checks selections against it, and claims only with a selected model that is  *)
(* in its catalog. What the backends offer changes with sign-ins and networks.  *)
(* A model stands for the pair of a provider and a model; the catalog of a      *)
(* backend that cannot be asked is empty. Refresh requests are handed over as   *)
(* WorkerControl has it; here one is outstanding at most.                       *)
(* Bounds: MaxUpdates updates and refreshes, MaxShifts changes of what a        *)
(* backend offers, MaxTroubles lost calls, failed probes and builds, restarts.  *)
EXTENDS Naturals

CONSTANTS Model, NoModel, MaxUpdates, MaxShifts, MaxTroubles

ASSUME CatalogAssumption ==
    /\ NoModel \notin Model
    /\ MaxUpdates \in Nat /\ MaxShifts \in Nat /\ MaxTroubles \in Nat

VARIABLES
    offers,    \* what each backend would list now
    row,       \* the worker's agent columns on the host
    reported,  \* agent_capabilities on the host
    update,    \* the update_worker that is about to write
    wanted,    \* a model refresh is queued
    step,      \* where the daemon is
    next,      \* where it goes from a report
    config,    \* runtime_config.agent and model_refresh
    catalog,   \* agent_capabilities of the daemon
    askedOf,   \* the backend that was asked last (history)
    unasked,   \* start-up went on without asking the selected backend (history)
    updates, shifts, troubles

offering == <<offers, shifts>>
hostRow == <<row, reported, update, wanted, updates>>
daemonVars == <<step, next, config, catalog, askedOf, unasked>>
catalogVars == <<offering, hostRow, daemonVars, troubles>>

AgentType == {"pi", "opencode"}
Catalog == SUBSET Model
Selection == [backend : AgentType, model : Model \cup {NoModel}]
Steps == {"start", "fetch", "reconcile", "first refresh", "loop", "config", "refresh", "gate",
          "claim", "report"}

Config == [backend : AgentType, model : Model \cup {NoModel}, refresh : BOOLEAN]
Unselected == [backend |-> "pi", model |-> NoModel]

CatalogTypeOK ==
    /\ offers \in [AgentType -> Catalog] /\ row \in Selection /\ reported \in Catalog
    /\ update \in [due : BOOLEAN, agent : Selection] /\ wanted \in BOOLEAN
    /\ step \in Steps /\ next \in Steps /\ config \in Config
    /\ catalog \in Catalog /\ askedOf \in AgentType /\ unasked \in BOOLEAN
    /\ updates \in 0 .. MaxUpdates /\ shifts \in 0 .. MaxShifts
    /\ troubles \in 0 .. MaxTroubles

(* A worker just enrolled: its registration said what Pi listed, if anything *)
CatalogInit ==
    /\ offers \in [AgentType -> Catalog]
    /\ row = Unselected /\ reported \in {{}, offers["pi"]} /\ wanted = FALSE
    /\ update = [due |-> FALSE, agent |-> Unselected]
    /\ step = "start" /\ next = "start"
    /\ config = [backend |-> "pi", model |-> NoModel, refresh |-> FALSE]
    /\ catalog = {} /\ askedOf = "pi" /\ unasked = FALSE
    /\ updates = 0 /\ shifts = 0 /\ troubles = 0

Fails == troubles < MaxTroubles /\ troubles' = troubles + 1

OffersShift(b, models) ==
    /\ shifts < MaxShifts /\ shifts' = shifts + 1
    /\ models # offers[b] /\ offers' = [offers EXCEPT ![b] = models]
    /\ UNCHANGED <<hostRow, daemonVars, troubles>>

-----------------------------------------------------------------------------
(* The host *)

(* A switch of the backend drops the selection and may not name a new one *)
Resolved(backend, model, clear) ==
    IF backend # row.backend \/ clear THEN NoModel
    ELSE IF model # NoModel THEN model ELSE row.model

(* Checked of the selection that is kept, too; a worker without a catalog may  *)
(* be given any                                                                *)
Reported(model) == model = NoModel \/ reported = {} \/ model \in reported

UpdateReads(backend, model, clear) ==
    /\ ~update.due /\ updates < MaxUpdates
    /\ backend # row.backend => model = NoModel
    /\ clear => model = NoModel
    /\ Reported(Resolved(backend, model, clear))
    /\ update' = [due |-> TRUE, agent |->
                    [backend |-> backend, model |-> Resolved(backend, model, clear)]]
    /\ updates' = updates + 1
    /\ UNCHANGED <<offering, row, reported, wanted, daemonVars, troubles>>

UpdateWrites ==
    /\ update.due /\ update' = [update EXCEPT !.due = FALSE]
    /\ row' = update.agent
    /\ UNCHANGED <<offering, reported, wanted, updates, daemonVars, troubles>>

OrderRefresh ==
    /\ updates < MaxUpdates /\ ~wanted
    /\ wanted' = TRUE /\ updates' = updates + 1
    /\ UNCHANGED <<offering, row, reported, update, daemonVars, troubles>>

-----------------------------------------------------------------------------
(* The daemon asks a backend and reports what it said *)

(* probe_models of the backend: it lists what it offers, or the probe fails *)
Listing(b, answer) ==
    /\ \/ answer = offers[b] /\ UNCHANGED troubles
       \/ answer = {} /\ offers[b] # {} /\ Fails
    /\ catalog' = answer /\ askedOf' = b

Asks(b, place) ==
    /\ \E answer \in {offers[b], {}} : Listing(b, answer)
    /\ step' = "report" /\ next' = place

GoesTo(place) == step' = place /\ UNCHANGED next

(* A report that is lost may have been taken *)
Report ==
    /\ step = "report" /\ GoesTo(next)
    /\ \/ reported' = catalog /\ UNCHANGED troubles
       \/ reported' = reported /\ Fails
    /\ UNCHANGED <<offering, row, update, wanted, updates, config, catalog, askedOf, unasked>>

-----------------------------------------------------------------------------
(* Start-up: Pi is asked whatever is selected, the selected backend only once  *)
(* the capabilities are in place                                               *)

StartUp ==
    /\ step = "start" /\ Asks("pi", "fetch")
    /\ unasked' = FALSE
    /\ UNCHANGED <<offering, hostRow, config>>

Fetched == [backend |-> row.backend, model |-> row.model, refresh |-> wanted]

FirstConfig ==
    /\ step = "fetch" /\ config' = Fetched /\ GoesTo("reconcile")
    /\ UNCHANGED <<offering, hostRow, catalog, askedOf, unasked, troubles>>

FirstReconcile ==
    /\ step = "reconcile" /\ Asks(config.backend, "first refresh")
    /\ UNCHANGED <<offering, hostRow, config, unasked>>

FirstReconcileFails ==
    /\ step = "reconcile" /\ Fails /\ GoesTo("first refresh")
    /\ unasked' = TRUE
    /\ UNCHANGED <<offering, hostRow, config, catalog, askedOf>>

(* It exits when its first configuration cannot be had; it may stop anywhere   *)
DaemonRestarts ==
    /\ step # "start" /\ Fails /\ GoesTo("start")
    /\ UNCHANGED <<offering, hostRow, config, catalog, askedOf, unasked>>

-----------------------------------------------------------------------------
(* The loop *)

(* Every minute *)
Reprobe ==
    /\ step = "loop" /\ Asks(config.backend, "config")
    /\ unasked' = FALSE
    /\ UNCHANGED <<offering, hostRow, config>>

NotYetDue ==
    /\ step = "loop" /\ GoesTo("config")
    /\ UNCHANGED <<offering, hostRow, config, catalog, askedOf, unasked, troubles>>

NeverSwitched(fetched) == FALSE  \* mutant: the catalog outlives its backend
Switched(fetched) == fetched.backend # config.backend

FetchConfig ==
    /\ step = "config" /\ config' = Fetched
    /\ IF Switched(Fetched)
       THEN Asks(row.backend, "refresh") /\ unasked' = FALSE
       ELSE GoesTo("refresh") /\ UNCHANGED <<catalog, askedOf, unasked, troubles>>
    /\ UNCHANGED <<offering, hostRow>>

ConfigLost ==
    /\ step = "config" /\ Fails /\ GoesTo("refresh")
    /\ UNCHANGED <<offering, hostRow, config, catalog, askedOf, unasked>>

(* A refresh is followed by a probe; one that fails leaves the catalog as it   *)
(* was. Either way the request is acknowledged                                 *)
AfterRefresh == IF step = "refresh" THEN "gate" ELSE "loop"

Refresh ==
    /\ step \in {"first refresh", "refresh"} /\ config.refresh
    /\ config' = [config EXCEPT !.refresh = FALSE]
    /\ step' = "report" /\ next' = AfterRefresh
    /\ \/ /\ \E answer \in {offers[config.backend], {}} : Listing(config.backend, answer)
          /\ unasked' = FALSE
       \/ UNCHANGED <<catalog, askedOf, unasked>> /\ Fails
    /\ wanted' = FALSE
    /\ UNCHANGED <<offering, row, reported, update, updates>>

NoRefresh ==
    /\ step \in {"first refresh", "refresh"} /\ ~config.refresh /\ GoesTo(AfterRefresh)
    /\ UNCHANGED <<offering, hostRow, config, catalog, askedOf, unasked, troubles>>

(* can_claim_work, behind a reconciliation that may fail *)
CanClaimWork == config.model # NoModel /\ config.model \in catalog

Gate ==
    /\ step = "gate" /\ GoesTo(IF CanClaimWork THEN "claim" ELSE "loop")
    /\ UNCHANGED <<offering, hostRow, config, catalog, askedOf, unasked, troubles>>

ReconcileFails ==
    /\ step = "gate" /\ Fails /\ GoesTo("loop")
    /\ UNCHANGED <<offering, hostRow, config, catalog, askedOf, unasked>>

(* Slots are filled with the backend and the model of config *)
Claims ==
    /\ step = "claim" /\ GoesTo("loop")
    /\ UNCHANGED <<offering, hostRow, config, catalog, askedOf, unasked, troubles>>

-----------------------------------------------------------------------------
DaemonStep ==
    \/ StartUp \/ FirstConfig \/ FirstReconcile \/ Report
    \/ Reprobe \/ NotYetDue \/ FetchConfig \/ Refresh \/ NoRefresh \/ Gate \/ Claims

Disturbance == FirstReconcileFails \/ DaemonRestarts \/ ConfigLost \/ ReconcileFails

CatalogNext ==
    \/ \E b \in AgentType, models \in Catalog : OffersShift(b, models)
    \/ \E b \in AgentType, m \in Model \cup {NoModel}, clear \in BOOLEAN : UpdateReads(b, m, clear)
    \/ UpdateWrites \/ OrderRefresh
    \/ DaemonStep \/ Disturbance

(* The loop goes on, and its minute passes again and again *)
CatalogFairness == WF_catalogVars(DaemonStep) /\ SF_catalogVars(Reprobe)

CatalogSpec == CatalogInit /\ [][CatalogNext]_catalogVars /\ CatalogFairness

-----------------------------------------------------------------------------
(* Whatever was switched, lost, refreshed or restarted in between, the catalog *)
(* a claim was let through by is of the backend it will run. (Unless start-up  *)
(* could not build the capabilities: Pi's catalog then stands in for another   *)
(* backend's until its minute is over.) (async_main, can_claim_work)           *)
ClaimsWithOwnCatalog ==
    step = "claim" => askedOf = config.backend \/ unasked

(* The same without the exception *)
AlwaysOwnCatalog == step = "claim" => askedOf = config.backend

(* In the end a selection its backend offers is worked with, again and again,  *)
(* and the host knows of that offer, although a report that is lost is not     *)
(* repeated (report_capabilities)                                              *)
SelectionTakesEffect ==
    <>[](row.model \in offers[row.backend])
        => []<>(step = "claim" /\ reported = offers[row.backend])
=============================================================================
