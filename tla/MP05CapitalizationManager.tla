----------------------- MODULE MP05CapitalizationManager -----------------------
(***************************************************************************)
(* _deferred/src/settlement/MP05CapitalizationManager.ts: the value that a *)
(* finalized settlement becomes, its description for other systems, and    *)
(* what they report of its execution.  Here a write that the disk refuses  *)
(* throws: the record stays in memory and the caller is told of an error.  *)
(* Amounts, rights and percentages are left out.                           *)
(***************************************************************************)
EXTENDS MP05SettlementManager

CONSTANT MaxEvents      \* bound: capitalization events

VARIABLES
    events, eventFiles, eventIds,
    interfaces, interfaceFiles,
    executions, executionFiles  \* event id -> what was last reported of it

capitalizationVars ==
    <<events, eventFiles, eventIds, interfaces, interfaceFiles, executions, executionFiles>>

CapitalizationEvent == [settlement: Nat, beneficiaries: SUBSET Parties, executed: BOOLEAN]

CapitalizationInterface == [settlement: Nat, event: Nat, beneficiaries: SUBSET Parties]

ExecutionMetadata == {"pending", "confirmed", "failed"}

CapitalizationInit ==
    /\ events = << >> /\ eventFiles = << >> /\ eventIds = 0
    /\ interfaces = {} /\ interfaceFiles = {}
    /\ executions = << >> /\ executionFiles = << >>

SaveEvent(e, event, lost) ==
    /\ events' = Put(events, e, event)
    /\ eventFiles' = IF lost THEN eventFiles ELSE Put(eventFiles, e, event)

SaveInterface(interface, lost) ==
    /\ interfaces' = interfaces \cup {interface}
    /\ interfaceFiles' = IF lost THEN interfaceFiles ELSE interfaceFiles \cup {interface}

\* Mutant: a ratified settlement will do.
CapitalizableOnceRatified(settlement, beneficiaries) ==
    /\ settlement.status \in {"ratified", "finalized"}
    /\ beneficiaries # {} /\ beneficiaries \subseteq settlement.required

Capitalizable(settlement, beneficiaries) ==
    /\ settlement.status = "finalized"
    /\ beneficiaries # {} /\ beneficiaries \subseteq settlement.required

CreateCapitalizationEvent(s, beneficiaries, lost) ==
    /\ eventIds < MaxEvents
    /\ Capitalizable(settlements[s], beneficiaries)
    /\ eventIds' = eventIds + 1
    /\ SaveEvent(eventIds',
           [settlement |-> s, beneficiaries |-> beneficiaries, executed |-> FALSE], lost)
    /\ Losing(<<lost>>)
    /\ UNCHANGED <<interfaces, interfaceFiles, executions, executionFiles>>

\* Whom an interface names is not compared with the parties, or with the event.
GenerateCapitalizationInterface(s, e, beneficiaries, lost) ==
    /\ e \in DOMAIN events
    /\ settlements[s].status = "finalized"
    /\ events[e].settlement = s
    /\ beneficiaries # {}
    /\ SaveInterface([settlement |-> s, event |-> e, beneficiaries |-> beneficiaries], lost)
    /\ Losing(<<lost>>)
    /\ UNCHANGED <<events, eventFiles, eventIds, executions, executionFiles>>

\* The settlement is not asked again; the report is kept only if the event could be saved.
RecordExecution(e, report, lostEvent, lostReport) ==
    /\ SaveEvent(e, [events[e] EXCEPT !.executed = TRUE], lostEvent)
    /\ IF lostEvent
       THEN ~lostReport /\ UNCHANGED <<executions, executionFiles>>
       ELSE /\ executions' = Put(executions, e, report)
            /\ executionFiles' = IF lostReport THEN executionFiles ELSE Put(executionFiles, e, report)
    /\ Losing(<<lostEvent, lostReport>>)
    /\ UNCHANGED <<eventIds, interfaces, interfaceFiles>>

LoadCapitalization ==
    /\ events' = eventFiles /\ interfaces' = interfaceFiles /\ executions' = executionFiles
    /\ UNCHANGED <<eventFiles, eventIds, interfaceFiles, executionFiles>>
===============================================================================
