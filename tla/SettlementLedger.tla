--------------------------- MODULE SettlementLedger ---------------------------
(***************************************************************************)
(* The NatLangChain ledger as the mediator node uses it.  The chain is not *)
(* part of the node: what is kept here is what ChainClient.ts writes to it *)
(* (proposals and payout claims) and what it reads back (acceptance and    *)
(* challenge entries).  The ledger never refuses an entry and keeps no     *)
(* identity between two copies of one request: posting a request twice     *)
(* leaves two entries.  A request its client has given up on (the 30 s     *)
(* timeout of axios, a lost connection, the end of the process) may still  *)
(* arrive, at any time or never.                                           *)
(***************************************************************************)
EXTENDS Naturals

CONSTANTS Settlements,   \* settlement identifiers (nanoid values)
          Parties        \* the two parties, A and B, of every settlement

VARIABLES proposals,     \* how many proposal entries carry the settlement's id
          accepts,       \* the parties with an acceptance entry
          verdicts,      \* the statuses of the challenge entries on it
          claims,        \* how many payout claims the chain has applied
          lateProposals, \* proposals given up on that may still arrive
          lateClaims     \* payout claims given up on that may still arrive

ledgerVars == <<proposals, accepts, verdicts, claims, lateProposals, lateClaims>>

\* The manager tells an upheld challenge from every other one (pending or
\* rejected): those are "standing".
ChallengeStatus == {"standing", "upheld"}

LedgerTypeOK ==
    /\ proposals \in [Settlements -> Nat]
    /\ accepts \in [Settlements -> SUBSET Parties]
    /\ verdicts \in [Settlements -> SUBSET ChallengeStatus]
    /\ claims \in [Settlements -> Nat]
    /\ lateProposals \in [Settlements -> Nat]
    /\ lateClaims \in [Settlements -> Nat]

LedgerInit ==
    /\ proposals = [s \in Settlements |-> 0]
    /\ accepts = [s \in Settlements |-> {}]
    /\ verdicts = [s \in Settlements |-> {}]
    /\ claims = [s \in Settlements |-> 0]
    /\ lateProposals = [s \in Settlements |-> 0]
    /\ lateClaims = [s \in Settlements |-> 0]

\* POST /contract/propose, or POST /entry with a proposal.
RecordProposal(s) ==
    /\ proposals' = [proposals EXCEPT ![s] = @ + 1]
    /\ UNCHANGED <<accepts, verdicts, claims, lateProposals, lateClaims>>

\* POST /contract/payout, or POST /entry with a payout_claim.
RecordClaim(s) ==
    /\ claims' = [claims EXCEPT ![s] = @ + 1]
    /\ UNCHANGED <<proposals, accepts, verdicts, lateProposals, lateClaims>>

\* A party that sees the proposal posts its signed acceptance.
RecordAccept(s, q) ==
    /\ proposals[s] > 0
    /\ q \notin accepts[s]
    /\ accepts' = [accepts EXCEPT ![s] = @ \cup {q}]
    /\ UNCHANGED <<proposals, verdicts, claims, lateProposals, lateClaims>>

\* Another mediator challenges the proposal; consensus later posts a verdict.
RecordVerdict(s, v) ==
    /\ proposals[s] > 0
    /\ v \notin verdicts[s]
    /\ v = "upheld" => "standing" \in verdicts[s]
    /\ verdicts' = [verdicts EXCEPT ![s] = @ \cup {v}]
    /\ UNCHANGED <<proposals, accepts, claims, lateProposals, lateClaims>>

\* The client of a proposal, or of a claim, stops waiting for its answer: a
\* request that is only on its way ("sent") is now beyond its control.
AbandonProposal(s, request) ==
    /\ lateProposals' = IF request = "sent" THEN [lateProposals EXCEPT ![s] = @ + 1]
                        ELSE lateProposals
    /\ UNCHANGED <<proposals, accepts, verdicts, claims, lateClaims>>

AbandonClaim(s, request) ==
    /\ lateClaims' = IF request = "sent" THEN [lateClaims EXCEPT ![s] = @ + 1]
                     ELSE lateClaims
    /\ UNCHANGED <<proposals, accepts, verdicts, claims, lateProposals>>

\* A request nobody waits for arrives after all.
RecordLateProposal(s) ==
    /\ lateProposals[s] > 0
    /\ lateProposals' = [lateProposals EXCEPT ![s] = @ - 1]
    /\ proposals' = [proposals EXCEPT ![s] = @ + 1]
    /\ UNCHANGED <<accepts, verdicts, claims, lateClaims>>

RecordLateClaim(s) ==
    /\ lateClaims[s] > 0
    /\ lateClaims' = [lateClaims EXCEPT ![s] = @ - 1]
    /\ claims' = [claims EXCEPT ![s] = @ + 1]
    /\ UNCHANGED <<proposals, accepts, verdicts, lateProposals>>

\* What POST /search/semantic answers about settlement s at one instant.
Snapshot(s) == [acc |-> accepts[s], chal |-> verdicts[s]]

===============================================================================
