--------------------------- MODULE SemanticConsensus ---------------------------
(***************************************************************************)
(* Verification of a high-value settlement by other mediators              *)
(* (_deferred/src/consensus/SemanticConsensusManager.ts): the requester    *)
(* selects verifiers, posts the request, and aggregates what they answer   *)
(* into a consensus; the verifiers run the same program.                   *)
(*                                                                         *)
(* One settlement, which may be put to verification again: each call of    *)
(* initiateVerification is a request with a record of its own.  Responses  *)
(* are kept by the chain under the settlement, whichever request asked.    *)
(* A verifier that is handed a request again responds again, and nothing   *)
(* on the way compares verifierIds: what is counted are entries of the     *)
(* list, so the model keeps of an entry what it says and not who wrote it. *)
(***************************************************************************)
EXTENDS Naturals, FiniteSets

CONSTANTS Verifiers,         \* the mediators the chain lists, without the requester
          Entries,           \* places in the chain's list of responses
          Requests,          \* calls of initiateVerification
          Calls,             \* calls of aggregateConsensus alive at once
          Meanings,          \* what a summary may say
          Similar,           \* pairs whose cosine similarity reaches the threshold
          RequiredVerifiers, RequiredConsensus,
          Deadline,          \* verificationDeadlineHours, in clock units
          MaxNow,          \* bound of the clock
          None

ASSUME ConsensusAssumption ==
    /\ IsFiniteSet(Verifiers) /\ IsFiniteSet(Entries)
    /\ RequiredVerifiers \in Nat /\ RequiredConsensus \in Nat \ {0}
    /\ Deadline \in Nat /\ MaxNow \in Nat
    /\ Similar \subseteq Meanings \X Meanings
    /\ None \notin Requests \cup Meanings

VARIABLES initiating,    \* how far each call of initiateVerification is
          verification,  \* the SemanticVerification of each request
          active,        \* activeVerifications.get(settlementId)
          asked,         \* the chain: the verifiers whom some request names
          answers,       \* the chain: what the response at each place says
          call,          \* the aggregations in flight
          now

consensusVars == <<initiating, verification, active, asked, answers, call, now>>

Answers == [Entries -> Meanings \cup {None}]
NoAnswers == [e \in Entries |-> None]
VerificationStatus == {"none", "pending", "consensus_reached", "consensus_failed", "timeout"}
Verification == [status : VerificationStatus, responses : Answers,
                 consensusReached : BOOLEAN, deadline : Nat]
NoVerification == [status |-> "none", responses |-> NoAnswers,
                   consensusReached |-> FALSE, deadline |-> 0]
Initiation == [pc : {"idle", "select", "post", "done"}, selected : SUBSET Verifiers,
               deadline : Nat]
Call == [pc : {"idle", "fetch", "served"}, request : Requests \cup {None}, reply : Answers]
IdleCall == [pc |-> "idle", request |-> None, reply |-> NoAnswers]

ConsensusTypeOK ==
    /\ initiating \in [Requests -> Initiation]
    /\ verification \in [Requests -> Verification]
    /\ active \in Requests \cup {None}
    /\ asked \subseteq Verifiers
    /\ answers \in Answers
    /\ call \in [Calls -> Call]
    /\ now \in 0..MaxNow

ConsensusInit ==
    /\ initiating = [r \in Requests |-> [pc |-> "idle", selected |-> {}, deadline |-> 0]]
    /\ verification = [r \in Requests |-> NoVerification]
    /\ active = None
    /\ asked = {}
    /\ answers = NoAnswers
    /\ call = [c \in Calls |-> IdleCall]
    /\ now = 0

-------------------------------------------------------------------------------
(* initiateVerification                                                    *)

\* Nothing keeps a call from beginning while another is under way.
Initiate(r) ==
    /\ initiating[r].pc = "idle"
    /\ initiating' = [initiating EXCEPT ![r].pc = "select"]
    /\ UNCHANGED <<verification, active, asked, answers, call, now>>

\* weightedRandomSelection: as many distinct mediators as asked for.  The seed
\* and the weights decide which; any choice is possible
WeightedRandomSelection(pool, count) == {V \in SUBSET pool : Cardinality(V) = count}

\* selectVerifiers answers with the mediators that are active at the time
SelectVerifiers(r) ==
    /\ initiating[r].pc = "select"
    /\ \E pool \in SUBSET Verifiers :
         \E V \in WeightedRandomSelection(pool, RequiredVerifiers) :
           initiating' = [initiating EXCEPT ![r] =
               [pc |-> "post", selected |-> V, deadline |-> now + Deadline]]
    /\ UNCHANGED <<verification, active, asked, answers, call, now>>

\* Too few mediators, or the request for them fails or times out
SelectionFails(r) ==
    /\ initiating[r].pc = "select"
    /\ initiating' = [initiating EXCEPT ![r].pc = "done"]
    /\ UNCHANGED <<verification, active, asked, answers, call, now>>

\* submitVerificationRequest succeeds; the new record takes the place of the old
Initiated(r) ==
    /\ initiating[r].pc = "post"
    /\ initiating' = [initiating EXCEPT ![r].pc = "done"]
    /\ verification' = [verification EXCEPT ![r] =
           [NoVerification EXCEPT !.status = "pending", !.deadline = initiating[r].deadline]]
    /\ active' = r
    /\ asked' = asked \cup initiating[r].selected
    /\ UNCHANGED <<answers, call, now>>

\* It fails, and withTimeout does not take it back: the chain may have it
SubmissionFails(r) ==
    /\ initiating[r].pc = "post"
    /\ initiating' = [initiating EXCEPT ![r].pc = "done"]
    /\ asked' \in {asked, asked \cup initiating[r].selected}
    /\ UNCHANGED <<verification, active, answers, call, now>>

-------------------------------------------------------------------------------
(* handleVerificationRequest, at a verifier: it summarises and posts, the  *)
(* first time it is handed a request or not.  A model that fails gives one *)
(* and the same text, a meaning like others.                               *)

HandleVerificationRequest(v) ==
    /\ v \in asked
    /\ \E e \in Entries, m \in Meanings :
         /\ answers[e] = None
         /\ answers' = [answers EXCEPT ![e] = m]
    /\ UNCHANGED <<initiating, verification, active, asked, call, now>>

-------------------------------------------------------------------------------
(* aggregateConsensus                                                      *)

Given(responses) == {e \in Entries : responses[e] # None}

\* checkSemanticEquivalence: cosine similarity has no direction
Equivalent(a, b) == a = b \/ <<a, b>> \in Similar \/ <<b, a>> \in Similar

Neighbours(responses, G) ==
    {e \in Given(responses) : \E g \in G : Equivalent(responses[e], responses[g])}

\* findEquivalenceClusters from e: what a breadth-first search reaches, which is
\* the smallest set around e that no neighbour lies outside of
ClusterOf(responses, e) ==
    {w \in Given(responses) :
        \A G \in SUBSET Given(responses) :
            (e \in G /\ Neighbours(responses, G) \subseteq G) => w \in G}

LargestCluster(responses) ==
    CHOOSE n \in 0..Cardinality(Entries) :
        /\ \A e \in Given(responses) : Cardinality(ClusterOf(responses, e)) <= n
        /\ n = 0 \/ \E e \in Given(responses) : Cardinality(ClusterOf(responses, e)) = n

StartAggregate(c) ==
    /\ call[c].pc = "idle"
    /\ active # None
    /\ call' = [call EXCEPT ![c] = [IdleCall EXCEPT !.pc = "fetch", !.request = active]]
    /\ UNCHANGED <<initiating, verification, active, asked, answers, now>>

ServeResponses(c) ==
    /\ call[c].pc = "fetch"
    /\ call' = [call EXCEPT ![c].pc = "served", ![c].reply = answers]
    /\ UNCHANGED <<initiating, verification, active, asked, answers, now>>

\* Mutant: as many responses as the consensus asks for are taken for one
EvaluateCounting(v, responses) ==
    CASE now > v.deadline -> [v EXCEPT !.responses = responses, !.status = "timeout"]
      [] now <= v.deadline /\ Cardinality(Given(responses)) < RequiredConsensus ->
           [v EXCEPT !.responses = responses]
      [] OTHER -> [v EXCEPT !.responses = responses, !.consensusReached = TRUE,
                            !.status = "consensus_reached"]

\* Mutant: every response has to be in the cluster
EvaluateUnanimous(v, responses) ==
    LET reached == LargestCluster(responses) = Cardinality(Given(responses))
    IN  CASE now > v.deadline -> [v EXCEPT !.responses = responses, !.status = "timeout"]
          [] now <= v.deadline /\ Cardinality(Given(responses)) < RequiredConsensus ->
               [v EXCEPT !.responses = responses]
          [] OTHER ->
               [v EXCEPT !.responses = responses, !.consensusReached = reached,
                         !.status = IF reached THEN "consensus_reached"
                                    ELSE "consensus_failed"]

\* What aggregateConsensus makes of a record once it has its responses
Evaluate(v, responses) ==
    LET reached == LargestCluster(responses) >= RequiredConsensus
    IN  CASE now > v.deadline -> [v EXCEPT !.responses = responses, !.status = "timeout"]
          [] now <= v.deadline /\ Cardinality(Given(responses)) < RequiredConsensus ->
               [v EXCEPT !.responses = responses]
          [] OTHER ->
               [v EXCEPT !.responses = responses, !.consensusReached = reached,
                         !.status = IF reached THEN "consensus_reached"
                                    ELSE "consensus_failed"]

\* The answer comes back; or the fetch fails and the responses known so far are
\* evaluated again
Aggregate(c) ==
    /\ call[c].pc \in {"fetch", "served"}
    /\ LET r == call[c].request
       IN  \E responses \in {verification[r].responses} \cup
               (IF call[c].pc = "served" THEN {call[c].reply} ELSE {}) :
               verification' = [verification EXCEPT ![r] = Evaluate(@, responses)]
    /\ call' = [call EXCEPT ![c] = IdleCall]
    /\ UNCHANGED <<initiating, active, asked, answers, now>>

Unresolved == {"pending"}

\* checkVerificationTimeouts
CheckVerificationTimeouts ==
    /\ active # None
    /\ verification[active].status \in Unresolved
    /\ verification[active].deadline < now
    /\ verification' = [verification EXCEPT ![active].status = "timeout"]
    /\ UNCHANGED <<initiating, active, asked, answers, call, now>>

PassTime ==
    /\ now < MaxNow
    /\ now' = now + 1
    /\ UNCHANGED <<initiating, verification, active, asked, answers, call>>

ConsensusNext ==
    \/ \E r \in Requests : \/ Initiate(r) \/ SelectVerifiers(r) \/ SelectionFails(r)
                           \/ Initiated(r) \/ SubmissionFails(r)
    \/ \E v \in Verifiers : HandleVerificationRequest(v)
    \/ \E c \in Calls : StartAggregate(c) \/ ServeResponses(c) \/ Aggregate(c)
    \/ CheckVerificationTimeouts \/ PassTime

ConsensusSpec == ConsensusInit /\ [][ConsensusNext]_consensusVars

-------------------------------------------------------------------------------
(* What must hold                                                          *)

\* G hangs together: however it is split, a summary of one part is equivalent
\* to one of the other
HangsTogether(G) ==
    \A A \in SUBSET G : (A # {} /\ A # G) =>
        \E a \in A, b \in G \ A : Equivalent(answers[a], answers[b])

\* A consensus that is announced exists on the chain, although the list it was
\* found in may be an old one or one whose fetch failed: there are as many entries
\* as required whose summaries hang together, whoever wrote them.  Not that they are
\* of as many verifiers (SemanticConsensusManager.ts:566-652).
ConsensusIsSupported ==
    \A r \in Requests : verification[r].status = "consensus_reached" =>
        \E G \in SUBSET Given(answers) :
            Cardinality(G) >= RequiredConsensus /\ HangsTogether(G)

\* Until its deadline a consensus stays: neither later answers nor a failed
\* fetch undo it.  (With a second aggregation in flight they would: the older
\* answer may arrive last.)
ConsensusIsStable ==
    [][\A r \in Requests :
          (verification[r].status = "consensus_reached" /\ now <= verification[r].deadline)
              => verification'[r].status = "consensus_reached"]_consensusVars
===============================================================================
