----------------------------- MODULE StakeManager -----------------------------
(***************************************************************************)
(* A mediator's own stake and the stake delegated to it                    *)
(* (_deferred/src/consensus/StakeManager.ts).  Bonding, unbonding and the  *)
(* delegations are requests to the chain, and the record changes when the  *)
(* answer arrives; a slashing is recorded first and reported then.  Nothing*)
(* keeps requests from overlapping.                                        *)
(*                                                                         *)
(* The chain is what the code takes it for: a bond sets the stake held, an *)
(* unbonding ends with its release, a slashing takes the amount away.  Of  *)
(* the delegations the model keeps the total of the active ones.           *)
(***************************************************************************)
EXTENDS Naturals

CONSTANTS Places,        \* requests alive at once
          Amounts,       \* amounts bonded and slashed
          Totals,        \* what delegations may amount to
          Configured     \* bondedStakeAmount

ASSUME StakeAssumption ==
    Amounts \subseteq Nat /\ Configured \in Amounts /\ Totals \subseteq Nat

VARIABLES stake,         \* the Stake record
          request,       \* the requests in flight
          held,          \* the chain: the mediator's own stake
          leaving,       \* the chain: that stake is unbonding
          late,          \* requests given up on that the chain may still get
          crossed        \* history: changes of the stake overlapped, or one that was
                         \* given up on took effect

stakeVars == <<stake, request, held, leaving, late, crossed>>

Stake == [amount : Nat, delegatedAmount : Nat, effectiveStake : Nat,
          status : {"unbonded", "bonded", "unbonding"}]
Change == [op : {"bond", "slash", "unbond"}, amount : Amounts \cup {0}]
Load == [op |-> "delegations", amount |-> 0]
Idle == [op |-> "none", amount |-> 0, applied |-> FALSE]
StakeRequest == [op : {"none", "bond", "slash", "unbond", "delegations"},
                 amount : Amounts \cup {0}, applied : BOOLEAN]

StakeTypeOK ==
    /\ stake \in Stake
    /\ request \in [Places -> StakeRequest]
    /\ held \in Nat
    /\ leaving \in BOOLEAN
    /\ late \subseteq Change
    /\ crossed \in BOOLEAN

\* The constructor counts the configured amount before anything is bonded.  The chain
\* may hold some stake from earlier on.
StakeInit ==
    /\ stake = [amount |-> Configured, delegatedAmount |-> 0,
                effectiveStake |-> Configured, status |-> "unbonded"]
    /\ request = [p \in Places |-> Idle]
    /\ held \in Amounts
    /\ leaving \in BOOLEAN
    /\ late = {}
    /\ crossed = FALSE

-------------------------------------------------------------------------------
(* Requests                                                                *)

IsChange(r) == r.op \in {"bond", "slash", "unbond"}

Changing == \E p \in Places : IsChange(request[p])

Send(p, r) ==
    /\ request[p] = Idle
    /\ request' = [request EXCEPT ![p] = [op |-> r.op, amount |-> r.amount, applied |-> FALSE]]
    /\ crossed' = (crossed \/ (IsChange(r) /\ Changing))
    /\ UNCHANGED <<held, leaving, late>>

\* Whatever the answer does to the record, the request is over.
Done(p) ==
    /\ request[p].applied
    /\ request' = [request EXCEPT ![p] = Idle]
    /\ UNCHANGED <<held, leaving, late, crossed>>

\* updateEffectiveStake
UpdateEffectiveStake(s) == [s EXCEPT !.effectiveStake = s.amount + s.delegatedAmount]

BondStake(p, amount) ==
    /\ Send(p, [op |-> "bond", amount |-> amount])
    /\ UNCHANGED stake

\* The answer sets the amount, whatever it has become since the request.
Bonded(p) ==
    /\ request[p].op = "bond"
    /\ Done(p)
    /\ stake' = UpdateEffectiveStake([stake EXCEPT !.amount = request[p].amount,
                                                   !.status = "bonded"])

UnbondStake(p) ==
    /\ Send(p, [op |-> "unbond", amount |-> 0])
    /\ UNCHANGED stake

\* The stake counts on while it is unbonding, and after.
Unbonding(p) ==
    /\ request[p].op = "unbond"
    /\ Done(p)
    /\ stake' = [stake EXCEPT !.status = "unbonding"]

LoadDelegations(p) ==
    /\ Send(p, Load)
    /\ UNCHANGED stake

\* Delegations come and go on the chain: the answer is whatever they are.
DelegationsLoaded(p) ==
    /\ request[p].op = "delegations"
    /\ Done(p)
    /\ \E total \in Totals :
         stake' = UpdateEffectiveStake([stake EXCEPT !.delegatedAmount = total])

Less(amount, by) == IF by < amount THEN amount - by ELSE 0

\* Mutant: the effective stake is not counted anew.
HandleSlashingUncounted(p, amount) ==
    /\ stake' = [stake EXCEPT !.amount = Less(stake.amount, amount)]
    /\ Send(p, [op |-> "slash", amount |-> amount])

\* Recorded at once, and reported to the chain.
HandleSlashing(p, amount) ==
    /\ stake' = UpdateEffectiveStake([stake EXCEPT !.amount = Less(stake.amount, amount)])
    /\ Send(p, [op |-> "slash", amount |-> amount])

SlashingReported(p) ==
    /\ request[p].op = "slash"
    /\ Done(p)
    /\ UNCHANGED stake

\* A request that fails, or whose answer is lost, changes nothing here.  It may reach
\* the chain later on, or it has: the stake the node knows of is then the old one,
\* unless it was a slashing.
RequestFails(p) ==
    /\ request[p].op # "none"
    /\ request' = [request EXCEPT ![p] = Idle]
    /\ late' = IF IsChange(request[p]) /\ ~request[p].applied
                 THEN late \cup {[op |-> request[p].op, amount |-> request[p].amount]}
                 ELSE late
    /\ crossed' = (crossed \/ (request[p].applied /\ request[p].op \in {"bond", "unbond"}))
    /\ UNCHANGED <<stake, held, leaving>>

-------------------------------------------------------------------------------
(* The chain                                                               *)

TakesEffect(r) ==
    /\ held' = CASE r.op = "bond" -> r.amount
                 [] r.op = "slash" -> Less(held, r.amount)
                 [] OTHER -> held
    /\ leaving' = CASE r.op = "bond" -> FALSE
                    [] r.op = "unbond" -> TRUE
                    [] OTHER -> leaving

Apply(p) ==
    /\ request[p].op # "none"
    /\ ~request[p].applied
    /\ TakesEffect(request[p])
    /\ request' = [request EXCEPT ![p].applied = TRUE]
    /\ UNCHANGED <<stake, late, crossed>>

ApplyLate(r) ==
    /\ r \in late
    /\ TakesEffect(r)
    /\ late' = late \ {r}
    /\ crossed' = TRUE
    /\ UNCHANGED <<stake, request>>

\* The unbonding period, 30 days, is longer than any request takes.
Release ==
    /\ leaving
    /\ \A p \in Places : request[p].op # "unbond"
    /\ held' = 0
    /\ leaving' = FALSE
    /\ UNCHANGED <<stake, request, late, crossed>>

StakeNext ==
    \/ \E p \in Places :
         \/ \E amount \in Amounts : BondStake(p, amount) \/ HandleSlashing(p, amount)
         \/ UnbondStake(p) \/ LoadDelegations(p)
         \/ Bonded(p) \/ Unbonding(p) \/ DelegationsLoaded(p) \/ SlashingReported(p)
         \/ RequestFails(p) \/ Apply(p)
    \/ \E r \in late : ApplyLate(r)
    \/ Release

StakeSpec == StakeInit /\ [][StakeNext]_stakeVars

-------------------------------------------------------------------------------

\* The stake the node goes by (meetsMinimumStake) once it has bonded, and while no
\* bond is under way: no more than the chain holds for it and what is delegated, whatever
\* is loaded, slashed, lost and released meanwhile.  Unless changes overlapped: the
\* answer to a bond overwrites a slashing recorded after it was sent
\* (StakeManager.ts:44-47, 256-257).
EffectiveStakeIsBacked ==
    (/\ ~crossed
     /\ stake.status = "bonded"
     /\ \A p \in Places : request[p].op # "bond")
        => stake.effectiveStake <= held + stake.delegatedAmount

===============================================================================
