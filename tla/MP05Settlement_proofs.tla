------------------------- MODULE MP05Settlement_proofs -------------------------
(***************************************************************************)
(* The hash of a settlement is that of what it says, one whose             *)
(* finalization was written never changes again, and a licence or          *)
(* delegation whose end was written stays ended: for any parties, stages,  *)
(* terms, refused writes and restarts.  While no write was refused,        *)
(* authority is handed down and value rests on what was finalized.         *)
(***************************************************************************)
EXTENDS MP05SettlementCoordinator, FiniteSetTheorems, TLAPS

MayBecome(r) == {r, [r EXCEPT !.status = "reversed"]}

\* What a settlement is apart from its hash.
Consistent(r) ==
    /\ r \in Settlement
    /\ r.declared \subseteq r.required
    /\ r.status \in {"ratified", "finalized"} => r.required \subseteq r.declared
    /\ r.status = "finalized" => r.finalized
    /\ r.completed \subseteq r.stages
    /\ r.finalized => r.immutable /\ r.stages \subseteq r.completed /\ r.required \subseteq r.declared

Good(r) == Consistent(r) /\ (r.declared # {} => r.hash = CalculateSettlementHash(r))

SInv ==
    /\ settlementIds \in Nat
    /\ DOMAIN settlementFiles \subseteq DOMAIN settlements
    /\ DOMAIN settlements \subseteq 1..settlementIds
    /\ \A s \in DOMAIN settlements : Good(settlements[s])
    /\ \A s \in DOMAIN settlementFiles :
          /\ Good(settlementFiles[s])
          /\ settlementFiles[s].finalized => settlements[s] \in MayBecome(settlementFiles[s])

\* What a step may do to a settlement whose finalization was written.
Kept ==
    \A s \in DOMAIN settlementFiles :
        settlementFiles[s].finalized =>
            LET mayBecome == {settlementFiles[s], [settlementFiles[s] EXCEPT !.status = "reversed"]}
            IN  settlementFiles'[s] \in mayBecome
                /\ (settlements[s].finalized => settlements'[s] \in
                       mayBecome \cup {[settlements[s] EXCEPT !.status = "reversed"], settlements[s]})

-------------------------------------------------------------------------------
(* The records                                                             *)

\* Setting one entry of a map leaves the others.
LEMMA PutFacts ==
    ASSUME NEW map, NEW id, NEW record
    PROVE  /\ DOMAIN Put(map, id, record) = DOMAIN map \cup {id}
           /\ Put(map, id, record)[id] = record
           /\ \A k \in DOMAIN map \ {id} : Put(map, id, record)[k] = map[k]
BY DEF Put

\* A consistent record with its hash taken is good, and only its hash has changed.
LEMMA HashedIsGood ==
    ASSUME NEW r, Consistent(r)
    PROVE  Good(Hashed(r)) /\ Hashed(r).finalized = r.finalized
<1> DEFINE h == CalculateSettlementHash(r)
<1>1. r \in Settlement
  BY DEF Consistent
<1>2. h \in SettlementHash
  BY <1>1 DEF Settlement, CalculateSettlementHash, SettlementHash
<1>3. Hashed(r) = [r EXCEPT !.hash = h]
  BY DEF Hashed
<1> HIDE DEF h
<1>4. /\ Hashed(r) \in Settlement /\ Hashed(r).hash = h
      /\ Hashed(r).declared = r.declared /\ Hashed(r).required = r.required
      /\ Hashed(r).ratified = r.ratified /\ Hashed(r).finalized = r.finalized
      /\ Hashed(r).status = r.status /\ Hashed(r).immutable = r.immutable
      /\ Hashed(r).stages = r.stages /\ Hashed(r).completed = r.completed
  BY <1>1, <1>2, <1>3 DEF Settlement
<1>5. h = CalculateSettlementHash(Hashed(r))
  BY <1>4 DEF h, CalculateSettlementHash
<1> QED
  BY <1>4, <1>5 DEF Consistent, Good

\* A new settlement.
LEMMA NewIsGood ==
    ASSUME NEW terms \in SettlementTerms
    PROVE  Good(NewSettlement(terms)) /\ ~NewSettlement(terms).finalized
<1>1. terms.required \in SUBSET Parties /\ terms.stages \in SUBSET Nat
  BY SettlementAssumption
<1> QED
  BY <1>1 DEF NewSettlement, Good, Consistent, Settlement, MP05SettlementStatus

\* A declaration, of which the last one ratifies.
LEMMA DeclaredIsGood ==
    ASSUME NEW r, Consistent(r), ~r.finalized, NEW by \in r.required
    PROVE  Good(Declared(r, by)) /\ ~Declared(r, by).finalized
<1> DEFINE s == [r EXCEPT !.declared = @ \cup {by}]
           ratified == [s EXCEPT !.status = "ratified", !.ratified = TRUE]
<1>1. r \in Settlement /\ by \in Parties
  BY DEF Consistent, Settlement
<1>2. s \in Settlement /\ s = [r EXCEPT !.declared = r.declared \cup {by}]
  BY <1>1 DEF Settlement
<1>3. /\ s.declared = r.declared \cup {by} /\ s.required = r.required
      /\ s.status = r.status /\ s.finalized = r.finalized
      /\ s.stages = r.stages /\ s.completed = r.completed
  BY <1>1 DEF Settlement
<1> HIDE DEF s
<1>4. CASE r.required \subseteq s.declared
  <2>1. /\ ratified \in Settlement /\ ratified.status = "ratified"
        /\ ratified.declared = s.declared /\ ratified.required = s.required
        /\ ratified.finalized = s.finalized
        /\ ratified.stages = s.stages /\ ratified.completed = s.completed
    BY <1>2 DEF Settlement, MP05SettlementStatus
  <2>2. Consistent(ratified) /\ ~ratified.finalized
    BY <1>3, <1>4, <2>1 DEF Consistent
  <2>3. Declared(r, by) = Hashed(ratified)
    BY <1>3, <1>4 DEF Declared, s
  <2> HIDE DEF ratified
  <2> QED
    BY <2>2, <2>3, HashedIsGood
<1>5. CASE ~(r.required \subseteq s.declared)
  <2>1. r.status \notin {"ratified", "finalized"}
    BY <1>3, <1>5 DEF Consistent
  <2>2. Consistent(s) /\ ~s.finalized
    BY <1>2, <1>3, <2>1 DEF Consistent
  <2>3. Declared(r, by) = Hashed(s)
    BY <1>3, <1>5 DEF Declared, s
  <2> QED
    BY <2>2, <2>3, HashedIsGood
<1> QED
  BY <1>4, <1>5

\* Finalizing makes it immutable.
LEMMA FinalizedIsGood ==
    ASSUME NEW r, Consistent(r), MayFinalize(r)
    PROVE  Good(Finalized(r))
<1> DEFINE f == [r EXCEPT !.status = "finalized", !.finalized = TRUE, !.immutable = TRUE]
<1>1. /\ f \in Settlement /\ f.finalized /\ f.immutable
      /\ f.declared = r.declared /\ f.required = r.required
      /\ f.stages = r.stages /\ f.completed = r.completed
  BY DEF Consistent, Settlement, MP05SettlementStatus
<1>2. Consistent(f)
  BY <1>1 DEF Consistent, MayFinalize
<1>3. Finalized(r) = Hashed(f)
  BY DEF Finalized
<1> HIDE DEF f
<1> QED
  BY <1>2, <1>3, HashedIsGood

\* A stage can be completed only before the settlement is finalized.
LEMMA StageIsGood ==
    ASSUME NEW r, Consistent(r), NEW n \in r.stages, ValidateStageCompletion(n, r.completed)
    PROVE  /\ ~r.finalized
           /\ Good(Hashed([r EXCEPT !.completed = @ \cup {n}]))
<1> DEFINE c == [r EXCEPT !.completed = @ \cup {n}]
<1>1. ~r.finalized
  BY DEF Consistent, ValidateStageCompletion
<1>2. /\ c \in Settlement /\ c.finalized = r.finalized /\ c.status = r.status
      /\ c.declared = r.declared /\ c.required = r.required
  BY DEF Consistent, Settlement
<1>3. Consistent(c)
  BY <1>1, <1>2 DEF Consistent
<1> HIDE DEF c
<1>4. Good(Hashed(c))
  BY <1>3, HashedIsGood
<1> QED
  BY <1>1, <1>4 DEF c

\* Contesting and reversing touch nothing the hash covers.
LEMMA ContestedIsGood ==
    ASSUME NEW r, Good(r), ~r.immutable, NEW dispute \in Tracked
    PROVE  Good([r EXCEPT !.status = "contested", !.contest = dispute])
<1> DEFINE c == [r EXCEPT !.status = "contested", !.contest = dispute]
<1>1. /\ c \in Settlement /\ c.status = "contested" /\ c.hash = r.hash
      /\ c.declared = r.declared /\ c.required = r.required
      /\ c.ratified = r.ratified /\ c.finalized = r.finalized
      /\ c.stages = r.stages /\ c.completed = r.completed
  BY DEF Good, Consistent, Settlement, MP05SettlementStatus
<1> HIDE DEF c
<1>2. Good(c)
  BY <1>1 DEF Good, Consistent, CalculateSettlementHash
<1> QED
  BY <1>2 DEF c

LEMMA ReversedIsGood ==
    ASSUME NEW r, Good(r)
    PROVE  Good([r EXCEPT !.status = "reversed"])
<1> DEFINE c == [r EXCEPT !.status = "reversed"]
<1>1. /\ c \in Settlement /\ c.status = "reversed" /\ c.hash = r.hash
      /\ c.declared = r.declared /\ c.required = r.required
      /\ c.ratified = r.ratified /\ c.finalized = r.finalized
      /\ c.immutable = r.immutable /\ c.stages = r.stages /\ c.completed = r.completed
  BY DEF Good, Consistent, Settlement, MP05SettlementStatus
<1> HIDE DEF c
<1>2. Good(c)
  BY <1>1 DEF Good, Consistent, CalculateSettlementHash
<1> QED
  BY <1>2 DEF c

-------------------------------------------------------------------------------
(* The steps                                                               *)

\* Reversing twice is reversing once, and a reversed settlement stays finalized.
LEMMA MayBecomeFacts ==
    ASSUME NEW f \in Settlement, NEW r \in MayBecome(f)
    PROVE  /\ r \in Settlement /\ r.finalized = f.finalized
           /\ MayBecome(r) \subseteq MayBecome(f)
BY DEF MayBecome, Settlement, MP05SettlementStatus

\* A settlement that is not finalized may be saved whatever becomes of it, a
\* finalized one if it is only reversed; the file may keep the old record.
LEMMA Saved ==
    ASSUME SInv, NEW s \in DOMAIN settlements, NEW new, Good(new), NEW lost \in BOOLEAN,
           settlements[s].finalized => new \in MayBecome(settlements[s]),
           SaveSettlement(s, new, lost), settlementIds' = settlementIds
    PROVE  SInv' /\ Kept
<1>1. settlements' = Put(settlements, s, new)
  BY DEF SaveSettlement
<1>2. /\ DOMAIN settlements' = DOMAIN settlements
      /\ settlements'[s] = new
      /\ \A k \in DOMAIN settlements \ {s} : settlements'[k] = settlements[k]
  BY <1>1 DEF Put
<1>3. CASE lost
  <2>1. settlementFiles' = settlementFiles
    BY <1>3 DEF SaveSettlement
  <2>2. ASSUME NEW k \in DOMAIN settlementFiles, settlementFiles[k].finalized
        PROVE  /\ settlements'[k] \in MayBecome(settlementFiles[k])
               /\ settlements'[k] \in MayBecome(settlements[k])
    <3>1. /\ k \in DOMAIN settlements /\ settlementFiles[k] \in Settlement
          /\ settlements[k] \in MayBecome(settlementFiles[k])
      BY <2>2 DEF SInv, Good, Consistent
    <3>2. settlements[k].finalized /\ MayBecome(settlements[k]) \subseteq MayBecome(settlementFiles[k])
      BY <2>2, <3>1, MayBecomeFacts
    <3>3. settlements'[k] \in MayBecome(settlements[k])
      BY <1>2, <3>1, <3>2 DEF MayBecome
    <3> QED
      BY <3>2, <3>3
  <2>3. SInv'
    BY <1>2, <2>1, <2>2 DEF SInv
  <2>4. Kept
    BY <2>1, <2>2 DEF Kept, MayBecome
  <2> QED
    BY <2>3, <2>4
<1>4. CASE ~lost
  <2>1. /\ DOMAIN settlementFiles' = DOMAIN settlementFiles \cup {s}
        /\ settlementFiles'[s] = new
        /\ \A k \in DOMAIN settlementFiles \ {s} : settlementFiles'[k] = settlementFiles[k]
    <3>1. settlementFiles' = Put(settlementFiles, s, new)
      BY <1>4 DEF SaveSettlement
    <3> QED
      BY <3>1 DEF Put
  <2>2. ASSUME NEW k \in DOMAIN settlementFiles, settlementFiles[k].finalized
        PROVE  /\ settlementFiles'[k] \in MayBecome(settlementFiles[k])
               /\ settlements'[k] \in MayBecome(settlements[k])
    <3>1. /\ k \in DOMAIN settlements /\ settlementFiles[k] \in Settlement
          /\ settlements[k] \in MayBecome(settlementFiles[k])
      BY <2>2 DEF SInv, Good, Consistent
    <3>2. settlements[k].finalized /\ MayBecome(settlements[k]) \subseteq MayBecome(settlementFiles[k])
      BY <2>2, <3>1, MayBecomeFacts
    <3>3. CASE k = s
      BY <1>2, <2>1, <3>2, <3>3
    <3>4. CASE k # s
      BY <1>2, <2>1, <3>1, <3>4 DEF MayBecome
    <3> QED
      BY <3>3, <3>4
  <2>3. SInv'
    <3>1. ASSUME NEW k \in DOMAIN settlementFiles'
          PROVE  /\ Good(settlementFiles'[k])
                 /\ settlementFiles'[k].finalized => settlements'[k] \in MayBecome(settlementFiles'[k])
      <4>1. CASE k = s
        BY <1>2, <2>1, <4>1 DEF MayBecome
      <4>2. CASE k # s
        BY <1>2, <2>1, <3>1, <4>2 DEF SInv
      <4> QED
        BY <4>1, <4>2
    <3> QED
      BY <1>2, <2>1, <3>1 DEF SInv
  <2>4. Kept
    BY <2>2 DEF Kept, MayBecome
  <2> QED
    BY <2>3, <2>4
<1> QED
  BY <1>3, <1>4

\* A settlement with a new id: the file may be missing or behind the memory.
LEMMA Initiated ==
    ASSUME SInv, NEW m, NEW f, Good(m), Good(f), f.finalized => m \in MayBecome(f),
           settlementIds' = settlementIds + 1,
           settlements' = Put(settlements, settlementIds + 1, m),
           \/ settlementFiles' = settlementFiles
           \/ settlementFiles' = Put(settlementFiles, settlementIds + 1, f)
    PROVE  SInv' /\ Kept
<1> DEFINE s == settlementIds + 1
<1>1. /\ settlementIds' \in Nat /\ s \in 1..settlementIds'
      /\ s \notin DOMAIN settlements /\ s \notin DOMAIN settlementFiles
      /\ DOMAIN settlements \subseteq 1..settlementIds'
  BY DEF SInv
<1>2. /\ DOMAIN settlements' = DOMAIN settlements \cup {s}
      /\ settlements'[s] = m
      /\ \A k \in DOMAIN settlements : settlements'[k] = settlements[k]
  BY <1>1 DEF Put
<1>3. /\ \A k \in DOMAIN settlementFiles : settlementFiles'[k] = settlementFiles[k]
      /\ \/ DOMAIN settlementFiles' = DOMAIN settlementFiles
         \/ DOMAIN settlementFiles' = DOMAIN settlementFiles \cup {s} /\ settlementFiles'[s] = f
  BY <1>1 DEF Put
<1> HIDE DEF s
<1>4. SInv'
  BY <1>1, <1>2, <1>3 DEF SInv
<1>5. Kept
  BY <1>2, <1>3 DEF Kept, MayBecome, SInv
<1> QED
  BY <1>4, <1>5

\* What leaves the settlements alone.
LEMMA Untouched ==
    ASSUME SInv, UNCHANGED settlementVars
    PROVE  SInv' /\ Kept
BY DEF SInv, Kept, settlementVars

LEMMA RestartKeeps ==
    ASSUME SInv, Restart
    PROVE  SInv' /\ Kept
<1>1. settlements' = settlementFiles /\ UNCHANGED <<settlementFiles, settlementIds>>
  BY DEF Restart, LoadSettlements
<1>2. SInv'
  BY <1>1 DEF SInv, MayBecome
<1>3. Kept
  BY <1>1 DEF Kept
<1> QED
  BY <1>2, <1>3

\* The workflow declares for any of the required parties in one call.
LEMMA DeclaredByIsGood ==
    ASSUME NEW terms \in SettlementTerms, NEW declaring \in SUBSET terms.required
    PROVE  /\ Good(DeclaredBy(NewSettlement(terms), declaring))
           /\ ~DeclaredBy(NewSettlement(terms), declaring).finalized
<1>1. CASE declaring = {}
  BY <1>1, NewIsGood DEF DeclaredBy
<1>2. CASE declaring # {}
  <2>1. PICK last : last = (CHOOSE p \in declaring : TRUE)
    OBVIOUS
  <2>2. last \in declaring
    BY <1>2, <2>1
  <2> DEFINE r == [NewSettlement(terms) EXCEPT !.declared = declaring \ {last}]
  <2>3. Consistent(NewSettlement(terms))
    BY NewIsGood DEF Good
  <2>4. Consistent(r) /\ ~r.finalized /\ r.required = terms.required
    BY <2>3 DEF Consistent, NewSettlement, Settlement
  <2>5. DeclaredBy(NewSettlement(terms), declaring) = Declared(r, last)
    BY <1>2, <2>1 DEF DeclaredBy
  <2> HIDE DEF r
  <2> QED
    BY <2>2, <2>4, <2>5, DeclaredIsGood
<1> QED
  BY <1>1, <1>2

LEMMA WorkflowKeeps ==
    ASSUME SInv, WorkflowCall
    PROVE  SInv' /\ Kept
<1>1. PICK terms \in SettlementTerms, otherwiseValid \in BOOLEAN, declaring \in SUBSET Parties,
           beneficiaries \in SUBSET Parties, withInterface \in BOOLEAN,
           lost \in [settlement: BOOLEAN, event: BOOLEAN] :
        CompleteSettlementWorkflow(terms, otherwiseValid, declaring, beneficiaries, withInterface, lost)
  BY DEF WorkflowCall
<1>2. PICK declared : declared = DeclaredBy(NewSettlement(terms), declaring)
  OBVIOUS
<1>3. PICK final : final = (IF MayFinalize(declared) THEN Finalized(declared) ELSE declared)
  OBVIOUS
<1>4. /\ declaring \subseteq terms.required
      /\ settlementIds' = settlementIds + 1
      /\ settlements' = Put(settlements, settlementIds + 1, final)
      /\ settlementFiles' = Put(settlementFiles, settlementIds + 1,
                                IF lost.settlement THEN declared ELSE final)
  BY <1>1, <1>2, <1>3 DEF CompleteSettlementWorkflow
<1>5. Good(declared) /\ ~declared.finalized
  BY <1>2, <1>4, DeclaredByIsGood
<1>6. Good(final)
  BY <1>3, <1>5, FinalizedIsGood DEF Good
<1> DEFINE f == IF lost.settlement THEN declared ELSE final
<1>7. Good(f) /\ (f.finalized => final \in MayBecome(f))
  BY <1>5, <1>6 DEF MayBecome
<1> HIDE DEF f
<1>8. settlementFiles' = Put(settlementFiles, settlementIds + 1, f)
  BY <1>4 DEF f
<1> QED
  BY <1>4, <1>6, <1>7, <1>8, Initiated

LEMMA SettlementCallKeeps ==
    ASSUME SInv, SettlementCall
    PROVE  SInv' /\ Kept
<1>1. PICK lost \in BOOLEAN :
        \/ \E terms \in SettlementTerms, otherwiseValid \in BOOLEAN, lostRisk \in BOOLEAN :
            InitiateSettlement(terms, otherwiseValid, lostRisk, lost)
        \/ \E s \in DOMAIN settlements :
            \/ FinalizeSettlement(s, lost) \/ ReverseSettlement(s, lost)
            \/ \E by \in Parties : DeclareSettlement(s, by, lost) \/ DeclareUnauthorized(s, by, lost)
            \/ \E n \in settlements[s].stages : CompleteStage(s, n, lost)
            \/ \E dispute \in Tracked : ContestSettlement(s, dispute, lost)
  BY DEF SettlementCall
<1>2. ASSUME NEW terms \in SettlementTerms, NEW otherwiseValid \in BOOLEAN, NEW lostRisk \in BOOLEAN,
             InitiateSettlement(terms, otherwiseValid, lostRisk, lost)
      PROVE  SInv' /\ Kept
  <2>1. /\ settlementIds' = settlementIds + 1
        /\ SaveSettlement(settlementIds + 1, NewSettlement(terms), lost)
    BY <1>2 DEF InitiateSettlement
  <2>2. /\ settlements' = Put(settlements, settlementIds + 1, NewSettlement(terms))
        /\ \/ settlementFiles' = settlementFiles
           \/ settlementFiles' = Put(settlementFiles, settlementIds + 1, NewSettlement(terms))
    BY <2>1 DEF SaveSettlement
  <2> QED
    BY <2>1, <2>2, NewIsGood, Initiated
<1>3. ASSUME NEW s \in DOMAIN settlements
      PROVE  /\ Good(settlements[s]) /\ Consistent(settlements[s])
             /\ settlements[s] \in Settlement
             /\ settlements[s].finalized => settlements[s].immutable
  BY DEF SInv, Good, Consistent
<1>4. ASSUME NEW s \in DOMAIN settlements, FinalizeSettlement(s, lost)
      PROVE  SInv' /\ Kept
  <2>1. /\ MayFinalize(settlements[s]) /\ SaveSettlement(s, Finalized(settlements[s]), lost)
        /\ settlementIds' = settlementIds
    BY <1>4 DEF FinalizeSettlement
  <2>2. Good(Finalized(settlements[s])) /\ ~settlements[s].finalized
    BY <1>3, <2>1, FinalizedIsGood DEF MayFinalize
  <2> QED
    BY <2>1, <2>2, Saved
<1>5. ASSUME NEW s \in DOMAIN settlements, ReverseSettlement(s, lost)
      PROVE  SInv' /\ Kept
  <2>1. /\ SaveSettlement(s, [settlements[s] EXCEPT !.status = "reversed"], lost)
        /\ settlementIds' = settlementIds
    BY <1>5 DEF ReverseSettlement
  <2>2. /\ Good([settlements[s] EXCEPT !.status = "reversed"])
        /\ [settlements[s] EXCEPT !.status = "reversed"] \in MayBecome(settlements[s])
    BY <1>3, ReversedIsGood DEF MayBecome
  <2> QED
    BY <2>1, <2>2, Saved
<1>6. ASSUME NEW s \in DOMAIN settlements, NEW by \in Parties, DeclareSettlement(s, by, lost)
      PROVE  SInv' /\ Kept
  <2>1. /\ by \in settlements[s].required /\ ~settlements[s].finalized
        /\ SaveSettlement(s, Declared(settlements[s], by), lost)
        /\ settlementIds' = settlementIds
    BY <1>3, <1>6 DEF DeclareSettlement
  <2>2. Good(Declared(settlements[s], by))
    BY <1>3, <2>1, DeclaredIsGood
  <2> QED
    BY <2>1, <2>2, Saved
<1>7. ASSUME NEW s \in DOMAIN settlements, NEW by \in Parties, DeclareUnauthorized(s, by, lost)
      PROVE  SInv' /\ Kept
  BY <1>7, Untouched DEF DeclareUnauthorized
<1>8. ASSUME NEW s \in DOMAIN settlements, NEW n \in settlements[s].stages, CompleteStage(s, n, lost)
      PROVE  SInv' /\ Kept
  <2>1. /\ ValidateStageCompletion(n, settlements[s].completed)
        /\ SaveSettlement(s, Hashed([settlements[s] EXCEPT !.completed = @ \cup {n}]), lost)
        /\ settlementIds' = settlementIds
    BY <1>8 DEF CompleteStage
  <2>2. /\ Good(Hashed([settlements[s] EXCEPT !.completed = @ \cup {n}]))
        /\ ~settlements[s].finalized
    BY <1>3, <2>1, StageIsGood
  <2> QED
    BY <2>1, <2>2, Saved
<1>9. ASSUME NEW s \in DOMAIN settlements, NEW dispute \in Tracked, ContestSettlement(s, dispute, lost)
      PROVE  SInv' /\ Kept
  <2>1. /\ ~settlements[s].immutable /\ ~settlements[s].finalized
        /\ SaveSettlement(s, [settlements[s] EXCEPT !.status = "contested", !.contest = dispute], lost)
        /\ settlementIds' = settlementIds
    BY <1>3, <1>9 DEF ContestSettlement
  <2>2. Good([settlements[s] EXCEPT !.status = "contested", !.contest = dispute])
    BY <1>3, <2>1, ContestedIsGood
  <2> QED
    BY <2>1, <2>2, Saved
<1> QED
  BY <1>1, <1>2, <1>4, <1>5, <1>6, <1>7, <1>8, <1>9

LEMMA InitSInv == Init => SInv
BY DEF Init, SettlementInit, SInv

LEMMA NextSInv ==
    ASSUME SInv, [Next]_vars
    PROVE  SInv' /\ Kept
<1>1. CASE InLicensing
  BY <1>1, Untouched DEF InLicensing
<1>2. CASE SettlementCall
  BY <1>2, SettlementCallKeeps
<1>3. CASE CapitalizationCall
  BY <1>3, Untouched DEF CapitalizationCall
<1>4. CASE WorkflowCall
  BY <1>4, WorkflowKeeps
<1>5. CASE Restart
  BY <1>5, RestartKeeps
<1>6. CASE UNCHANGED vars
  BY <1>6, Untouched DEF vars
<1> QED
  BY <1>1, <1>2, <1>3, <1>4, <1>5, <1>6 DEF Next

-------------------------------------------------------------------------------
(* The theorems                                                            *)

\* Recomputing the hash of a settlement gives the stored one, in memory and
\* on disk, whatever writes were refused (MP05SettlementManager.ts:311, 320,
\* 382, 441).
THEOREM HashIsCurrentAlways == Spec => []HashIsCurrent
<1>1. SInv => HashIsCurrent
  BY DEF SInv, Good, HashIsCurrent
<1>2. SInv /\ [Next]_vars => SInv'
  BY NextSInv
<1> QED
  BY <1>1, <1>2, InitSInv, PTL DEF Spec

\* A settlement whose finalization was written changes no more but for being
\* marked as reversed (MP05SettlementManager.ts:205-485).
THEOREM FinalizedIsKept == Spec => FinalizedNeverChanges
<1> DEFINE A == [Kept]_<<settlements, settlementFiles>>
<1>1. SInv /\ [Next]_vars => SInv'
  BY NextSInv
<1>2. SInv /\ [Next]_vars => A
  BY NextSInv
<1>3. Spec => [][Kept]_<<settlements, settlementFiles>>
  BY <1>1, <1>2, InitSInv, PTL DEF Spec
<1> QED
  BY <1>3 DEF FinalizedNeverChanges, Kept

-------------------------------------------------------------------------------
(* Licences and delegations: `grants` in memory, `files` on disk, `ids`    *)
(* drawn so far.  The primed ones are those with a 2.                      *)

\* An end on disk is an end in memory.
GrantInv(grants, files, ids) ==
    /\ ids \in Nat
    /\ DOMAIN files \subseteq DOMAIN grants /\ DOMAIN grants \subseteq 1..ids
    /\ \A g \in DOMAIN files :
          files[g].status \in FinalStatuses => grants[g].status \in FinalStatuses

LInv ==
    /\ GrantInv(licenses, licenseFiles, licenseIds)
    /\ GrantInv(delegations, delegationFiles, delegationIds)

LicenceKept ==
    GrantInv(licenses, licenseFiles, licenseIds)' /\ EndsForGood(licenses, licenseFiles, licenses', licenseFiles')

DelegationKept ==
    /\ GrantInv(delegations, delegationFiles, delegationIds)'
    /\ EndsForGood(delegations, delegationFiles, delegations', delegationFiles')

\* A grant that is new, or whose end has not come, may be saved.
LEMMA GrantSaved ==
    ASSUME NEW grants, NEW files, NEW ids, GrantInv(grants, files, ids),
           NEW ids2, NEW grants2, NEW files2, NEW id, NEW new,
           \/ ids2 = ids /\ id \in DOMAIN grants /\ grants[id].status \notin FinalStatuses
           \/ ids2 = ids + 1 /\ id = ids2,
           grants2 = Put(grants, id, new),
           files2 = files \/ files2 = Put(files, id, new)
    PROVE  GrantInv(grants2, files2, ids2) /\ EndsForGood(grants, files, grants2, files2)
<1>1. /\ DOMAIN grants2 = DOMAIN grants \cup {id} /\ grants2[id] = new
      /\ \A k \in DOMAIN grants \ {id} : grants2[k] = grants[k]
  BY DEF Put
<1>2. \/ files2 = files
      \/ /\ DOMAIN files2 = DOMAIN files \cup {id} /\ files2[id] = new
         /\ \A k \in DOMAIN files \ {id} : files2[k] = files[k]
  BY DEF Put
<1>3. ids2 \in Nat /\ DOMAIN grants2 \subseteq 1..ids2
  BY <1>1 DEF GrantInv
<1>4. ASSUME NEW g \in DOMAIN files, files[g].status \in FinalStatuses
      PROVE  g # id /\ grants[g].status \in FinalStatuses /\ g \in DOMAIN grants
  BY <1>4 DEF GrantInv
<1>5. EndsForGood(grants, files, grants2, files2)
  BY <1>1, <1>2, <1>4 DEF EndsForGood
<1>6. \A g \in DOMAIN files2 : g \in DOMAIN grants2
  BY <1>1, <1>2 DEF GrantInv
<1>7. ASSUME NEW g \in DOMAIN files2, files2[g].status \in FinalStatuses
      PROVE  grants2[g].status \in FinalStatuses
  <2>1. CASE files2 = files
    BY <1>1, <1>4, <1>7, <2>1
  <2>2. CASE files2 # files
    BY <1>1, <1>2, <1>4, <1>7, <2>2
  <2> QED
    BY <2>1, <2>2
<1> QED
  BY <1>3, <1>5, <1>6, <1>7 DEF GrantInv

\* Expired ones are active, so that none of those ended before is written.
LEMMA GrantsExpire ==
    ASSUME NEW grants, NEW files, NEW ids, GrantInv(grants, files, ids),
           NEW E \in SUBSET DOMAIN grants, \A g \in E : grants[g].status = "active",
           NEW written \in SUBSET E, NEW grants2, NEW files2,
           grants2 = ExpireAll(grants, E), files2 = Written(files, grants2, written)
    PROVE  GrantInv(grants2, files2, ids) /\ EndsForGood(grants, files, grants2, files2)
<1>1. /\ DOMAIN grants2 = DOMAIN grants
      /\ \A g \in DOMAIN grants \ E : grants2[g] = grants[g]
  BY DEF ExpireAll
<1>2. /\ DOMAIN files2 = DOMAIN files \cup written
      /\ \A g \in written : files2[g] = grants2[g]
      /\ \A g \in DOMAIN files \ written : files2[g] = files[g]
  BY DEF Written
<1>3. ASSUME NEW g \in DOMAIN files, files[g].status \in FinalStatuses
      PROVE  g \in DOMAIN grants \ E /\ grants[g].status \in FinalStatuses
  BY <1>3 DEF GrantInv, FinalStatuses
<1>4. EndsForGood(grants, files, grants2, files2)
  BY <1>1, <1>2, <1>3 DEF EndsForGood
<1>5. ASSUME NEW g \in DOMAIN files2, files2[g].status \in FinalStatuses
      PROVE  grants2[g].status \in FinalStatuses
  BY <1>1, <1>2, <1>3, <1>5
<1> QED
  BY <1>1, <1>2, <1>4, <1>5 DEF GrantInv

LEMMA GrantsStay ==
    ASSUME NEW grants, NEW files, NEW ids, GrantInv(grants, files, ids)
    PROVE  EndsForGood(grants, files, grants, files) /\ EndsForGood(grants, files, files, files)
BY DEF GrantInv, EndsForGood

LEMMA LicenceCallKeeps ==
    ASSUME LInv, LicenseCall
    PROVE  LicenceKept
<1>1. PICK l, new :
        /\ SaveLicense(l, new)
        /\ \/ /\ licenseIds' = licenseIds /\ l \in DOMAIN licenses
              /\ licenses[l].status \notin FinalStatuses
           \/ licenseIds' = licenseIds + 1 /\ l = licenseIds'
  <2>1. CASE \E terms \in LicenseTerms : ProposeLicense(terms)
    BY <2>1 DEF ProposeLicense
  <2>2. ASSUME NEW l \in DOMAIN licenses,
               ActivateLicense(l) \/ \E by \in Parties : RatifyLicense(l, by) \/ RevokeLicense(l, by)
        PROVE  /\ \E new : SaveLicense(l, new)
               /\ licenseIds' = licenseIds /\ licenses[l].status \notin FinalStatuses
    BY <2>2 DEF ActivateLicense, RatifyLicense, RevokeLicense, SetStatus, FinalStatuses
  <2> QED
    BY <2>1, <2>2 DEF LicenseCall
<1>2. /\ licenses' = Put(licenses, l, new)
      /\ licenseFiles' = licenseFiles \/ licenseFiles' = Put(licenseFiles, l, new)
  BY <1>1 DEF SaveLicense
<1> QED
  BY <1>1, <1>2, GrantSaved DEF LInv, LicenceKept

LEMMA DelegationCallKeeps ==
    ASSUME LInv, DelegationCall
    PROVE  DelegationKept
<1>1. CASE UNCHANGED <<delegations, delegationFiles, delegationIds>>
  BY <1>1, GrantsStay DEF LInv, DelegationKept
<1>2. CASE \E d, new :
        /\ SaveDelegation(d, new)
        /\ \/ /\ delegationIds' = delegationIds /\ d \in DOMAIN delegations
              /\ delegations[d].status \notin FinalStatuses
           \/ delegationIds' = delegationIds + 1 /\ d = delegationIds'
  <2>1. PICK d, new :
        /\ SaveDelegation(d, new)
        /\ \/ /\ delegationIds' = delegationIds /\ d \in DOMAIN delegations
              /\ delegations[d].status \notin FinalStatuses
           \/ delegationIds' = delegationIds + 1 /\ d = delegationIds'
    BY <1>2
  <2>2. /\ delegations' = Put(delegations, d, new)
        /\ delegationFiles' = delegationFiles \/ delegationFiles' = Put(delegationFiles, d, new)
    BY <2>1 DEF SaveDelegation
  <2> QED
    BY <2>1, <2>2, GrantSaved DEF LInv, DelegationKept
<1>3. CASE \E terms \in DelegationTerms, parent \in DOMAIN delegations \cup {None} :
             ProposeDelegation(terms, parent)
  BY <1>2, <1>3 DEF ProposeDelegation
<1>4. ASSUME NEW d \in DOMAIN delegations,
             \/ ActivateDelegation(d)
             \/ \E by \in Parties : RatifyDelegation(d, by) \/ RevokeDelegation(d, by)
      PROVE  DelegationKept
  <2>1. /\ \E new : SaveDelegation(d, new)
        /\ delegationIds' = delegationIds /\ delegations[d].status \notin FinalStatuses
    BY <1>4 DEF ActivateDelegation, RatifyDelegation, RevokeDelegation, SetDelegationStatus, FinalStatuses
  <2> QED
    BY <1>2, <2>1
<1>5. ASSUME NEW d \in DOMAIN delegations, NEW by \in Parties, NEW within \in BOOLEAN,
             RecordDelegatedAction(d, by, within)
      PROVE  DelegationKept
  BY <1>1, <1>5 DEF RecordDelegatedAction
<1> QED
  BY <1>3, <1>4, <1>5 DEF DelegationCall

LEMMA ExpiryKeeps ==
    ASSUME LInv, PerformExpiryCheck
    PROVE  LicenceKept /\ DelegationKept
<1>1. PICK lostL \in SUBSET ExpiringLicenses, lostD \in SUBSET ExpiringDelegations :
        /\ licenses' = ExpireAll(licenses, ExpiringLicenses)
        /\ licenseFiles' = Written(licenseFiles, licenses', ExpiringLicenses \ lostL)
        /\ delegations' = ExpireAll(delegations, ExpiringDelegations)
        /\ delegationFiles' = Written(delegationFiles, delegations', ExpiringDelegations \ lostD)
  BY DEF PerformExpiryCheck
<1>2. UNCHANGED <<licenseIds, delegationIds>>
  BY DEF PerformExpiryCheck
<1>3. LicenceKept
  <2>1. /\ ExpiringLicenses \in SUBSET DOMAIN licenses
        /\ \A l \in ExpiringLicenses : licenses[l].status = "active"
    BY DEF ExpiringLicenses
  <2> QED
    BY <1>1, <1>2, <2>1, GrantsExpire DEF LInv, LicenceKept
<1>4. DelegationKept
  <2>1. /\ ExpiringDelegations \in SUBSET DOMAIN delegations
        /\ \A d \in ExpiringDelegations : delegations[d].status = "active"
    BY DEF ExpiringDelegations
  <2> QED
    BY <1>1, <1>2, <2>1, GrantsExpire DEF LInv, DelegationKept
<1> QED
  BY <1>3, <1>4

LEMMA NextLInv ==
    ASSUME LInv, [Next]_vars
    PROVE  LicenceKept /\ DelegationKept
<1>1. UNCHANGED licenseVars => LicenceKept
  BY GrantsStay DEF LInv, LicenceKept, licenseVars
<1>2. UNCHANGED delegationVars => DelegationKept
  BY GrantsStay DEF LInv, DelegationKept, delegationVars
<1>3. CASE LicenseCall
  BY <1>2, <1>3, LicenceCallKeeps DEF LicenseCall
<1>4. CASE DelegationCall
  BY <1>1, <1>4, DelegationCallKeeps DEF DelegationCall
<1>5. CASE PerformExpiryCheck
  BY <1>5, ExpiryKeeps
<1>6. CASE UNCHANGED <<licenseVars, delegationVars>>
  BY <1>1, <1>2, <1>6
<1>7. CASE Restart
  <2>1. /\ licenses' = licenseFiles /\ UNCHANGED <<licenseFiles, licenseIds>>
        /\ delegations' = delegationFiles /\ UNCHANGED <<delegationFiles, delegationIds>>
    BY <1>7 DEF Restart, LoadLicenses, LoadDelegations
  <2> QED
    BY <2>1, GrantsStay DEF LInv, LicenceKept, DelegationKept, GrantInv
<1>8. [ComplianceCall \/ SettlementCall \/ CapitalizationCall \/ WorkflowCall \/ Tick]_vars
        => UNCHANGED <<licenseVars, delegationVars>>
  BY DEF ComplianceCall, SettlementCall, CapitalizationCall, WorkflowCall, Tick, licensingVars, vars
<1> QED
  BY <1>3, <1>4, <1>5, <1>6, <1>7, <1>8 DEF Next

\* A licence or delegation that was written as revoked or expired is never in
\* force again, in memory or on disk, whatever is called and whatever the disk
\* refuses (LicenseManager.ts:186-410, DelegationManager.ts:503-574).
THEOREM WrittenEndIsFinalAlways == Spec => WrittenEndIsFinal
<1>1. Init => LInv
  BY DEF Init, LicensingInit, LicenseInit, DelegationInit, LInv, GrantInv
<1>2. LInv /\ [Next]_vars => LInv'
  BY NextLInv DEF LInv, LicenceKept, DelegationKept
<1>3. LInv /\ [Next]_vars =>
        [/\ EndsForGood(licenses, licenseFiles, licenses', licenseFiles')
         /\ EndsForGood(delegations, delegationFiles, delegations', delegationFiles')]_licensingVars
  BY NextLInv DEF LicenceKept, DelegationKept
<1> QED
  BY <1>1, <1>2, <1>3, PTL DEF Spec, WrittenEndIsFinal

-------------------------------------------------------------------------------
(* Refused writes                                                          *)

\* The refused writes of a call are counted, and there are none if the count stays.
LEMMA LosingFacts ==
    ASSUME failedSaves \in Nat, NEW writes, IsFiniteSet(DOMAIN writes), Losing(writes)
    PROVE  /\ failedSaves' \in Nat /\ failedSaves' >= failedSaves
           /\ failedSaves' = failedSaves => \A w \in DOMAIN writes : ~writes[w]
<1> DEFINE lost == {w \in DOMAIN writes : writes[w]}
<1>1. IsFiniteSet(lost)
  BY FS_Subset
<1>2. Cardinality(lost) \in Nat /\ (Cardinality(lost) = 0 => lost = {})
  BY <1>1, FS_CardinalityType, FS_EmptySet
<1>3. failedSaves' = failedSaves + Cardinality(lost)
  BY DEF Losing
<1> HIDE DEF lost
<1>4. failedSaves' \in Nat /\ failedSaves' >= failedSaves
  BY <1>2, <1>3
<1>5. failedSaves' = failedSaves => lost = {}
  BY <1>2, <1>3
<1> QED
  BY <1>4, <1>5 DEF lost

LEMMA UpToIsFinite == ASSUME NEW n \in Nat PROVE IsFiniteSet(1..n)
BY FS_Interval

LEMMA LosingOne ==
    ASSUME failedSaves \in Nat, NEW a \in BOOLEAN, Losing(<<a>>)
    PROVE  /\ failedSaves' \in Nat /\ failedSaves' >= failedSaves
           /\ failedSaves' = failedSaves => ~a
<1>1. PICK writes : writes = <<a>>
  OBVIOUS
<1>2. DOMAIN writes = 1..1 /\ writes[1] = a
  BY <1>1
<1>3. IsFiniteSet(1..1)
  BY UpToIsFinite
<1>4. Losing(writes)
  BY <1>1 DEF Losing
<1> QED
  BY <1>2, <1>3, <1>4, LosingFacts

LEMMA LosingTwo ==
    ASSUME failedSaves \in Nat, NEW a \in BOOLEAN, NEW b \in BOOLEAN, Losing(<<a, b>>)
    PROVE  /\ failedSaves' \in Nat /\ failedSaves' >= failedSaves
           /\ failedSaves' = failedSaves => ~a /\ ~b
<1>1. PICK writes : writes = <<a, b>>
  OBVIOUS
<1>2. DOMAIN writes = 1..2 /\ writes[1] = a /\ writes[2] = b
  BY <1>1
<1>3. IsFiniteSet(1..2)
  BY UpToIsFinite
<1>4. Losing(writes)
  BY <1>1 DEF Losing
<1> QED
  BY <1>2, <1>3, <1>4, LosingFacts

LEMMA ExpiryLosses ==
    ASSUME failedSaves \in Nat, LInv, PerformExpiryCheck
    PROVE  /\ failedSaves' \in Nat /\ failedSaves' >= failedSaves
           /\ failedSaves' = failedSaves =>
                /\ delegations' = ExpireAll(delegations, ExpiringDelegations)
                /\ delegationFiles' = Written(delegationFiles, delegations', ExpiringDelegations)
<1>1. PICK lostL \in SUBSET ExpiringLicenses, lostD \in SUBSET ExpiringDelegations :
        /\ failedSaves' = failedSaves + Cardinality(lostL) + Cardinality(lostD)
        /\ delegations' = ExpireAll(delegations, ExpiringDelegations)
        /\ delegationFiles' = Written(delegationFiles, delegations', ExpiringDelegations \ lostD)
  BY DEF PerformExpiryCheck
<1>2. lostL \subseteq 1..licenseIds /\ lostD \subseteq 1..delegationIds
  BY <1>1 DEF ExpiringLicenses, ExpiringDelegations, LInv, GrantInv
<1>3. licenseIds \in Nat /\ delegationIds \in Nat
  BY DEF LInv, GrantInv
<1>4. IsFiniteSet(1..licenseIds) /\ IsFiniteSet(1..delegationIds)
  BY <1>3, UpToIsFinite
<1>4a. IsFiniteSet(lostL) /\ IsFiniteSet(lostD)
  BY <1>2, <1>4, FS_Subset
<1>5. /\ Cardinality(lostL) \in Nat /\ Cardinality(lostD) \in Nat
      /\ Cardinality(lostD) = 0 => lostD = {}
  BY <1>4a, FS_CardinalityType, FS_EmptySet
<1>6. failedSaves' \in Nat /\ failedSaves' >= failedSaves
  BY <1>1, <1>5
<1>7. ASSUME failedSaves' = failedSaves
      PROVE  delegationFiles' = Written(delegationFiles, delegations', ExpiringDelegations)
  <2>1. lostD = {}
    BY <1>1, <1>5, <1>7
  <2>2. ExpiringDelegations \ lostD = ExpiringDelegations
    BY <2>1
  <2>3. delegationFiles' = Written(delegationFiles, delegations', ExpiringDelegations \ lostD)
    BY <1>1
  <2> HIDE DEF ExpiringDelegations
  <2> QED
    BY <2>2, <2>3
<1> QED
  BY <1>1, <1>6, <1>7


\* No step takes back a refused write.
LEMMA FailedSavesGrow ==
    ASSUME failedSaves \in Nat, LInv, [Next]_vars
    PROVE  failedSaves' \in Nat /\ failedSaves' >= failedSaves
<1>1. CASE UNCHANGED failedSaves
  BY <1>1
<1>2. CASE SaveSucceeds \/ SaveFails
  BY <1>2 DEF SaveSucceeds, SaveFails
<1>3. CASE LicenseCall
  BY <1>2, <1>3 DEF LicenseCall, ProposeLicense, ActivateLicense, RatifyLicense, RevokeLicense, SetStatus, SaveLicense
<1>4. CASE DelegationCall
  <2>1. CASE \E terms \in DelegationTerms, parent \in DOMAIN delegations \cup {None} :
               ProposeDelegation(terms, parent)
    BY <1>2, <2>1 DEF ProposeDelegation, SaveDelegation
  <2>2. ASSUME NEW d \in DOMAIN delegations,
               \/ ActivateDelegation(d)
               \/ \E by \in Parties :
                   \/ RatifyDelegation(d, by) \/ RevokeDelegation(d, by)
                   \/ \E within \in BOOLEAN : RecordDelegatedAction(d, by, within)
        PROVE  SaveSucceeds \/ SaveFails
    BY <2>2 DEF ActivateDelegation, RatifyDelegation, RevokeDelegation, RecordDelegatedAction,
                SetDelegationStatus, SaveDelegation
  <2> QED
    BY <1>2, <1>4, <2>1, <2>2 DEF DelegationCall
<1>5. CASE ComplianceCall
  BY <1>2, <1>5 DEF ComplianceCall, CheckLicenseCompliance, CheckDelegationCompliance,
     LinkViolationToDispute, RecordViolation, SaveViolation
<1>6. CASE PerformExpiryCheck
  BY <1>6, ExpiryLosses
<1>7. CASE SettlementCall
  BY <1>7, LosingOne, LosingTwo DEF SettlementCall, InitiateSettlement, FinalizeSettlement,
     ReverseSettlement, DeclareSettlement, DeclareUnauthorized, CompleteStage, ContestSettlement
<1>8. CASE CapitalizationCall
  BY <1>8, LosingOne, LosingTwo DEF CapitalizationCall, CreateCapitalizationEvent,
     GenerateCapitalizationInterface, RecordExecution
<1>9. CASE WorkflowCall
  BY <1>9, LosingTwo DEF WorkflowCall, CompleteSettlementWorkflow
<1>10. CASE Tick \/ Restart
  BY <1>1, <1>10 DEF Tick, Restart
<1> QED
  BY <1>1, <1>3, <1>4, <1>5, <1>6, <1>7, <1>8, <1>9, <1>10 DEF Next, vars

-------------------------------------------------------------------------------
(* The chain of delegations                                                *)

SameMap(f, g) == DOMAIN f = DOMAIN g /\ \A k \in DOMAIN f : f[k] = g[k]

GrantFields == {"delegator", "delegate", "expires", "scope", "status", "parent", "depth"}

InForceOrEnded == {"active"} \cup FinalStatuses

HandedDown(grants) ==
    \A d \in DOMAIN grants :
        LET parent == grants[d].parent IN
        /\ DOMAIN grants[d] = GrantFields
        /\ parent # None =>
            /\ parent \in DOMAIN grants
            /\ grants[parent].delegate = grants[d].delegator
            /\ grants[parent].depth + 1 = grants[d].depth
            /\ grants[parent].status \in InForceOrEnded

\* While nothing was refused a restart loads what was in memory.
DInv ==
    /\ LInv /\ failedSaves \in Nat
    /\ failedSaves = 0 => SameMap(delegations, delegationFiles) /\ HandedDown(delegations)

\* What becomes of the status of a grant that has redelegations leaves it in
\* force or ended.
LEMMA StatusKeepsChain ==
    ASSUME NEW grants, HandedDown(grants), NEW grants2,
           DOMAIN grants2 = DOMAIN grants,
           \A d \in DOMAIN grants : grants2[d] = grants[d] \/ \E status :
               /\ grants2[d] = [grants[d] EXCEPT !.status = status]
               /\ grants[d].status \in InForceOrEnded => status \in InForceOrEnded
    PROVE  HandedDown(grants2)
<1>1. ASSUME NEW d \in DOMAIN grants
      PROVE  /\ DOMAIN grants2[d] = GrantFields
             /\ grants2[d].parent = grants[d].parent /\ grants2[d].delegate = grants[d].delegate
             /\ grants2[d].delegator = grants[d].delegator /\ grants2[d].depth = grants[d].depth
             /\ grants[d].status \in InForceOrEnded => grants2[d].status \in InForceOrEnded
  <2>1. DOMAIN grants[d] = GrantFields
    BY DEF HandedDown
  <2>2. CASE grants2[d] = grants[d]
    BY <2>1, <2>2
  <2>3. ASSUME NEW status, grants2[d] = [grants[d] EXCEPT !.status = status],
               grants[d].status \in InForceOrEnded => status \in InForceOrEnded
        PROVE  /\ DOMAIN grants2[d] = GrantFields
               /\ grants2[d].parent = grants[d].parent /\ grants2[d].delegate = grants[d].delegate
               /\ grants2[d].delegator = grants[d].delegator /\ grants2[d].depth = grants[d].depth
               /\ grants[d].status \in InForceOrEnded => grants2[d].status \in InForceOrEnded
    BY <2>1, <2>3 DEF GrantFields
  <2> QED
    BY <2>2, <2>3
<1> QED
  BY <1>1 DEF HandedDown


LEMMA SavedInBoth ==
    ASSUME NEW f, NEW g, SameMap(f, g), NEW id, NEW record
    PROVE  SameMap(Put(f, id, record), Put(g, id, record))
BY DEF SameMap, Put

\* A write that was not refused reached the disk.
LEMMA DelegationWritten ==
    ASSUME failedSaves = 0, failedSaves' = 0, NEW d, NEW new, SaveDelegation(d, new),
           SameMap(delegations, delegationFiles)
    PROVE  /\ delegations' = Put(delegations, d, new)
           /\ SameMap(delegations, delegationFiles)'
<1>1. /\ delegations' = Put(delegations, d, new)
      /\ delegationFiles' = Put(delegationFiles, d, new)
  BY DEF SaveDelegation, SaveFails
<1>2. SameMap(Put(delegations, d, new), Put(delegationFiles, d, new))
  BY SavedInBoth
<1> QED
  BY <1>1, <1>2 DEF SameMap

LEMMA DelegationCallHandsDown ==
    ASSUME DInv, DelegationCall, failedSaves = 0, failedSaves' = 0
    PROVE  SameMap(delegations, delegationFiles)' /\ HandedDown(delegations')
<1>1. SameMap(delegations, delegationFiles) /\ HandedDown(delegations)
  BY DEF DInv
<1>2. ASSUME NEW terms \in DelegationTerms, NEW parent \in DOMAIN delegations \cup {None},
             ProposeDelegation(terms, parent)
      PROVE  SameMap(delegations, delegationFiles)' /\ HandedDown(delegations')
  <2>1. PICK d : d = delegationIds + 1
    OBVIOUS
  <2>2. PICK new : new =
           [delegator |-> terms.delegator, delegate |-> terms.delegate, expires |-> terms.expires,
            scope |-> terms.scope, status |-> "proposed", parent |-> parent,
            depth |-> IF parent = None THEN 0 ELSE delegations[parent].depth + 1]
    OBVIOUS
  <2>3. SaveDelegation(d, new) /\ (parent # None => MayRedelegate(terms, parent))
    BY <1>2, <2>1, <2>2 DEF ProposeDelegation
  <2>4. delegations' = Put(delegations, d, new) /\ SameMap(delegations, delegationFiles)'
    BY <1>1, <2>3, DelegationWritten
  <2>5. d \notin DOMAIN delegations
    BY <2>1 DEF DInv, LInv, GrantInv
  <2>6. /\ DOMAIN delegations' = DOMAIN delegations \cup {d} /\ delegations'[d] = new
        /\ \A k \in DOMAIN delegations : delegations'[k] = delegations[k]
    BY <2>4, <2>5 DEF Put
  <2>7. DOMAIN new = GrantFields /\ new.parent = parent /\ new.delegator = terms.delegator
    BY <2>2 DEF GrantFields
  <2>8. parent # None =>
            /\ parent \in DOMAIN delegations
            /\ delegations[parent].delegate = new.delegator
            /\ delegations[parent].depth + 1 = new.depth
            /\ delegations[parent].status \in InForceOrEnded
    BY <2>2, <2>3, <2>7 DEF MayRedelegate, InForceOrEnded
  <2>9. ASSUME NEW k \in DOMAIN delegations'
        PROVE  /\ DOMAIN delegations'[k] = GrantFields
               /\ delegations'[k].parent # None =>
                   /\ delegations'[k].parent \in DOMAIN delegations'
                   /\ delegations'[delegations'[k].parent].delegate = delegations'[k].delegator
                   /\ delegations'[delegations'[k].parent].depth + 1 = delegations'[k].depth
                   /\ delegations'[delegations'[k].parent].status \in InForceOrEnded
    <3>1. CASE k = d
      BY <2>6, <2>7, <2>8, <3>1
    <3>2. CASE k \in DOMAIN delegations
      BY <1>1, <2>6, <3>2 DEF HandedDown
    <3> QED
      BY <2>6, <3>1, <3>2
  <2>10. HandedDown(delegations')
    BY <2>9 DEF HandedDown
  <2> QED
    BY <2>4, <2>10
<1>3. ASSUME NEW d \in DOMAIN delegations, NEW status,
             delegations[d].status \in InForceOrEnded => status \in InForceOrEnded,
             SetDelegationStatus(d, status)
      PROVE  SameMap(delegations, delegationFiles)' /\ HandedDown(delegations')
  <2>1. PICK new : new = [delegations[d] EXCEPT !.status = status]
    OBVIOUS
  <2>2. SaveDelegation(d, new)
    BY <1>3, <2>1 DEF SetDelegationStatus
  <2>3. delegations' = Put(delegations, d, new) /\ SameMap(delegations, delegationFiles)'
    BY <1>1, <2>2, DelegationWritten
  <2>4. /\ DOMAIN delegations' = DOMAIN delegations
        /\ delegations'[d] = new
        /\ \A k \in DOMAIN delegations \ {d} : delegations'[k] = delegations[k]
    BY <2>3 DEF Put
  <2>5. ASSUME NEW k \in DOMAIN delegations
        PROVE  delegations'[k] = delegations[k] \/ \E st :
                   /\ delegations'[k] = [delegations[k] EXCEPT !.status = st]
                   /\ delegations[k].status \in InForceOrEnded => st \in InForceOrEnded
    BY <1>3, <2>1, <2>4
  <2>6. HandedDown(delegations')
    BY <1>1, <2>4, <2>5, StatusKeepsChain
  <2> QED
    BY <2>3, <2>6
<1>4. ASSUME NEW d \in DOMAIN delegations, ActivateDelegation(d)
      PROVE  SameMap(delegations, delegationFiles)' /\ HandedDown(delegations')
  BY <1>3, <1>4 DEF ActivateDelegation, InForceOrEnded, FinalStatuses
<1>5. ASSUME NEW d \in DOMAIN delegations, NEW by \in Parties, RatifyDelegation(d, by)
      PROVE  SameMap(delegations, delegationFiles)' /\ HandedDown(delegations')
  BY <1>3, <1>5 DEF RatifyDelegation, InForceOrEnded, FinalStatuses
<1>6. ASSUME NEW d \in DOMAIN delegations, NEW by \in Parties, RevokeDelegation(d, by)
      PROVE  SameMap(delegations, delegationFiles)' /\ HandedDown(delegations')
  BY <1>3, <1>6 DEF RevokeDelegation, InForceOrEnded, FinalStatuses
<1>7. ASSUME NEW d \in DOMAIN delegations, NEW by \in Parties, NEW within \in BOOLEAN,
             RecordDelegatedAction(d, by, within)
      PROVE  SameMap(delegations, delegationFiles)' /\ HandedDown(delegations')
  BY <1>1, <1>7 DEF RecordDelegatedAction, SameMap
<1> QED
  BY <1>2, <1>4, <1>5, <1>6, <1>7 DEF DelegationCall

LEMMA ExpiryHandsDown ==
    ASSUME DInv, PerformExpiryCheck, failedSaves = 0, failedSaves' = 0
    PROVE  SameMap(delegations, delegationFiles)' /\ HandedDown(delegations')
<1>1. SameMap(delegations, delegationFiles) /\ HandedDown(delegations)
  BY DEF DInv
<1>2. PICK E : E = ExpiringDelegations
  OBVIOUS
<1>3. /\ delegations' = ExpireAll(delegations, E)
      /\ delegationFiles' = Written(delegationFiles, delegations', E)
  BY <1>2, ExpiryLosses DEF DInv
<1>4. E \subseteq DOMAIN delegations
  BY <1>2 DEF ExpiringDelegations
<1>5. /\ DOMAIN delegations' = DOMAIN delegations
      /\ \A k \in E : delegations'[k] = [delegations[k] EXCEPT !.status = "expired"]
      /\ \A k \in DOMAIN delegations \ E : delegations'[k] = delegations[k]
  BY <1>3, <1>4 DEF ExpireAll
<1>6. SameMap(delegations, delegationFiles)'
  BY <1>1, <1>3, <1>4, <1>5 DEF SameMap, Written
<1>7. ASSUME NEW k \in DOMAIN delegations
      PROVE  delegations'[k] = delegations[k] \/ \E st :
                 /\ delegations'[k] = [delegations[k] EXCEPT !.status = st]
                 /\ delegations[k].status \in InForceOrEnded => st \in InForceOrEnded
  BY <1>5 DEF InForceOrEnded, FinalStatuses
<1>8. HandedDown(delegations')
  BY <1>1, <1>5, <1>7, StatusKeepsChain
<1> QED
  BY <1>6, <1>8

LEMMA NextDInv ==
    ASSUME DInv, [Next]_vars
    PROVE  DInv'
<1>1. LInv'
  BY NextLInv DEF DInv, LInv, LicenceKept, DelegationKept
<1>2. failedSaves' \in Nat /\ failedSaves' >= failedSaves /\ failedSaves \in Nat
  BY FailedSavesGrow DEF DInv
<1>3. ASSUME failedSaves' = 0
      PROVE  SameMap(delegations, delegationFiles)' /\ HandedDown(delegations')
  <2>1. failedSaves = 0
    BY <1>2, <1>3
  <2>2. SameMap(delegations, delegationFiles) /\ HandedDown(delegations)
    BY <2>1 DEF DInv
  <2>3. CASE UNCHANGED delegationVars
    BY <2>2, <2>3 DEF delegationVars, SameMap
  <2>4. CASE DelegationCall
    BY <1>3, <2>1, <2>4, DelegationCallHandsDown
  <2>5. CASE PerformExpiryCheck
    BY <1>3, <2>1, <2>5, ExpiryHandsDown
  <2>6. CASE Restart
    <3>1. delegations' = delegationFiles /\ delegationFiles' = delegationFiles
      BY <2>6 DEF Restart, LoadDelegations
    <3>2. HandedDown(delegationFiles)
      BY <2>2 DEF SameMap, HandedDown
    <3>3. SameMap(delegations, delegationFiles)'
      BY <3>1 DEF SameMap
    <3> QED
      BY <3>1, <3>2, <3>3
  <2>7. [LicenseCall \/ ComplianceCall \/ SettlementCall \/ CapitalizationCall \/ WorkflowCall \/ Tick]_vars
          => UNCHANGED delegationVars
    BY DEF LicenseCall, ComplianceCall, SettlementCall, CapitalizationCall, WorkflowCall, Tick,
           licensingVars, vars
  <2> QED
    BY <2>3, <2>4, <2>5, <2>6, <2>7 DEF Next
<1> QED
  BY <1>1, <1>2, <1>3 DEF DInv

LEMMA InitDInv == Init => DInv
<1> SUFFICES ASSUME Init PROVE DInv
  OBVIOUS
<1>1. LInv
  BY DEF Init, LicensingInit, LicenseInit, DelegationInit, LInv, GrantInv
<1>2. delegations = << >> /\ delegationFiles = << >> /\ failedSaves = 0
  BY DEF Init, LicensingInit, DelegationInit
<1> QED
  BY <1>1, <1>2 DEF DInv, SameMap, HandedDown

\* As long as no write was refused, a redelegation hangs on a delegation its
\* delegator held, one level higher, that was put in force and may since have
\* ended: through any calls, expiries and restarts (DelegationManager.ts:151-197).
THEOREM AuthorityIsHandedDownAlways == Spec => []AuthorityIsHandedDown
<1>1. DInv => AuthorityIsHandedDown
  BY DEF DInv, HandedDown, InForceOrEnded, AuthorityIsHandedDown
<1>2. DInv /\ [Next]_vars => DInv'
  BY NextDInv
<1> QED
  BY <1>1, <1>2, InitDInv, PTL DEF Spec


-------------------------------------------------------------------------------
(* The value of settlements                                                *)

RestsOn(event, held) ==
    /\ event \in CapitalizationEvent
    /\ event.settlement \in DOMAIN held
    /\ held[event.settlement].finalized
    /\ event.beneficiaries \subseteq held[event.settlement].required

ValueIn(made, handed, reported, held) ==
    /\ \A e \in DOMAIN made : RestsOn(made[e], held)
    /\ \A i \in handed : i.event \in DOMAIN made /\ made[i.event].settlement = i.settlement
    /\ \A e \in DOMAIN reported : e \in DOMAIN made /\ made[e].executed

ValueWritten ==
    SameMap(events, eventFiles) /\ interfaces = interfaceFiles /\ SameMap(executions, executionFiles)

\* While nothing was refused a restart loads what was in memory.
VInv ==
    /\ SInv /\ LInv /\ failedSaves \in Nat /\ eventIds \in Nat
    /\ failedSaves = 0 =>
        /\ SameMap(settlements, settlementFiles) /\ ValueWritten
        /\ DOMAIN events \subseteq 1..eventIds
        /\ ValueIn(events, interfaces, executions, settlements)

\* Value rests on its settlements as long as the finalized ones stay.
LEMMA ValueStays ==
    ASSUME NEW made, NEW handed, NEW reported, NEW held, NEW held2,
           ValueIn(made, handed, reported, held),
           \A s \in DOMAIN held : held[s].finalized =>
               s \in DOMAIN held2 /\ held2[s].finalized /\ held2[s].required = held[s].required
    PROVE  ValueIn(made, handed, reported, held2)
BY DEF ValueIn, RestsOn

LEMMA EventAdded ==
    ASSUME NEW made, NEW handed, NEW reported, NEW held, ValueIn(made, handed, reported, held),
           NEW e, e \notin DOMAIN made, NEW event, RestsOn(event, held)
    PROVE  ValueIn(Put(made, e, event), handed, reported, held)
<1>1. PICK made2 : made2 = Put(made, e, event)
  OBVIOUS
<1>2. /\ DOMAIN made2 = DOMAIN made \cup {e} /\ made2[e] = event
      /\ \A k \in DOMAIN made : made2[k] = made[k]
  BY <1>1 DEF Put
<1> QED
  BY <1>1, <1>2 DEF ValueIn

LEMMA InterfaceAdded ==
    ASSUME NEW made, NEW handed, NEW reported, NEW held, ValueIn(made, handed, reported, held),
           NEW i, i.event \in DOMAIN made, made[i.event].settlement = i.settlement
    PROVE  ValueIn(made, handed \cup {i}, reported, held)
BY DEF ValueIn

LEMMA ExecutionReported ==
    ASSUME NEW made, NEW handed, NEW reported, NEW held, ValueIn(made, handed, reported, held),
           NEW e \in DOMAIN made, NEW report
    PROVE  ValueIn(Put(made, e, [made[e] EXCEPT !.executed = TRUE]), handed, Put(reported, e, report), held)
<1>1. PICK event : event = [made[e] EXCEPT !.executed = TRUE]
  OBVIOUS
<1>2. PICK made2, reported2 : made2 = Put(made, e, event) /\ reported2 = Put(reported, e, report)
  OBVIOUS
<1>3. /\ DOMAIN made2 = DOMAIN made /\ made2[e] = event
      /\ \A k \in DOMAIN made \ {e} : made2[k] = made[k]
      /\ DOMAIN reported2 = DOMAIN reported \cup {e}
  BY <1>2 DEF Put
<1>4. made[e] \in CapitalizationEvent
  BY DEF ValueIn, RestsOn
<1>5. /\ event \in CapitalizationEvent /\ event.executed
      /\ event.settlement = made[e].settlement /\ event.beneficiaries = made[e].beneficiaries
  BY <1>1, <1>4 DEF CapitalizationEvent
<1>6. \A k \in DOMAIN made2 : RestsOn(made2[k], held)
  BY <1>3, <1>5 DEF ValueIn, RestsOn
<1>7. \A i \in handed : i.event \in DOMAIN made2 /\ made2[i.event].settlement = i.settlement
  BY <1>3, <1>5 DEF ValueIn
<1>8. \A k \in DOMAIN reported2 : k \in DOMAIN made2 /\ made2[k].executed
  BY <1>3, <1>5 DEF ValueIn
<1>9. ValueIn(made2, handed, reported2, held)
  BY <1>6, <1>7, <1>8 DEF ValueIn
<1> QED
  BY <1>1, <1>2, <1>9

\* A settlement that was not refused reached the disk, and none is ever removed.
LEMMA SettlementWritten ==
    ASSUME SameMap(settlements, settlementFiles), NEW s, NEW new, SaveSettlement(s, new, FALSE)
    PROVE  SameMap(settlements, settlementFiles)' /\ DOMAIN settlements \subseteq DOMAIN settlements'
<1>1. /\ settlements' = Put(settlements, s, new)
      /\ settlementFiles' = Put(settlementFiles, s, new)
  BY DEF SaveSettlement
<1>2. SameMap(Put(settlements, s, new), Put(settlementFiles, s, new))
  BY SavedInBoth
<1>3. DOMAIN Put(settlements, s, new) = DOMAIN settlements \cup {s}
  BY PutFacts
<1> QED
  BY <1>1, <1>2, <1>3 DEF SameMap

LEMMA SettlementsWritten ==
    ASSUME VInv, [Next]_vars, failedSaves = 0, failedSaves' = 0
    PROVE  SameMap(settlements, settlementFiles)' /\ DOMAIN settlements \subseteq DOMAIN settlements'
<1> DEFINE Goal == /\ SameMap(settlements, settlementFiles)'
                   /\ DOMAIN settlements \subseteq DOMAIN settlements'
<1>1. SameMap(settlements, settlementFiles) /\ failedSaves \in Nat
  BY DEF VInv
<1>2. ASSUME UNCHANGED settlementVars PROVE Goal
  BY <1>1, <1>2 DEF settlementVars, SameMap
<1>3. ASSUME NEW lost \in BOOLEAN, NEW s, NEW new, SaveSettlement(s, new, lost), Losing(<<lost>>)
      PROVE  Goal
  <2>1. ~lost
    BY <1>1, <1>3, LosingOne
  <2>2. SaveSettlement(s, new, FALSE)
    BY <1>3, <2>1 DEF SaveSettlement
  <2> QED
    BY <1>1, <2>2, SettlementWritten
<1>4. CASE SettlementCall
  <2>1. PICK lost \in BOOLEAN :
        \/ \E terms \in SettlementTerms, otherwiseValid \in BOOLEAN, lostRisk \in BOOLEAN :
            InitiateSettlement(terms, otherwiseValid, lostRisk, lost)
        \/ \E s \in DOMAIN settlements :
            \/ FinalizeSettlement(s, lost) \/ ReverseSettlement(s, lost)
            \/ \E by \in Parties : DeclareSettlement(s, by, lost) \/ DeclareUnauthorized(s, by, lost)
            \/ \E n \in settlements[s].stages : CompleteStage(s, n, lost)
            \/ \E dispute \in Tracked : ContestSettlement(s, dispute, lost)
    BY <1>4 DEF SettlementCall
  <2>2. ASSUME NEW terms \in SettlementTerms, NEW otherwiseValid \in BOOLEAN, NEW lostRisk \in BOOLEAN,
               InitiateSettlement(terms, otherwiseValid, lostRisk, lost)
        PROVE  Goal
    <3>1. SaveSettlement(settlementIds', NewSettlement(terms), lost) /\ Losing(<<lostRisk, lost>>)
      BY <2>2 DEF InitiateSettlement
    <3>2. ~lost
      BY <1>1, <3>1, LosingTwo
    <3>3. settlementIds' = settlementIds + 1
      BY <2>2 DEF InitiateSettlement
    <3>4. SaveSettlement(settlementIds + 1, NewSettlement(terms), FALSE)
      BY <3>1, <3>2, <3>3 DEF SaveSettlement
    <3> QED
      BY <1>1, <3>4, SettlementWritten
  <2>3. ASSUME NEW s \in DOMAIN settlements,
               FinalizeSettlement(s, lost) \/ ReverseSettlement(s, lost)
        PROVE  Goal
    BY <1>3, <2>3 DEF FinalizeSettlement, ReverseSettlement
  <2>4. ASSUME NEW s \in DOMAIN settlements, NEW by \in Parties,
               DeclareSettlement(s, by, lost) \/ DeclareUnauthorized(s, by, lost)
        PROVE  Goal
    BY <1>2, <1>3, <2>4 DEF DeclareSettlement, DeclareUnauthorized
  <2>5. ASSUME NEW s \in DOMAIN settlements, NEW n, CompleteStage(s, n, lost) PROVE Goal
    BY <1>3, <2>5 DEF CompleteStage
  <2>6. ASSUME NEW s \in DOMAIN settlements, NEW dispute, ContestSettlement(s, dispute, lost) PROVE Goal
    BY <1>3, <2>6 DEF ContestSettlement
  <2> QED
    BY <2>1, <2>2, <2>3, <2>4, <2>5, <2>6
<1>5. CASE WorkflowCall
  <2>1. PICK terms \in SettlementTerms, otherwiseValid \in BOOLEAN, declaring \in SUBSET Parties,
             beneficiaries \in SUBSET Parties, withInterface \in BOOLEAN,
             lost \in [settlement: BOOLEAN, event: BOOLEAN] :
          CompleteSettlementWorkflow(terms, otherwiseValid, declaring, beneficiaries, withInterface, lost)
    BY <1>5 DEF WorkflowCall
  <2>2. PICK s, final, declared :
          /\ settlements' = Put(settlements, s, final)
          /\ settlementFiles' = Put(settlementFiles, s, IF lost.settlement THEN declared ELSE final)
    BY <2>1 DEF CompleteSettlementWorkflow
  <2>3. Losing(<<lost.settlement, lost.event>>)
    BY <2>1 DEF CompleteSettlementWorkflow
  <2>4. lost.settlement \in BOOLEAN /\ lost.event \in BOOLEAN
    OBVIOUS
  <2>5. ~lost.settlement
    BY <1>1, <2>3, <2>4, LosingTwo
  <2>6. SaveSettlement(s, final, FALSE)
    BY <2>2, <2>5 DEF SaveSettlement
  <2> QED
    BY <1>1, <2>6, SettlementWritten
<1>6. CASE Restart
  <2>1. settlements' = settlementFiles /\ settlementFiles' = settlementFiles
    BY <1>6 DEF Restart, LoadSettlements
  <2> QED
    BY <1>1, <2>1 DEF SameMap
<1>7. [InLicensing \/ CapitalizationCall]_vars => UNCHANGED settlementVars
  BY DEF InLicensing, CapitalizationCall, vars
<1> QED
  BY <1>2, <1>4, <1>5, <1>6, <1>7 DEF Next

\* A finalized settlement stays finalized, and its parties what they are.
LEMMA FinalizedStay ==
    ASSUME VInv, [Next]_vars, failedSaves = 0, failedSaves' = 0
    PROVE  \A s \in DOMAIN settlements : settlements[s].finalized =>
               /\ s \in DOMAIN settlements' /\ settlements'[s].finalized
               /\ settlements'[s].required = settlements[s].required
<1>1. SameMap(settlements, settlementFiles) /\ SInv
  BY DEF VInv
<1>2. Kept
  BY <1>1, NextSInv
<1> SUFFICES ASSUME NEW s \in DOMAIN settlements, settlements[s].finalized
             PROVE  /\ s \in DOMAIN settlements' /\ settlements'[s].finalized
                    /\ settlements'[s].required = settlements[s].required
  OBVIOUS
<1>3. s \in DOMAIN settlements'
  BY SettlementsWritten
<1>4. s \in DOMAIN settlementFiles /\ settlementFiles[s] = settlements[s]
  BY <1>1 DEF SameMap
<1>5. settlements'[s] \in MayBecome(settlements[s])
  BY <1>2, <1>4 DEF Kept, MayBecome
<1>6. settlements[s] \in Settlement
  BY <1>1 DEF SInv, Good, Consistent
<1> QED
  BY <1>3, <1>5, <1>6 DEF MayBecome, Settlement


\* What VInv promises of the value when nothing was refused.
ValueNext ==
    /\ ValueWritten' /\ DOMAIN events' \subseteq 1..(eventIds')
    /\ ValueIn(events', interfaces', executions', settlements')

\* An event with a new id: the interface that may follow names it.
LEMMA EventMade ==
    ASSUME ValueWritten, DOMAIN events \subseteq 1..eventIds, eventIds \in Nat,
           NEW held, ValueIn(events, interfaces, executions, held),
           NEW event, RestsOn(event, held), eventIds' = eventIds + 1,
           SaveEvent(eventIds', event, FALSE), UNCHANGED <<executions, executionFiles>>,
           \/ UNCHANGED <<interfaces, interfaceFiles>>
           \/ \E i : /\ i.event = eventIds' /\ i.settlement = event.settlement
                     /\ SaveInterface(i, FALSE)
    PROVE  /\ ValueWritten' /\ DOMAIN events' \subseteq 1..(eventIds')
           /\ ValueIn(events', interfaces', executions', held)
<1>1. PICK e : e = eventIds + 1
  OBVIOUS
<1>2. /\ events' = Put(events, e, event) /\ eventFiles' = Put(eventFiles, e, event)
      /\ e \notin DOMAIN events /\ eventIds' = e
  BY <1>1 DEF SaveEvent
<1>3. SameMap(Put(events, e, event), Put(eventFiles, e, event))
  BY SavedInBoth DEF ValueWritten
<1>4. DOMAIN events' = DOMAIN events \cup {e} /\ events'[e] = event
  BY <1>2 DEF Put
<1>5. DOMAIN events' \subseteq 1..(eventIds')
  BY <1>1, <1>2, <1>4
<1>6. ValueIn(events', interfaces, executions, held)
  BY <1>2, EventAdded
<1>7. CASE UNCHANGED <<interfaces, interfaceFiles>>
  BY <1>2, <1>3, <1>5, <1>6, <1>7 DEF ValueWritten, SameMap
<1>8. ASSUME NEW i, i.event = eventIds', i.settlement = event.settlement, SaveInterface(i, FALSE)
      PROVE  ValueWritten' /\ ValueIn(events', interfaces', executions', held)
  <2>1. interfaces' = interfaces \cup {i} /\ interfaceFiles' = interfaceFiles \cup {i}
    BY <1>8 DEF SaveInterface
  <2>2. i.event \in DOMAIN events' /\ events'[i.event].settlement = i.settlement
    BY <1>2, <1>4, <1>8
  <2>3. ValueIn(events', interfaces \cup {i}, executions, held)
    BY <1>6, <2>2, InterfaceAdded
  <2> QED
    BY <1>2, <1>3, <2>1, <2>3 DEF ValueWritten, SameMap
<1> QED
  BY <1>5, <1>7, <1>8

\* What may be capitalized has been finalized, and is due to its parties.
LEMMA CapitalizableRests ==
    ASSUME NEW held, NEW s \in DOMAIN held, Good(held[s]), s \in Nat,
           NEW beneficiaries \in SUBSET Parties, Capitalizable(held[s], beneficiaries)
    PROVE  RestsOn([settlement |-> s, beneficiaries |-> beneficiaries, executed |-> FALSE], held)
BY DEF Good, Consistent, Capitalizable, RestsOn, CapitalizationEvent

LEMMA CapitalizationKeeps ==
    ASSUME VInv, CapitalizationCall, failedSaves = 0, failedSaves' = 0
    PROVE  ValueNext
<1>1. /\ SInv /\ eventIds \in Nat /\ ValueWritten /\ failedSaves \in Nat
      /\ DOMAIN events \subseteq 1..eventIds
      /\ ValueIn(events, interfaces, executions, settlements)
  BY DEF VInv
<1>2. settlements' = settlements
  BY DEF CapitalizationCall, settlementVars
<1>3. ASSUME NEW lost \in BOOLEAN, NEW s \in DOMAIN settlements, NEW beneficiaries \in SUBSET Parties,
             CreateCapitalizationEvent(s, beneficiaries, lost)
      PROVE  ValueNext
  <2>1. PICK event : event = [settlement |-> s, beneficiaries |-> beneficiaries, executed |-> FALSE]
    OBVIOUS
  <2>2. /\ Capitalizable(settlements[s], beneficiaries) /\ eventIds' = eventIds + 1
        /\ SaveEvent(eventIds', event, lost) /\ Losing(<<lost>>)
        /\ UNCHANGED <<interfaces, interfaceFiles, executions, executionFiles>>
    BY <1>3, <2>1 DEF CreateCapitalizationEvent
  <2>3. ~lost
    BY <1>1, <2>2, LosingOne
  <2>4. SaveEvent(eventIds', event, FALSE)
    BY <2>2, <2>3 DEF SaveEvent
  <2>5. s \in Nat /\ Good(settlements[s])
    BY <1>1 DEF SInv
  <2>6. RestsOn(event, settlements)
    BY <2>1, <2>2, <2>5, CapitalizableRests
  <2>7. /\ ValueWritten' /\ DOMAIN events' \subseteq 1..(eventIds')
        /\ ValueIn(events', interfaces', executions', settlements)
    BY <1>1, <2>2, <2>4, <2>6, EventMade
  <2> QED
    BY <1>2, <2>7 DEF ValueNext
<1>4. ASSUME NEW lost \in BOOLEAN, NEW s \in DOMAIN settlements, NEW beneficiaries \in SUBSET Parties,
             NEW e \in DOMAIN events, GenerateCapitalizationInterface(s, e, beneficiaries, lost)
      PROVE  ValueNext
  <2>1. PICK i : i = [settlement |-> s, event |-> e, beneficiaries |-> beneficiaries]
    OBVIOUS
  <2>2. /\ events[e].settlement = s /\ SaveInterface(i, lost) /\ Losing(<<lost>>)
        /\ UNCHANGED <<events, eventFiles, eventIds, executions, executionFiles>>
    BY <1>4, <2>1 DEF GenerateCapitalizationInterface
  <2>3. ~lost
    BY <1>1, <2>2, LosingOne
  <2>4. interfaces' = interfaces \cup {i} /\ interfaceFiles' = interfaceFiles \cup {i}
    BY <2>2, <2>3 DEF SaveInterface
  <2>5. i.event = e /\ i.settlement = s
    BY <2>1
  <2>6. ValueIn(events, interfaces \cup {i}, executions, settlements)
    BY <1>1, <2>2, <2>5, InterfaceAdded
  <2> QED
    BY <1>1, <1>2, <2>2, <2>4, <2>6 DEF ValueNext, ValueWritten, SameMap
<1>5. ASSUME NEW lost \in BOOLEAN, NEW lostReport \in BOOLEAN, NEW e \in DOMAIN events, NEW report,
             RecordExecution(e, report, lost, lostReport)
      PROVE  ValueNext
  <2>1. PICK event : event = [events[e] EXCEPT !.executed = TRUE]
    OBVIOUS
  <2>2. Losing(<<lost, lostReport>>) /\ UNCHANGED <<eventIds, interfaces, interfaceFiles>>
    BY <1>5 DEF RecordExecution
  <2>3. ~lost /\ ~lostReport
    BY <1>1, <2>2, LosingTwo
  <2>4. /\ events' = Put(events, e, event) /\ eventFiles' = Put(eventFiles, e, event)
        /\ executions' = Put(executions, e, report)
        /\ executionFiles' = Put(executionFiles, e, report)
    BY <1>5, <2>1, <2>3 DEF RecordExecution, SaveEvent
  <2>5. /\ SameMap(Put(events, e, event), Put(eventFiles, e, event))
        /\ SameMap(Put(executions, e, report), Put(executionFiles, e, report))
    BY <1>1, SavedInBoth DEF ValueWritten
  <2>6. ValueWritten'
    BY <1>1, <2>2, <2>4, <2>5 DEF ValueWritten, SameMap
  <2>7. DOMAIN events' = DOMAIN events
    BY <2>4 DEF Put
  <2>8. ValueIn(Put(events, e, event), interfaces, Put(executions, e, report), settlements)
    BY <1>1, <2>1, ExecutionReported
  <2> QED
    BY <1>1, <1>2, <2>2, <2>4, <2>6, <2>7, <2>8 DEF ValueNext
<1> QED
  BY <1>3, <1>4, <1>5 DEF CapitalizationCall

LEMMA WorkflowValue ==
    ASSUME VInv, WorkflowCall, [Next]_vars, failedSaves = 0, failedSaves' = 0
    PROVE  ValueNext
<1>1. /\ SInv /\ eventIds \in Nat /\ ValueWritten /\ failedSaves \in Nat
      /\ DOMAIN events \subseteq 1..eventIds
      /\ ValueIn(events, interfaces, executions, settlements)
  BY DEF VInv
<1>2. ValueIn(events, interfaces, executions, settlements')
  BY <1>1, FinalizedStay, ValueStays
<1>3. SInv'
  BY WorkflowKeeps, <1>1
<1>4. PICK terms \in SettlementTerms, otherwiseValid \in BOOLEAN, declaring \in SUBSET Parties,
           beneficiaries \in SUBSET Parties, withInterface \in BOOLEAN,
           lost \in [settlement: BOOLEAN, event: BOOLEAN] :
        CompleteSettlementWorkflow(terms, otherwiseValid, declaring, beneficiaries, withInterface, lost)
  BY DEF WorkflowCall
<1>5. PICK s : s = settlementIds + 1
  OBVIOUS
<1>6. PICK final :
        /\ settlements' = Put(settlements, s, final)
        /\ IF final.finalized /\ Capitalizable(final, beneficiaries)
           THEN Capitalized(s, beneficiaries, withInterface, lost.event)
           ELSE ~lost.event /\ UNCHANGED capitalizationVars
  BY <1>4, <1>5 DEF CompleteSettlementWorkflow
<1>7. lost.settlement \in BOOLEAN /\ lost.event \in BOOLEAN
  OBVIOUS
<1>8. ~lost.event
  <2>1. Losing(<<lost.settlement, lost.event>>)
    BY <1>4 DEF CompleteSettlementWorkflow
  <2> QED
    BY <1>1, <1>7, <2>1, LosingTwo
<1>9. settlements'[s] = final /\ s \in DOMAIN settlements' /\ s \in Nat
  BY <1>1, <1>5, <1>6 DEF Put, SInv
<1>10. CASE UNCHANGED capitalizationVars
  BY <1>1, <1>2, <1>10 DEF capitalizationVars, ValueNext, ValueWritten, SameMap
<1>11. CASE Capitalizable(final, beneficiaries) /\ Capitalized(s, beneficiaries, withInterface, lost.event)
  <2>1. PICK event : event = [settlement |-> s, beneficiaries |-> beneficiaries, executed |-> FALSE]
    OBVIOUS
  <2>2. Good(settlements'[s])
    BY <1>3, <1>9 DEF SInv
  <2>3. RestsOn(event, settlements')
    BY <1>9, <1>11, <2>1, <2>2, CapitalizableRests
  <2>4. /\ eventIds' = eventIds + 1 /\ SaveEvent(eventIds', event, FALSE)
        /\ UNCHANGED <<executions, executionFiles>>
    BY <1>8, <1>11, <2>1 DEF Capitalized, SaveEvent
  <2>5. CASE UNCHANGED <<interfaces, interfaceFiles>>
    BY <1>1, <1>2, <2>3, <2>4, <2>5, EventMade DEF ValueNext
  <2>6. PICK i : i = [settlement |-> s, event |-> eventIds', beneficiaries |-> beneficiaries]
    OBVIOUS
  <2>7. i.event = eventIds' /\ i.settlement = event.settlement
    BY <2>1, <2>6
  <2>8. CASE SaveInterface(i, FALSE)
    BY <1>1, <1>2, <2>3, <2>4, <2>7, <2>8, EventMade DEF ValueNext
  <2> QED
    BY <1>11, <2>5, <2>6, <2>8 DEF Capitalized
<1> QED
  BY <1>6, <1>10, <1>11

LEMMA NextVInv ==
    ASSUME VInv, [Next]_vars
    PROVE  VInv'
<1>1. SInv' /\ LInv'
  BY NextSInv, NextLInv DEF VInv, LInv, LicenceKept, DelegationKept
<1>2. failedSaves' \in Nat /\ failedSaves' >= failedSaves /\ failedSaves \in Nat
  BY FailedSavesGrow DEF VInv
<1>3. UNCHANGED capitalizationVars => eventIds' = eventIds
  BY DEF capitalizationVars
<1>4. eventIds' \in Nat
  <2>1. eventIds \in Nat
    BY DEF VInv
  <2>2. CASE CapitalizationCall
    <3>1. eventIds' = eventIds \/ eventIds' = eventIds + 1
      BY <2>2 DEF CapitalizationCall, CreateCapitalizationEvent,
         GenerateCapitalizationInterface, RecordExecution
    <3> QED
      BY <2>1, <3>1
  <2>3. CASE WorkflowCall
    <3>1. \E s, beneficiaries, withInterface, lost :
              Capitalized(s, beneficiaries, withInterface, lost) \/ UNCHANGED capitalizationVars
      BY <2>3 DEF WorkflowCall, CompleteSettlementWorkflow
    <3>2. eventIds' = eventIds \/ eventIds' = eventIds + 1
      BY <1>3, <3>1 DEF Capitalized
    <3> QED
      BY <2>1, <3>2
  <2>4. [InLicensing \/ SettlementCall \/ Restart]_vars => eventIds' = eventIds
    BY <1>3 DEF InLicensing, SettlementCall, Restart, LoadCapitalization, vars
  <2> QED
    BY <2>1, <2>2, <2>3, <2>4 DEF Next
<1>5. ASSUME failedSaves' = 0
      PROVE  SameMap(settlements, settlementFiles)' /\ ValueNext
  <2>1. failedSaves = 0
    BY <1>2, <1>5
  <2>2. /\ ValueWritten /\ DOMAIN events \subseteq 1..eventIds
        /\ ValueIn(events, interfaces, executions, settlements)
    BY <2>1 DEF VInv
  <2>3. ValueIn(events, interfaces, executions, settlements')
    BY <1>5, <2>1, <2>2, FinalizedStay, ValueStays
  <2>4. SameMap(settlements, settlementFiles)'
    BY <1>5, <2>1, SettlementsWritten
  <2>5. CASE UNCHANGED capitalizationVars
    BY <2>2, <2>3, <2>4, <2>5 DEF capitalizationVars, ValueNext, ValueWritten, SameMap
  <2>6. CASE CapitalizationCall
    BY <1>5, <2>1, <2>4, <2>6, CapitalizationKeeps
  <2>7. CASE WorkflowCall
    BY <1>5, <2>1, <2>4, <2>7, WorkflowValue
  <2>8. CASE Restart
    <3>1. /\ events' = eventFiles /\ interfaces' = interfaceFiles /\ executions' = executionFiles
          /\ UNCHANGED <<eventFiles, eventIds, interfaceFiles, executionFiles>>
      BY <2>8 DEF Restart, LoadCapitalization
    <3>2. ValueIn(eventFiles, interfaceFiles, executionFiles, settlements')
      BY <2>2, <2>3 DEF ValueWritten, ValueIn, SameMap
    <3>3. ValueWritten' /\ DOMAIN events' \subseteq 1..(eventIds')
      BY <2>2, <3>1 DEF ValueWritten, SameMap
    <3> QED
      BY <2>4, <3>1, <3>2, <3>3 DEF ValueNext
  <2>9. [InLicensing \/ SettlementCall]_vars => UNCHANGED capitalizationVars
    BY DEF InLicensing, SettlementCall, vars
  <2> QED
    BY <2>4, <2>5, <2>6, <2>7, <2>8, <2>9 DEF Next
<1> QED
  BY <1>1, <1>2, <1>4, <1>5 DEF VInv, ValueNext

LEMMA InitVInv == Init => VInv
<1> SUFFICES ASSUME Init PROVE VInv
  OBVIOUS
<1>1. SInv /\ LInv
  BY InitSInv, InitDInv DEF DInv
<1>2. /\ settlements = << >> /\ settlementFiles = << >> /\ failedSaves = 0
      /\ events = << >> /\ eventFiles = << >> /\ eventIds = 0
      /\ interfaces = {} /\ interfaceFiles = {} /\ executions = << >> /\ executionFiles = << >>
  BY DEF Init, SettlementInit, CapitalizationInit
<1> QED
  BY <1>1, <1>2 DEF VInv, SameMap, ValueWritten, ValueIn

\* As long as no write was refused, value rests on a settlement that all its
\* parties declared, whose stages are complete and that was finalized, is due
\* to those parties, and is what is handed on and reported executed: whatever
\* is called in whatever order, across restarts
\* (MP05CapitalizationManager.ts:135-165, 213-243, 304-322).
THEOREM ValueRestsOnFinalizedAlways == Spec => []ValueRestsOnFinalized
<1>1. VInv => ValueRestsOnFinalized
  <2> SUFFICES ASSUME VInv, failedSaves = 0 PROVE ValueRestsOnFinalized
    BY DEF ValueRestsOnFinalized
  <2>1. SInv /\ ValueIn(events, interfaces, executions, settlements)
    BY DEF VInv
  <2>2. ASSUME NEW e \in DOMAIN events, NEW s, s = events[e].settlement
        PROVE  /\ s \in DOMAIN settlements /\ settlements[s].finalized
               /\ settlements[s].declared = settlements[s].required
               /\ settlements[s].stages = settlements[s].completed
               /\ events[e].beneficiaries \subseteq settlements[s].declared
    <3>1. /\ s \in DOMAIN settlements /\ settlements[s].finalized
          /\ events[e].beneficiaries \subseteq settlements[s].required
      BY <2>1, <2>2 DEF ValueIn, RestsOn
    <3>2. Consistent(settlements[s])
      BY <2>1, <3>1 DEF SInv, Good
    <3> QED
      BY <3>1, <3>2 DEF Consistent
  <2>3. /\ \A i \in interfaces : i.event \in DOMAIN events /\ events[i.event].settlement = i.settlement
        /\ \A e \in DOMAIN executions : e \in DOMAIN events /\ events[e].executed
    BY <2>1 DEF ValueIn
  <2> QED
    BY <2>2, <2>3 DEF ValueRestsOnFinalized
<1>2. VInv /\ [Next]_vars => VInv'
  BY NextVInv
<1> QED
  BY <1>1, <1>2, InitVInv, PTL DEF Spec

===============================================================================
