--------------------------- MODULE StampingProofs ---------------------------
(***************************************************************************)
(* platform_seq numbers are unique, and increase at every gateway, for any *)
(* number of gateways, any batch sizes and any number of restarts, as long *)
(* as the service only dies while the safety gap covers what it handed out *)
(* since the last write of its file.                                       *)
(***************************************************************************)
EXTENDS StampClock, TLAPS

\* Every number handed out so far is below this one.
Frontier == IF up THEN next_seq ELSE StartingSeq

\* Number n is in the hands of gateway g and not used yet.
Held(g, n) ==
    IF call[g] = "granted"
    THEN first[g] <= n /\ n < first[g] + Clamp(BatchSize)
    ELSE nextSeq[g] <= n /\ n < endSeq[g]

\* A Stamper calls the service only when its window is spent.
WindowSpent ==
    \A g \in Gateways : call[g] # "none" => nextSeq[g] >= endSeq[g]

\* What is held or used is below the frontier.
HeldBelow == \A g \in Gateways : \A n \in Nat : Held(g, n) => n < Frontier
UsedBelow == \A i \in DOMAIN stamped : stamped[i].seq < Frontier

\* What is held is not used, and is held once.
HeldUnused ==
    \A g \in Gateways : \A i \in DOMAIN stamped : ~ Held(g, stamped[i].seq)
HeldOnce ==
    \A g, h \in Gateways : \A n \in Nat : Held(g, n) /\ Held(h, n) => g = h

UniqueInv ==
    TypeOK /\ WindowSpent /\ HeldBelow /\ UsedBelow /\ HeldUnused /\ HeldOnce /\ StampsUnique

-----------------------------------------------------------------------------
\* The server's clamp yields at least one stamp.
LEMMA ClampPositive == Clamp(BatchSize) \in Nat /\ Clamp(BatchSize) > 0
  BY SizesAssumption DEF Clamp

\* Naturals are closed under addition.
LEMMA Addition == \A m, n \in Nat : m + n \in Nat
  OBVIOUS

\* The elements of a sequence over S are in S.
LEMMA SeqElements ==
    ASSUME NEW S, NEW q \in Seq(S)
    PROVE  Len(q) \in Nat /\ DOMAIN q = 1 .. Len(q) /\ \A i \in DOMAIN q : q[i] \in S
  OBVIOUS

\* What the history of stamps holds.
LEMMA StampedFacts ==
    ASSUME stamped \in Seq([gateway : Gateways, seq : Nat])
    PROVE  \A i \in DOMAIN stamped : stamped[i].gateway \in Gateways /\ stamped[i].seq \in Nat
<1>1. \A i \in DOMAIN stamped : stamped[i] \in [gateway : Gateways, seq : Nat]
  BY SeqElements
<1> QED
  BY <1>1

\* What Append does to the history of stamps.
LEMMA IssueFacts ==
    ASSUME stamped \in Seq([gateway : Gateways, seq : Nat]),
           NEW g \in Gateways, NEW n \in Nat, Issue(g, n)
    PROVE  /\ stamped' \in Seq([gateway : Gateways, seq : Nat])
           /\ DOMAIN stamped = 1 .. Len(stamped)
           /\ DOMAIN stamped' = 1 .. Len(stamped) + 1
           /\ Len(stamped) \in Nat
           /\ \A i \in DOMAIN stamped : stamped'[i] = stamped[i]
           /\ stamped'[Len(stamped) + 1] = [gateway |-> g, seq |-> n]
  BY DEF Issue

\* A typed state has a frontier.
LEMMA FrontierNat ==
    ASSUME TypeOK
    PROVE  Frontier \in Nat
  BY SizesAssumption DEF TypeOK, Frontier, StartingSeq, ParsedHwm, Unreadable

\* The initial state is typed.
LEMMA TypeInit == Init => TypeOK
  BY SizesAssumption DEF Init, TypeOK, Unreadable

\* Every step keeps the types.
LEMMA TypeStep == TypeOK /\ [Next]_vars => TypeOK'
<1> SUFFICES ASSUME TypeOK, [Next]_vars
             PROVE  TypeOK'
  OBVIOUS
<1> USE SizesAssumption, ClampPositive
<1>1. ASSUME NEW g \in Gateways, NextFromWindow(g)
      PROVE  TypeOK'
  BY <1>1 DEF NextFromWindow, TypeOK, serviceVars, persistVars, Issue
<1>2. ASSUME NEW g \in Gateways, RequestBatch(g)
      PROVE  TypeOK'
  BY <1>2 DEF RequestBatch, TypeOK, serviceVars, persistVars
<1>3. ASSUME NEW g \in Gateways, InstallBatch(g)
      PROVE  TypeOK'
  <2>1. stamped' \in Seq([gateway : Gateways, seq : Nat])
    BY <1>3, IssueFacts DEF InstallBatch, TypeOK
  <2>2. nextSeq' \in [Gateways -> Nat] /\ endSeq' \in [Gateways -> Nat]
    BY <1>3 DEF InstallBatch, TypeOK
  <2>3. call' \in [Gateways -> {"none", "requested", "granted"}]
    BY <1>3 DEF InstallBatch, TypeOK
  <2>4. first' \in [Gateways -> Nat]
    BY <1>3 DEF InstallBatch, TypeOK
  <2> QED
    BY <1>3, <2>1, <2>2, <2>3, <2>4 DEF InstallBatch, TypeOK, serviceVars, persistVars
<1>4. ASSUME NEW g \in Gateways, RequestFails(g)
      PROVE  TypeOK'
  <2>1. /\ call' \in [Gateways -> {"none", "requested", "granted"}]
        /\ first' \in [Gateways -> Nat]
    BY <1>4 DEF RequestFails, TypeOK
  <2>2. orphans' \in Nat
    BY <1>4 DEF RequestFails, TypeOK
  <2> QED
    BY <1>4, <2>1, <2>2 DEF RequestFails, TypeOK, serviceVars, persistVars
<1>5. ASSUME NEW g \in Gateways, NextStamps(g)
      PROVE  TypeOK'
  BY <1>5 DEF NextStamps, Reserve, TypeOK, persistVars
<1>6. CASE NextStampsUnheard
  BY <1>6 DEF NextStampsUnheard, Reserve, TypeOK, persistVars, stamperVars
<1>7. CASE PersistWakes
  BY <1>7 DEF PersistWakes, TypeOK, stamperVars
<1>8. CASE PersistTruncates
  BY <1>8 DEF PersistTruncates, TypeOK, stamperVars
<1>9. CASE PersistWrites
  BY <1>9 DEF PersistWrites, TypeOK, stamperVars
<1>10. CASE PersistFails
  BY <1>10 DEF PersistFails, TypeOK, stamperVars
<1>11. CASE Crash
  <2>1. up' \in BOOLEAN
    BY <1>11 DEF Crash
  <2> QED
    BY <1>11, <2>1 DEF Crash, TypeOK, stamperVars
<1>12. CASE Restart
  BY <1>12 DEF Restart, TypeOK, persistVars, stamperVars, StartingSeq, ParsedHwm, Unreadable
<1>13. CASE UNCHANGED vars
  BY <1>13 DEF vars, serviceVars, persistVars, stamperVars, TypeOK
<1> QED
  BY <1>1, <1>2, <1>3, <1>4, <1>5, <1>6, <1>7, <1>8, <1>9, <1>10, <1>11, <1>12, <1>13
  DEF Next

\* Every variable keeps its type whatever the constants are.
THEOREM TypeCorrect == Spec => []TypeOK
  BY TypeInit, TypeStep, PTL DEF Spec

-----------------------------------------------------------------------------
(***************************************************************************)
(* Uniqueness.                                                             *)
(***************************************************************************)

LEMMA UniqueInit == Init => UniqueInv
<1> SUFFICES ASSUME Init
             PROVE  UniqueInv
  OBVIOUS
<1>1. TypeOK
  BY SizesAssumption DEF Init, TypeOK, Unreadable
<1>2. \A g \in Gateways, n \in Nat : ~ Held(g, n)
  BY DEF Init, Held
<1>3. DOMAIN stamped = {}
  BY DEF Init
<1> QED
  BY <1>1, <1>2, <1>3 DEF Init, UniqueInv, WindowSpent, HeldBelow, UsedBelow, HeldUnused,
     HeldOnce, StampsUnique

\* A step that issues no stamp and hands nothing over keeps the invariant if
\* it does not lower the frontier.
LEMMA UniqueQuiet ==
    ASSUME UniqueInv, TypeOK',
           UNCHANGED <<stamperVars, stamped>>,
           Frontier' >= Frontier
    PROVE  UniqueInv'
<1>1. \A g \in Gateways, n \in Nat : Held(g, n)' <=> Held(g, n)
  BY DEF Held, stamperVars
<1>2. Frontier \in Int /\ Frontier' \in Int
  BY SizesAssumption DEF UniqueInv, TypeOK, Frontier, StartingSeq, ParsedHwm, Unreadable
<1>3. WindowSpent' /\ StampsUnique'
  BY DEF UniqueInv, WindowSpent, StampsUnique, stamperVars
<1>4. HeldBelow'
  BY <1>1, <1>2 DEF UniqueInv, HeldBelow
<1>5. stamped' = stamped /\ \A i \in DOMAIN stamped : stamped[i].seq \in Nat
  BY StampedFacts DEF UniqueInv, TypeOK
<1>6. UsedBelow'
  BY <1>2, <1>5 DEF UniqueInv, UsedBelow
<1>7. HeldUnused'
  BY <1>1, <1>5 DEF UniqueInv, HeldUnused
<1>8. HeldOnce'
  BY <1>1 DEF UniqueInv, HeldOnce
<1> QED
  BY <1>3, <1>4, <1>6, <1>7, <1>8 DEF UniqueInv

\* Issuing a number that g holds, and holds no longer afterwards.
LEMMA UniqueIssue ==
    ASSUME UniqueInv, TypeOK', WindowSpent', Frontier \in Nat, Frontier' = Frontier,
           NEW g \in Gateways, NEW m \in Nat,
           Issue(g, m), Held(g, m),
           \A h \in Gateways, n \in Nat : Held(h, n)' <=> Held(h, n) /\ ~ (h = g /\ n = m)
    PROVE  UniqueInv'
<1>1. stamped \in Seq([gateway : Gateways, seq : Nat])
  BY DEF UniqueInv, TypeOK
<1>2. /\ DOMAIN stamped = 1 .. Len(stamped) /\ Len(stamped) \in Nat
      /\ DOMAIN stamped' = 1 .. Len(stamped) + 1
      /\ \A i \in DOMAIN stamped : stamped'[i].seq = stamped[i].seq /\ stamped[i].seq \in Nat
      /\ stamped'[Len(stamped) + 1].seq = m
  <2>1. \A i \in DOMAIN stamped : stamped[i].seq \in Nat
    BY <1>1, StampedFacts
  <2>2. /\ DOMAIN stamped = 1 .. Len(stamped) /\ Len(stamped) \in Nat
        /\ DOMAIN stamped' = 1 .. Len(stamped) + 1
        /\ \A i \in DOMAIN stamped : stamped'[i] = stamped[i]
        /\ stamped'[Len(stamped) + 1] = [gateway |-> g, seq |-> m]
    BY <1>1, IssueFacts
  <2> QED
    BY <2>1, <2>2
<1>3. m < Frontier
  BY DEF UniqueInv, HeldBelow
<1>4. HeldBelow'
  BY DEF UniqueInv, HeldBelow
<1>5. UsedBelow'
  BY <1>2, <1>3 DEF UniqueInv, UsedBelow
<1>6. HeldUnused'
  BY <1>2 DEF UniqueInv, HeldUnused, HeldOnce
<1>7. HeldOnce'
  BY DEF UniqueInv, HeldOnce
<1>8. StampsUnique'
  BY <1>2 DEF UniqueInv, StampsUnique, HeldUnused
<1> QED
  BY <1>4, <1>5, <1>6, <1>7, <1>8 DEF UniqueInv

\* A step that only gives numbers up.
LEMMA UniqueShrink ==
    ASSUME UniqueInv, TypeOK', WindowSpent', Frontier' = Frontier, stamped' = stamped,
           \A h \in Gateways, n \in Nat : Held(h, n)' => Held(h, n)
    PROVE  UniqueInv'
<1>1. \A i \in DOMAIN stamped : stamped[i].seq \in Nat
  BY StampedFacts DEF UniqueInv, TypeOK
<1>2. HeldBelow' /\ HeldOnce'
  BY DEF UniqueInv, HeldBelow, HeldOnce
<1>3. UsedBelow' /\ HeldUnused' /\ StampsUnique'
  BY <1>1 DEF UniqueInv, UsedBelow, HeldUnused, StampsUnique
<1> QED
  BY <1>2, <1>3 DEF UniqueInv

\* One step per action: only a Stamper's own step changes what it holds.
LEMMA UniqueStep == WithinGap /\ UniqueInv /\ [Next]_vars => UniqueInv'
<1> SUFFICES ASSUME WithinGap, UniqueInv, [Next]_vars
             PROVE  UniqueInv'
  OBVIOUS
<1> USE ClampPositive
<1>0. TypeOK /\ TypeOK'
  BY TypeStep DEF UniqueInv
<1>00. Frontier \in Nat /\ Frontier' \in Nat
  <2>1. next_seq \in Nat /\ file \in Nat \cup {-1} /\ next_seq' \in Nat /\ file' \in Nat \cup {-1}
    BY <1>0 DEF TypeOK, Unreadable
  <2>2. StartingSeq \in Nat
    BY <2>1, SizesAssumption DEF StartingSeq, ParsedHwm, Unreadable
  <2>3. StartingSeq' \in Nat
    <3>1. CASE file' = -1
      BY <3>1, SizesAssumption DEF StartingSeq, ParsedHwm, Unreadable
    <3>2. CASE file' # -1
      <4>1. file' \in Nat
        BY <2>1, <3>2
      <4>2. StartingSeq' = file' + SafetyGap
        BY <3>2 DEF StartingSeq, ParsedHwm, Unreadable
      <4>3. SafetyGap \in Nat
        BY SizesAssumption
      <4>4. file' + SafetyGap \in Nat
        BY <4>1, <4>3, Addition
      <4> QED
        BY <4>2, <4>4, Zenon
    <3> QED
      BY <3>1, <3>2
  <2>4. Frontier \in Nat
    BY <2>1, <2>2, Zenon DEF Frontier
  <2>5. Frontier' \in Nat
    <3>1. CASE up'
      BY <2>1, <3>1 DEF Frontier
    <3>2. CASE ~ up'
      BY <2>3, <3>2 DEF Frontier
    <3> QED
      BY <3>1, <3>2
  <2> QED
    BY <2>4, <2>5
<1>1. ASSUME NEW g \in Gateways, NextFromWindow(g)
      PROVE  UniqueInv'
  <2>1. Frontier' = Frontier
    BY <1>1 DEF NextFromWindow, serviceVars, persistVars, Frontier, StartingSeq, ParsedHwm
  <2>2. \A h \in Gateways, n \in Nat : Held(h, n)' <=> Held(h, n) /\ ~ (h = g /\ n = nextSeq[g])
    BY <1>0, <1>1 DEF NextFromWindow, Held, TypeOK
  <2>3. Held(g, nextSeq[g]) /\ nextSeq[g] \in Nat
    BY <1>0, <1>1 DEF NextFromWindow, Held, TypeOK
  <2>4. Issue(g, nextSeq[g])
    BY <1>1 DEF NextFromWindow
  <2>5. WindowSpent'
    BY <1>0, <1>1 DEF NextFromWindow, WindowSpent, UniqueInv, TypeOK
  <2> QED
    BY <1>0, <1>00, <2>1, <2>2, <2>3, <2>4, <2>5, UniqueIssue
<1>2. ASSUME NEW g \in Gateways, RequestBatch(g)
      PROVE  UniqueInv'
  <2>1. Frontier' = Frontier
    BY <1>2 DEF RequestBatch, serviceVars, persistVars, Frontier, StartingSeq, ParsedHwm
  <2>2. \A h \in Gateways, n \in Nat : Held(h, n)' <=> Held(h, n)
    BY <1>0, <1>2 DEF RequestBatch, Held, TypeOK
  <2>3. WindowSpent' /\ stamped' = stamped
    BY <1>0, <1>2 DEF RequestBatch, WindowSpent, UniqueInv, TypeOK
  <2> QED
    BY <1>0, <1>00, <2>1, <2>2, <2>3, UniqueShrink
<1>3. ASSUME NEW g \in Gateways, InstallBatch(g)
      PROVE  UniqueInv'
  <2>1. Frontier' = Frontier
    BY <1>3 DEF InstallBatch, serviceVars, persistVars, Frontier, StartingSeq, ParsedHwm
  <2>2. \A h \in Gateways, n \in Nat : Held(h, n)' <=> Held(h, n) /\ ~ (h = g /\ n = first[g])
    <3>1. ASSUME NEW n \in Nat
          PROVE  Held(g, n)' <=> Held(g, n) /\ n # first[g]
      <4>1. /\ nextSeq'[g] = first[g] + 1 /\ endSeq'[g] = first[g] + Clamp(BatchSize)
            /\ call'[g] = "none" /\ call[g] = "granted" /\ first[g] \in Nat
        BY <1>0, <1>3 DEF InstallBatch, TypeOK
      <4> QED
        BY <4>1 DEF Held
    <3>2. ASSUME NEW h \in Gateways, h # g, NEW n \in Nat
          PROVE  Held(h, n)' <=> Held(h, n)
      BY <1>0, <1>3, <3>2 DEF InstallBatch, Held, TypeOK
    <3> QED
      BY <3>1, <3>2
  <2>3. Held(g, first[g]) /\ first[g] \in Nat
    BY <1>0, <1>3 DEF InstallBatch, Held, TypeOK
  <2>4. Issue(g, first[g])
    BY <1>3 DEF InstallBatch
  <2>5. WindowSpent'
    BY <1>0, <1>3 DEF InstallBatch, WindowSpent, UniqueInv, TypeOK
  <2> QED
    BY <1>0, <1>00, <2>1, <2>2, <2>3, <2>4, <2>5, UniqueIssue
<1>4. ASSUME NEW g \in Gateways, RequestFails(g)
      PROVE  UniqueInv'
  <2>1. Frontier' = Frontier
    BY <1>4 DEF RequestFails, serviceVars, persistVars, Frontier, StartingSeq, ParsedHwm
  <2>2. \A h \in Gateways, n \in Nat : Held(h, n)' => Held(h, n)
    BY <1>0, <1>4 DEF RequestFails, Held, TypeOK, UniqueInv, WindowSpent
  <2>3. WindowSpent' /\ stamped' = stamped
    BY <1>0, <1>4 DEF RequestFails, WindowSpent, UniqueInv, TypeOK
  <2> QED
    BY <1>0, <1>00, <2>1, <2>2, <2>3, UniqueShrink
<1>5. ASSUME NEW g \in Gateways, NextStamps(g)
      PROVE  UniqueInv'
  <2>1. /\ Frontier = next_seq
        /\ Frontier' = next_seq + Clamp(BatchSize)
        /\ stamped' = stamped
    BY <1>0, <1>5 DEF NextStamps, Reserve, Frontier, TypeOK
  <2>2. \A h \in Gateways, n \in Nat :
            Held(h, n)' => \/ Held(h, n)
                           \/ h = g /\ next_seq <= n /\ n < next_seq + Clamp(BatchSize)
    BY <1>0, <1>5 DEF NextStamps, Reserve, Held, TypeOK
  <2>3. WindowSpent'
    BY <1>0, <1>5 DEF NextStamps, WindowSpent, UniqueInv, TypeOK
  <2>4. \A i \in DOMAIN stamped : stamped[i].seq \in Nat
    BY <1>0, StampedFacts DEF TypeOK
  <2>5. HeldBelow'
    BY <1>00, <2>1, <2>2 DEF UniqueInv, HeldBelow
  <2>6. UsedBelow'
    BY <1>00, <2>1, <2>4 DEF UniqueInv, UsedBelow
  <2>7. HeldUnused'
    BY <1>00, <2>1, <2>2, <2>4 DEF UniqueInv, HeldUnused, UsedBelow
  <2>8. HeldOnce'
    BY <1>00, <2>1, <2>2 DEF UniqueInv, HeldOnce, HeldBelow
  <2>9. StampsUnique'
    BY <2>1 DEF UniqueInv, StampsUnique
  <2> QED
    BY <1>0, <2>3, <2>5, <2>6, <2>7, <2>8, <2>9 DEF UniqueInv
<1>6. CASE NextStampsUnheard
  <2>1. Frontier' >= Frontier
    BY <1>0, <1>6 DEF NextStampsUnheard, Reserve, Frontier, TypeOK
  <2> QED
    BY <1>0, <1>6, <2>1, UniqueQuiet DEF NextStampsUnheard
<1>7. CASE PersistWakes \/ PersistTruncates \/ PersistWrites \/ PersistFails
  <2>1. up /\ up' = up /\ next_seq' = next_seq /\ UNCHANGED <<stamperVars, stamped>>
    BY <1>7 DEF PersistWakes, PersistTruncates, PersistWrites, PersistFails
  <2>2. Frontier' >= Frontier
    BY <1>00, <2>1 DEF Frontier
  <2> QED
    BY <1>0, <2>1, <2>2, UniqueQuiet
<1>8. CASE Crash
  <2>1. /\ Frontier = next_seq /\ Frontier' = StartingSeq' /\ next_seq <= StartingSeq
        /\ StartingSeq' = StartingSeq
    BY <1>8 DEF Crash, Frontier, StartingSeq, ParsedHwm
  <2>2. Frontier' >= Frontier
    BY <1>00, <2>1
  <2> QED
    BY <1>0, <1>8, <2>2, UniqueQuiet DEF Crash
<1>9. CASE Restart
  <2>1. Frontier' = Frontier
    BY <1>9 DEF Restart, Frontier
  <2>2. Frontier' >= Frontier
    BY <1>00, <2>1
  <2> QED
    BY <1>0, <1>9, <2>2, UniqueQuiet DEF Restart
<1>10. CASE UNCHANGED vars
  <2>1. Frontier' = Frontier
    BY <1>10 DEF vars, serviceVars, persistVars, Frontier, StartingSeq, ParsedHwm
  <2>2. Frontier' >= Frontier
    BY <1>00, <2>1
  <2> QED
    BY <1>0, <1>10, <2>2, UniqueQuiet DEF vars
<1> QED
  BY <1>1, <1>2, <1>3, <1>4, <1>5, <1>6, <1>7, <1>8, <1>9, <1>10 DEF Next

\* No platform_seq is stamped twice, by any gateways, in any number of lives
\* of the time-service, provided it only dies within its safety gap.
THEOREM Uniqueness == WithinGap => (Spec => []StampsUnique)
<1>1. UniqueInv => StampsUnique
  BY DEF UniqueInv
<1>2. ASSUME WithinGap
      PROVE  Spec => []StampsUnique
  <2>1. UniqueInv /\ [Next]_vars => UniqueInv'
    BY <1>2, UniqueStep
  <2> QED
    BY <1>1, <2>1, UniqueInit, PTL DEF Spec
<1> QED
  BY <1>2

-----------------------------------------------------------------------------
(***************************************************************************)
(* Order at one gateway: what a gateway holds is above what it has used.   *)
(***************************************************************************)

HeldAbove ==
    \A g \in Gateways : \A n \in Nat : \A i \in DOMAIN stamped :
        Held(g, n) /\ stamped[i].gateway = g => stamped[i].seq < n

IncreaseInv == HeldAbove /\ StampsIncrease

\* A step that issues nothing and gives g only numbers from the frontier on.
LEMMA IncreaseQuiet ==
    ASSUME UniqueInv, IncreaseInv, stamped' = stamped, Frontier \in Nat,
           \A h \in Gateways, n \in Nat : Held(h, n)' => Held(h, n) \/ Frontier <= n
    PROVE  IncreaseInv'
<1>1. \A i \in DOMAIN stamped : stamped[i].seq \in Nat
  BY StampedFacts DEF UniqueInv, TypeOK
<1>2. HeldAbove'
  BY <1>1 DEF IncreaseInv, HeldAbove, UniqueInv, UsedBelow
<1>3. StampsIncrease'
  BY DEF IncreaseInv, StampsIncrease
<1> QED
  BY <1>2, <1>3 DEF IncreaseInv

\* Issuing the least number that g holds.
LEMMA IncreaseIssue ==
    ASSUME UniqueInv, IncreaseInv,
           NEW g \in Gateways, NEW m \in Nat,
           Issue(g, m), Held(g, m),
           \A n \in Nat : Held(g, n)' => m < n,
           \A h \in Gateways, n \in Nat : Held(h, n)' => Held(h, n)
    PROVE  IncreaseInv'
<1>1. stamped \in Seq([gateway : Gateways, seq : Nat])
  BY DEF UniqueInv, TypeOK
<1>2. /\ DOMAIN stamped = 1 .. Len(stamped) /\ Len(stamped) \in Nat
      /\ DOMAIN stamped' = 1 .. Len(stamped) + 1
      /\ \A i \in DOMAIN stamped : stamped'[i] = stamped[i]
      /\ stamped'[Len(stamped) + 1] = [gateway |-> g, seq |-> m]
  BY <1>1, IssueFacts
<1>3. \A i \in DOMAIN stamped : stamped[i].seq \in Nat
  BY <1>1, StampedFacts
<1>4. /\ \A i \in DOMAIN stamped :
            stamped'[i].seq = stamped[i].seq /\ stamped'[i].gateway = stamped[i].gateway
      /\ stamped'[Len(stamped) + 1].seq = m
      /\ stamped'[Len(stamped) + 1].gateway = g
  BY <1>2
<1>5. HeldAbove'
  BY <1>2, <1>3, <1>4 DEF IncreaseInv, HeldAbove
<1>6. StampsIncrease'
  <2> SUFFICES ASSUME NEW i \in DOMAIN stamped', NEW j \in DOMAIN stamped', i < j,
                      stamped'[i].gateway = stamped'[j].gateway
               PROVE  stamped'[i].seq < stamped'[j].seq
    BY DEF StampsIncrease
  <2>1. i \in DOMAIN stamped
    BY <1>2
  <2>2. CASE j \in DOMAIN stamped
    BY <1>4, <2>1, <2>2 DEF IncreaseInv, StampsIncrease
  <2>3. CASE j = Len(stamped) + 1
    BY <1>4, <2>1, <2>3 DEF IncreaseInv, HeldAbove
  <2> QED
    BY <1>2, <2>2, <2>3
<1> QED
  BY <1>5, <1>6 DEF IncreaseInv

\* One step per action, as for uniqueness.
LEMMA IncreaseStep == WithinGap /\ UniqueInv /\ IncreaseInv /\ [Next]_vars => IncreaseInv'
<1> SUFFICES ASSUME WithinGap, UniqueInv, IncreaseInv, [Next]_vars
             PROVE  IncreaseInv'
  OBVIOUS
<1> USE ClampPositive
<1>0. TypeOK /\ TypeOK'
  BY TypeStep DEF UniqueInv
<1>00. Frontier \in Nat
  BY <1>0, FrontierNat
<1>1. ASSUME NEW g \in Gateways, NextFromWindow(g)
      PROVE  IncreaseInv'
  <2>1. \A h \in Gateways, n \in Nat : Held(h, n)' => Held(h, n) /\ (h = g => nextSeq[g] < n)
    BY <1>0, <1>1 DEF NextFromWindow, Held, TypeOK
  <2>2. Held(g, nextSeq[g]) /\ nextSeq[g] \in Nat /\ Issue(g, nextSeq[g])
    BY <1>0, <1>1 DEF NextFromWindow, Held, TypeOK
  <2> QED
    BY <2>1, <2>2, IncreaseIssue
<1>2. ASSUME NEW g \in Gateways, InstallBatch(g)
      PROVE  IncreaseInv'
  <2>1. ASSUME NEW n \in Nat, Held(g, n)'
        PROVE  Held(g, n) /\ first[g] < n
    <3>1. /\ nextSeq'[g] = first[g] + 1 /\ endSeq'[g] = first[g] + Clamp(BatchSize)
          /\ call'[g] = "none" /\ call[g] = "granted" /\ first[g] \in Nat
      BY <1>0, <1>2 DEF InstallBatch, TypeOK
    <3> QED
      BY <2>1, <3>1 DEF Held
  <2>2. ASSUME NEW h \in Gateways, h # g, NEW n \in Nat
        PROVE  Held(h, n)' => Held(h, n)
    BY <1>0, <1>2, <2>2 DEF InstallBatch, Held, TypeOK
  <2>3. Held(g, first[g]) /\ first[g] \in Nat /\ Issue(g, first[g])
    BY <1>0, <1>2 DEF InstallBatch, Held, TypeOK
  <2> QED
    BY <2>1, <2>2, <2>3, IncreaseIssue
<1>3. ASSUME NEW g \in Gateways, RequestBatch(g) \/ RequestFails(g)
      PROVE  IncreaseInv'
  <2>1. \A h \in Gateways, n \in Nat : Held(h, n)' => Held(h, n)
    <3> SUFFICES ASSUME NEW h \in Gateways, NEW n \in Nat, Held(h, n)'
                 PROVE  Held(h, n)
      OBVIOUS
    <3>1. /\ nextSeq' = nextSeq /\ endSeq' = endSeq
          /\ call'[g] \in {"none", "requested"}
      BY <1>0, <1>3 DEF RequestBatch, RequestFails, TypeOK
    <3>2. /\ h # g => call'[h] = call[h] /\ first'[h] = first[h]
          /\ nextSeq[h] \in Nat /\ endSeq[h] \in Nat
      BY <1>0, <1>3 DEF RequestBatch, RequestFails, TypeOK
    <3>3. call[h] # "none" => nextSeq[h] >= endSeq[h]
      BY DEF UniqueInv, WindowSpent
    <3>4. CASE h = g
      BY <3>1, <3>2, <3>3, <3>4 DEF Held
    <3>5. CASE h # g
      BY <3>1, <3>2, <3>5 DEF Held
    <3> QED
      BY <3>4, <3>5
  <2>2. stamped' = stamped
    BY <1>3 DEF RequestBatch, RequestFails
  <2> QED
    BY <1>00, <2>1, <2>2, IncreaseQuiet
<1>4. ASSUME NEW g \in Gateways, NextStamps(g)
      PROVE  IncreaseInv'
  <2>1. Frontier = next_seq /\ stamped' = stamped
    BY <1>4 DEF NextStamps, Reserve, Frontier
  <2>2. \A h \in Gateways, n \in Nat : Held(h, n)' => Held(h, n) \/ next_seq <= n
    BY <1>0, <1>4 DEF NextStamps, Reserve, Held, TypeOK
  <2> QED
    BY <1>00, <2>1, <2>2, IncreaseQuiet
<1>5. CASE UNCHANGED <<stamperVars, stamped>>
  <2>1. \A h \in Gateways, n \in Nat : Held(h, n)' => Held(h, n)
    BY <1>5 DEF Held, stamperVars
  <2> QED
    BY <1>00, <1>5, <2>1, IncreaseQuiet
<1> QED
  BY <1>1, <1>2, <1>3, <1>4, <1>5
  DEF Next, NextStampsUnheard, PersistWakes, PersistTruncates, PersistWrites, PersistFails,
      Crash, Restart, vars

\* The platform_seq numbers one gateway stamps strictly increase, over any
\* number of refills, failed calls and restarts within the safety gap.
THEOREM Monotonicity == WithinGap => (Spec => []StampsIncrease)
<1>1. Init => IncreaseInv
  <2> SUFFICES ASSUME Init
               PROVE  IncreaseInv
    OBVIOUS
  <2>1. DOMAIN stamped = {}
    BY DEF Init
  <2> QED
    BY <2>1 DEF IncreaseInv, HeldAbove, StampsIncrease
<1>2. ASSUME WithinGap
      PROVE  Spec => []StampsIncrease
  <2>1. UniqueInv /\ [Next]_vars => UniqueInv'
    BY <1>2, UniqueStep
  <2>2. UniqueInv /\ IncreaseInv /\ [Next]_vars => IncreaseInv'
    BY <1>2, IncreaseStep
  <2>3. IncreaseInv => StampsIncrease
    BY DEF IncreaseInv
  <2> QED
    BY <1>1, <2>1, <2>2, <2>3, UniqueInit, PTL DEF Spec
<1> QED
  BY <1>2

-----------------------------------------------------------------------------
(***************************************************************************)
(* The timestamps.  A response is behind the last stamp of the gateway it  *)
(* goes to by no more than the clocks account for, because that gateway    *)
(* issues nothing while it waits; and a window's time stays ahead of the   *)
(* service's by no more than that: the service falls back only where it is *)
(* rebooted, and the window gains only while the local clock does.         *)
(***************************************************************************)

\* What the window of g would date a stamp now.
WindowTs(g) == originTs[g] + (local[g] - originAt[g])

ClockTyped ==
    /\ now \in Nat /\ bootTs \in Nat /\ bootAt \in Nat /\ setback \in Nat
    /\ bootAt <= now
    /\ firstTs \in [Gateways -> Nat] /\ originTs \in [Gateways -> Nat]
    /\ originAt \in [Gateways -> Nat] /\ lastTs \in [Gateways -> Nat]
    /\ local \in [Gateways -> Nat] /\ gained \in [Gateways -> Nat]

\* A window dates nothing before the gateway's last stamp, nor after the
\* service's own time by more than the clocks' error.
WindowPast ==
    \A g \in Gateways :
        /\ originAt[g] <= local[g] /\ lastTs[g] <= WindowTs(g)
        /\ WindowTs(g) <= ServiceTime + ClockError(g)

\* Nor does a response that is on its way, the service's time included.
GrantPast ==
    \A g \in Gateways :
        call[g] = "granted" =>
            /\ lastTs[g] <= firstTs[g] + ClockError(g)
            /\ firstTs[g] <= ServiceTime + ClockError(g)

ClockInv == ClockTyped /\ WindowPast /\ GrantPast

\* What a step may not do to the timestamps.
ForwardStep ==
    \A g \in Gateways :
        /\ lastTs'[g] < lastTs[g] => call[g] = "granted"
        /\ lastTs'[g] + ClockError(g)' >= lastTs[g]
        /\ lastTs'[g] <= ServiceTime' + ClockError(g)'

\* Every step of the clocks is one of Stamping's.
LEMMA ClockStep == [ClockNext]_<<vars, clockVars>> => [Next]_vars
<1>1. Tick => UNCHANGED vars
  BY DEF Tick
<1>2. Reboot => Next
  BY DEF Reboot, Next
<1>3. Untimed => Next
  BY DEF Untimed, Next
<1>4. ASSUME NEW g \in Gateways,
             StampFromWindow(g) \/ RequestWindow(g) \/ InstallWindow(g)
                 \/ WindowFails(g) \/ GrantWindow(g)
      PROVE  Next
  BY <1>4 DEF StampFromWindow, RequestWindow, InstallWindow, WindowFails, GrantWindow, Next
<1> QED
  BY <1>1, <1>2, <1>3, <1>4 DEF ClockNext

\* The clocks change nothing of what Stamping promises: the numbers that come
\* with timestamps are those of Stamper.Next and Clock::reserve.
THEOREM ClockRefinesStamping == ClockSpec => Spec
<1>1. ClockInit => Init
  BY DEF ClockInit
<1> QED
  BY <1>1, ClockStep, PTL DEF ClockSpec, Spec

\* In a tick a local clock advances by at most one more than it is counted to
\* gain.
LEMMA TickFacts ==
    ASSUME ClockTyped, Tick, NEW g \in Gateways
    PROVE  /\ local'[g] \in Nat /\ gained'[g] \in Nat
           /\ local'[g] >= local[g] /\ gained'[g] >= gained[g]
           /\ local'[g] - local[g] <= 1 + (gained'[g] - gained[g])
<1>1. PICK rate \in [Gateways -> 0 .. MaxRate] :
          /\ local' = [h \in Gateways |-> local[h] + rate[h]]
          /\ gained' = [h \in Gateways |->
                           IF rate[h] > 1 THEN gained[h] + (rate[h] - 1) ELSE gained[h]]
  BY DEF Tick
<1>2. PICK d \in Nat : d = rate[g]
  BY <1>1, ClockAssumption
<1>3. PICK m \in Nat : m = local[g]
  BY DEF ClockTyped
<1>4. PICK n \in Nat : n = gained[g]
  BY DEF ClockTyped
<1>5. local'[g] = m + d /\ gained'[g] = (IF d > 1 THEN n + (d - 1) ELSE n)
  <2>1. /\ local'[g] = local[g] + rate[g]
        /\ gained'[g] = (IF rate[g] > 1 THEN gained[g] + (rate[g] - 1) ELSE gained[g])
    BY <1>1, Zenon
  <2> QED
    BY <1>2, <1>3, <1>4, <2>1, Zenon
<1>6. CASE d > 1
  BY <1>5, <1>3, <1>4, <1>6
<1>7. CASE ~ (d > 1)
  BY <1>5, <1>3, <1>4, <1>7
<1> QED
  BY <1>6, <1>7

\* A step that stamps nothing moves no gateway's timestamp.
LEMMA QuietForward ==
    ASSUME ClockTyped, ClockInv', lastTs' = lastTs
    PROVE  ForwardStep
<1> SUFFICES ASSUME NEW g \in Gateways
             PROVE  /\ lastTs'[g] < lastTs[g] => call[g] = "granted"
                    /\ lastTs'[g] + ClockError(g)' >= lastTs[g]
                    /\ lastTs'[g] <= ServiceTime' + ClockError(g)'
  BY DEF ForwardStep
<1>1. lastTs'[g] = lastTs[g] /\ lastTs[g] \in Nat /\ ClockError(g)' \in Nat
  BY DEF ClockInv, ClockTyped, ClockError
<1>2. /\ lastTs'[g] <= WindowTs(g)' /\ WindowTs(g)' <= ServiceTime' + ClockError(g)'
      /\ WindowTs(g)' \in Int /\ ServiceTime' \in Int
  BY DEF ClockInv, ClockTyped, WindowPast, WindowTs, ServiceTime
<1> QED
  BY <1>1, <1>2

\* Every gateway's timestamps go forward in a step, but for the clocks' error,
\* and stay behind the service's clock.
LEMMA ForwardHolds ==
    ASSUME TypeOK, ClockInv, [ClockNext]_<<vars, clockVars>>
    PROVE  ClockInv' /\ ForwardStep
<1> USE DEF ClockInv, ServiceTime, WindowTs, ClockError
<1>1. CASE Tick
  <2>1. /\ now' = now + 1
        /\ UNCHANGED <<bootTs, bootAt, setback, firstTs, originTs, originAt, lastTs, call>>
    BY <1>1 DEF Tick, bootVars, windowVars, vars, stamperVars
  <2>2. \A g \in Gateways :
            /\ local'[g] \in Nat /\ gained'[g] \in Nat
            /\ local'[g] >= local[g] /\ gained'[g] >= gained[g]
            /\ local'[g] - local[g] <= 1 + (gained'[g] - gained[g])
    BY <1>1, TickFacts
  <2>3. ClockTyped'
    <3>1. /\ local' = [g \in Gateways |-> local'[g]]
          /\ gained' = [g \in Gateways |-> gained'[g]]
      BY <1>1 DEF Tick
    <3>2. local' \in [Gateways -> Nat] /\ gained' \in [Gateways -> Nat]
      BY <2>2, <3>1
    <3> QED
      BY <2>1, <3>2 DEF ClockTyped
  <2>4. WindowPast' /\ GrantPast'
    <3> SUFFICES ASSUME NEW g \in Gateways
                 PROVE  /\ originAt'[g] <= local'[g] /\ lastTs'[g] <= WindowTs(g)'
                        /\ WindowTs(g)' <= ServiceTime' + ClockError(g)'
                        /\ call'[g] = "granted" =>
                              /\ lastTs'[g] <= firstTs'[g] + ClockError(g)'
                              /\ firstTs'[g] <= ServiceTime' + ClockError(g)'
      BY DEF WindowPast, GrantPast
    <3> QED
      BY <2>1, <2>2 DEF ClockTyped, WindowPast, GrantPast
  <2> QED
    BY <2>1, <2>3, <2>4, QuietForward
<1>2. CASE Reboot
  <2>0. bootTs' \in 0 .. MaxWall /\ MaxWall \in Nat
    BY <1>2, ClockAssumption DEF Reboot
  <2>1. /\ bootTs' \in Nat /\ bootAt' = now
        /\ bootTs' < ServiceTime => setback' = setback + (ServiceTime - bootTs')
        /\ ~ (bootTs' < ServiceTime) => setback' = setback
        /\ UNCHANGED <<now, local, gained, firstTs, originTs, originAt, lastTs, call>>
    BY <1>2, <2>0 DEF Reboot, Restart, timeVars, windowVars, stamperVars
  <2>2. /\ setback' \in Nat /\ setback' >= setback
        /\ bootTs' + setback' >= bootTs + (now - bootAt) + setback
    <3>1. PICK b \in Nat : b = bootTs'
      BY <2>1
    <3>2. PICK t \in Nat : t = bootTs + (now - bootAt)
      BY DEF ClockTyped
    <3>3. PICK k \in Nat : k = setback
      BY DEF ClockTyped
    <3>4. /\ b < t => setback' = k + (t - b)
          /\ ~ (b < t) => setback' = k
      BY <2>1, <3>1, <3>2, <3>3
    <3> QED
      BY <3>1, <3>2, <3>3, <3>4
  <2>3. ClockTyped'
    BY <2>1, <2>2 DEF ClockTyped
  <2>4. WindowPast' /\ GrantPast'
    <3> SUFFICES ASSUME NEW g \in Gateways
                 PROVE  /\ originAt'[g] <= local'[g] /\ lastTs'[g] <= WindowTs(g)'
                        /\ WindowTs(g)' <= ServiceTime' + ClockError(g)'
                        /\ call'[g] = "granted" =>
                              /\ lastTs'[g] <= firstTs'[g] + ClockError(g)'
                              /\ firstTs'[g] <= ServiceTime' + ClockError(g)'
      BY DEF WindowPast, GrantPast
    <3>1. ServiceTime' + ClockError(g)' >= ServiceTime + ClockError(g)
      <4>1. /\ bootTs \in Nat /\ now \in Nat /\ bootAt \in Nat /\ setback \in Nat
            /\ gained[g] \in Nat
        BY DEF ClockTyped
      <4>2. now' = now /\ bootAt' = now /\ gained' = gained /\ bootTs' \in Nat
        BY <2>1
      <4>3. ServiceTime' = bootTs'
        <5>1. ServiceTime' = bootTs' + (now - now)
          BY <4>2, Zenon
        <5>2. now - now = 0
          BY <4>1
        <5> QED
          BY <4>2, <5>1, <5>2
      <4>4. ClockError(g)' = setback' + gained[g] /\ ClockError(g) = setback + gained[g]
        BY <4>2
      <4>5. bootTs' + setback' >= bootTs + (now - bootAt) + setback /\ setback' \in Nat
        BY <2>2
      <4>6. PICK x \in Nat, y \in Nat : x = bootTs' + setback' /\ y = gained[g]
        <5>1. bootTs' + setback' \in Nat
          BY <4>2, <4>5, Addition, Zenon
        <5> QED
          BY <4>1, <5>1, Zenon
      <4>7. PICK z \in Int : z = bootTs + (now - bootAt) + setback
        <5>1. bootTs + (now - bootAt) + setback \in Int
          BY <4>1
        <5> QED
          BY <5>1, Zenon
      <4>8. ServiceTime' + ClockError(g)' = x + y
        <5>1. ServiceTime' + ClockError(g)' = bootTs' + (setback' + gained[g])
          BY <4>3, <4>4, Zenon
        <5> QED
          BY <4>1, <4>2, <4>5, <4>6, <5>1
      <4>9. ServiceTime + ClockError(g) = z + y
        BY <4>1, <4>6, <4>7
      <4>10. x >= z
        BY <4>5, <4>6, <4>7
      <4> QED
        BY <4>8, <4>9, <4>10
    <3>2. WindowTs(g)' <= ServiceTime' + ClockError(g)'
      BY <2>1, <2>2, <3>1 DEF ClockTyped, WindowPast
    <3> QED
      BY <2>1, <2>2, <3>1, <3>2 DEF ClockTyped, WindowPast, GrantPast
  <2> QED
    BY <2>1, <2>3, <2>4, QuietForward
<1>3. CASE Untimed \/ UNCHANGED <<vars, clockVars>>
  <2>1. UNCHANGED <<now, local, gained, bootTs, bootAt, setback, firstTs, originTs, originAt,
                    lastTs, call>>
    BY <1>3 DEF Untimed, clockVars, timeVars, bootVars, windowVars, vars, stamperVars,
                NextStampsUnheard, PersistWakes, PersistTruncates, PersistWrites, PersistFails,
                Crash
  <2>2. ClockTyped' /\ WindowPast' /\ GrantPast'
    BY <2>1 DEF ClockTyped, WindowPast, GrantPast
  <2> QED
    BY <2>1, <2>2, QuietForward
<1>4. ASSUME NEW g \in Gateways, StampFromWindow(g)
      PROVE  ClockInv' /\ ForwardStep
  <2>1. /\ lastTs' = [lastTs EXCEPT ![g] = originTs[g] + (local[g] - originAt[g])]
        /\ UNCHANGED <<now, local, gained, bootTs, bootAt, setback, firstTs, originTs, originAt,
                       call>>
        /\ call[g] = "none"
    BY <1>4 DEF StampFromWindow, NextFromWindow, timeVars, bootVars
  <2>2. /\ originTs[g] + (local[g] - originAt[g]) \in Nat
        /\ originTs[g] + (local[g] - originAt[g]) >= lastTs[g]
        /\ originTs[g] + (local[g] - originAt[g]) <= ServiceTime + ClockError(g)
    BY DEF ClockTyped, WindowPast
  <2>3. /\ ClockTyped' /\ lastTs'[g] = originTs[g] + (local[g] - originAt[g])
        /\ \A h \in Gateways : h # g => lastTs'[h] = lastTs[h]
    BY <2>1, <2>2 DEF ClockTyped
  <2>4. WindowPast'
    BY <2>1, <2>2, <2>3 DEF ClockTyped, WindowPast
  <2>5. GrantPast'
    BY <2>1, <2>3 DEF GrantPast
  <2>6. ForwardStep
    BY <2>1, <2>2, <2>3 DEF ClockTyped, WindowPast, ForwardStep
  <2> QED
    BY <2>3, <2>4, <2>5, <2>6
<1>5. ASSUME NEW g \in Gateways, RequestWindow(g)
      PROVE  ClockInv' /\ ForwardStep
  <2>1. UNCHANGED <<now, local, gained, bootTs, bootAt, setback, firstTs, originTs, originAt,
                    lastTs>>
    BY <1>5 DEF RequestWindow, clockVars, timeVars, bootVars, windowVars
  <2>2. \A h \in Gateways : call'[h] = "granted" => call[h] = "granted"
    BY <1>5 DEF RequestWindow, RequestBatch, TypeOK
  <2>3. ClockTyped' /\ WindowPast' /\ GrantPast'
    BY <2>1, <2>2 DEF ClockTyped, WindowPast, GrantPast
  <2> QED
    BY <2>1, <2>3, QuietForward
<1>6. ASSUME NEW g \in Gateways, InstallWindow(g)
      PROVE  ClockInv' /\ ForwardStep
  <2>1. /\ originTs' = [originTs EXCEPT ![g] = firstTs[g]]
        /\ originAt' = [originAt EXCEPT ![g] = local[g]]
        /\ lastTs' = [lastTs EXCEPT ![g] = firstTs[g]]
        /\ firstTs' = [firstTs EXCEPT ![g] = 0]
        /\ UNCHANGED <<now, local, gained, bootTs, bootAt, setback>>
    BY <1>6 DEF InstallWindow, timeVars, bootVars
  <2>2. call[g] = "granted" /\ call' = [call EXCEPT ![g] = "none"]
    BY <1>6 DEF InstallWindow, InstallBatch
  <2>3. /\ firstTs[g] \in Nat
        /\ lastTs[g] <= firstTs[g] + ClockError(g)
        /\ firstTs[g] <= ServiceTime + ClockError(g)
    BY <2>2 DEF ClockTyped, GrantPast
  <2>4. ClockTyped'
    BY <2>1, <2>3 DEF ClockTyped
  <2>5. /\ originTs'[g] = firstTs[g] /\ originAt'[g] = local[g] /\ lastTs'[g] = firstTs[g]
        /\ call'[g] = "none"
        /\ \A h \in Gateways : h # g =>
               /\ originTs'[h] = originTs[h] /\ originAt'[h] = originAt[h]
               /\ lastTs'[h] = lastTs[h] /\ firstTs'[h] = firstTs[h] /\ call'[h] = call[h]
    BY <2>1, <2>2 DEF ClockTyped, TypeOK
  <2>6. WindowPast'
    <3> SUFFICES ASSUME NEW h \in Gateways
                 PROVE  /\ originAt'[h] <= local'[h] /\ lastTs'[h] <= WindowTs(h)'
                        /\ WindowTs(h)' <= ServiceTime' + ClockError(h)'
      BY DEF WindowPast
    <3>1. CASE h = g
      BY <2>1, <2>3, <2>5, <3>1 DEF ClockTyped
    <3>2. CASE h # g
      BY <2>1, <2>5, <3>2 DEF ClockTyped, WindowPast
    <3> QED
      BY <3>1, <3>2
  <2>7. GrantPast'
    BY <2>1, <2>5 DEF GrantPast
  <2>8. ForwardStep
    <3> SUFFICES ASSUME NEW h \in Gateways
                 PROVE  /\ lastTs'[h] < lastTs[h] => call[h] = "granted"
                        /\ lastTs'[h] + ClockError(h)' >= lastTs[h]
                        /\ lastTs'[h] <= ServiceTime' + ClockError(h)'
      BY DEF ForwardStep
    <3>1. CASE h = g
      BY <2>1, <2>2, <2>3, <2>5, <3>1 DEF ClockTyped
    <3>2. CASE h # g
      BY <2>1, <2>5, <3>2 DEF ClockTyped, WindowPast
    <3> QED
      BY <3>1, <3>2
  <2> QED
    BY <2>4, <2>6, <2>7, <2>8
<1>7. ASSUME NEW g \in Gateways, WindowFails(g)
      PROVE  ClockInv' /\ ForwardStep
  <2>1. /\ firstTs' = [firstTs EXCEPT ![g] = 0]
        /\ UNCHANGED <<now, local, gained, bootTs, bootAt, setback, originTs, originAt, lastTs>>
    BY <1>7 DEF WindowFails, timeVars, bootVars, windowVars
  <2>2. \A h \in Gateways :
            call'[h] = "granted" => call[h] = "granted" /\ firstTs'[h] = firstTs[h]
    BY <1>7, <2>1 DEF WindowFails, RequestFails, TypeOK, ClockTyped
  <2>3. ClockTyped' /\ WindowPast'
    BY <2>1 DEF ClockTyped, WindowPast
  <2>4. GrantPast'
    BY <2>1, <2>2 DEF GrantPast
  <2> QED
    BY <2>1, <2>3, <2>4, QuietForward
<1>8. ASSUME NEW g \in Gateways, GrantWindow(g)
      PROVE  ClockInv' /\ ForwardStep
  <2>1. /\ firstTs' = [firstTs EXCEPT ![g] = bootTs + (now - bootAt)]
        /\ UNCHANGED <<now, local, gained, bootTs, bootAt, setback, originTs, originAt, lastTs>>
    BY <1>8 DEF GrantWindow, timeVars, bootVars, windowVars
  <2>2. \A h \in Gateways : h # g =>
            (call'[h] = "granted" => call[h] = "granted") /\ firstTs'[h] = firstTs[h]
    BY <1>8, <2>1 DEF GrantWindow, NextStamps, TypeOK, ClockTyped
  <2>3. ClockTyped' /\ WindowPast' /\ firstTs'[g] = bootTs + (now - bootAt)
    BY <2>1 DEF ClockTyped, WindowPast
  <2>4. lastTs[g] <= bootTs + (now - bootAt) + ClockError(g)
    BY DEF ClockTyped, WindowPast
  <2>5. GrantPast'
    BY <2>1, <2>2, <2>3, <2>4 DEF ClockTyped, GrantPast
  <2> QED
    BY <2>1, <2>3, <2>5, QuietForward
<1> QED
  BY <1>1, <1>2, <1>3, <1>4, <1>5, <1>6, <1>7, <1>8 DEF ClockNext

\* A gateway's timestamps go back only at a refill, and by no more than the
\* service's wall clock was set back at its restarts and the gateway's own
\* clock outran the service's, for any number of restarts, whether or not the
\* safety gap covers them, and refills that take any time.
THEOREM Timestamps == ClockSpec => TimestampsForward
<1>1. ClockInit => ClockInv
  BY ClockAssumption DEF ClockInit, Init, ClockInv, ClockTyped, WindowPast, GrantPast, ServiceTime,
     WindowTs, ClockError
<1>2. TypeOK /\ ClockInv /\ [ClockNext]_<<vars, clockVars>> => ClockInv' /\ ForwardStep
  BY ForwardHolds
<1>3. ClockSpec => []TypeOK
  BY ClockRefinesStamping, TypeCorrect, PTL
<1>4. ForwardStep =>
          \A g \in Gateways :
              /\ lastTs'[g] < lastTs[g] => call[g] = "granted"
              /\ lastTs'[g] + ClockError(g)' >= lastTs[g]
              /\ lastTs'[g] <= ServiceTime' + ClockError(g)'
  BY DEF ForwardStep
<1> QED
  BY <1>1, <1>2, <1>3, <1>4, PTL DEF ClockSpec, TimestampsForward

=============================================================================
