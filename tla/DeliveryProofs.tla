--------------------------- MODULE DeliveryProofs ---------------------------
(***************************************************************************)
(* Proofs about what the server sends: the log of its webhook deliveries   *)
(* and the pages of its incidents.                                         *)
(***************************************************************************)
EXTENDS Delivery, WebhookAudit, FiniteSetTheorems, SequenceTheorems, WellFoundedInduction, TLAPS

(***************************************************************************)
(* What holds of WebhookAudit for any capacity, number of deliveries and   *)
(* of retry requests.                                                      *)
(*                                                                         *)
(* A delivery is in the buffer, in the janitor's hand, in the hand of one  *)
(* retry, in the table, or lost: the steps move it between these places.   *)
(* The buffer is in order because all it gets back is older than what it   *)
(* holds.                                                                  *)
(***************************************************************************)
InBuffer == ToSet(records)
InTable == ToSet(table)
InJan == ToSet(jan.hand)
InRetry(q) == ToSet(retry[q].hand)

Distinct(s) == \A i, j \in 1 .. Len(s) : s[i] = s[j] => i = j

(* The places have nothing in common.                                      *)
Apart ==
  /\ InBuffer \cap InTable = {} /\ InJan \cap InBuffer = {} /\ InJan \cap InTable = {}
  /\ \A q \in Retries :
       /\ InRetry(q) \cap InBuffer = {} /\ InRetry(q) \cap InTable = {} /\ InRetry(q) \cap InJan = {}
       /\ \A p \in Retries \ {q} : InRetry(q) \cap InRetry(p) = {}

Placed == InBuffer \cup InTable \cup Held

AuditInv ==
  /\ AuditTypeOK
  /\ InOrder /\ Apart /\ Distinct(table)
  /\ \A q \in Retries : Increasing(retry[q].hand) /\ (retry[q].pc # "flush" => retry[q].hand = <<>>)
  /\ jan.pc = "idle" => jan.hand = <<>>
  /\ Placed \subseteq 1 .. made
  /\ DroppedSound

-----------------------------------------------------------------------------
(* Sequences of rows and of other things.                                  *)
LEMMA RowSet ==
  ASSUME NEW S, NEW s \in Seq(S)
  PROVE  /\ ToSet(s) = {s[i] : i \in 1 .. Len(s)} /\ ToSet(s) \subseteq S
         /\ Len(s) \in Nat
BY LenProperties, ElementOfSeq DEF ToSet

LEMMA NoRows == ToSet(<<>>) = {} /\ <<>> \in Seq(Rows) /\ Len(<<>>) = 0 /\ Increasing(<<>>)
<1>1. <<>> \in Seq(Rows) /\ Len(<<>>) = 0 /\ 1 .. 0 = {}
  BY EmptySeq
<1>2. ToSet(<<>>) = {(<<>>)[i] : i \in 1 .. 0}
  <2>1. \A s \in Seq(Rows) : ToSet(s) = {s[i] : i \in 1 .. Len(s)}
    BY RowSet
  <2> QED BY <1>1, <2>1
<1> QED BY <1>1, <1>2 DEF Increasing

LEMMA OneMoreRow ==
  ASSUME NEW S, NEW s \in Seq(S), NEW d \in S
  PROVE  /\ Append(s, d) \in Seq(S) /\ Len(Append(s, d)) = Len(s) + 1
         /\ ToSet(Append(s, d)) = ToSet(s) \cup {d}
         /\ Increasing(s) /\ (\A e \in ToSet(s) : e < d) => Increasing(Append(s, d))
<1>1. /\ Append(s, d) \in Seq(S) /\ Len(Append(s, d)) = Len(s) + 1 /\ Len(s) \in Nat
      /\ \A i \in 1 .. Len(s) : Append(s, d)[i] = s[i]
      /\ Append(s, d)[Len(s) + 1] = d
  BY LenProperties, AppendProperties
<1>2. 1 .. Len(s) + 1 = 1 .. Len(s) \cup {Len(s) + 1}
  BY <1>1
<1>3. ToSet(Append(s, d)) = ToSet(s) \cup {d}
  <2>1. ToSet(Append(s, d)) = {Append(s, d)[i] : i \in 1 .. Len(s) \cup {Len(s) + 1}}
    BY <1>1, <1>2, RowSet
  <2>2. ToSet(s) = {s[i] : i \in 1 .. Len(s)}
    BY RowSet
  <2> QED BY <1>1, <2>1, <2>2
<1>4. ASSUME Increasing(s), \A e \in ToSet(s) : e < d,
             NEW i \in 1 .. Len(s) + 1, NEW j \in 1 .. Len(s) + 1, i < j
      PROVE  Append(s, d)[i] < Append(s, d)[j]
  <2>1. i \in 1 .. Len(s) /\ Append(s, d)[i] = s[i] /\ s[i] \in ToSet(s)
    BY <1>1, <1>4, RowSet
  <2> QED BY <1>1, <1>4, <2>1 DEF Increasing
<1> QED BY <1>1, <1>3, <1>4 DEF Increasing

LEMMA MoreRows ==
  ASSUME NEW S, NEW s \in Seq(S), NEW t \in Seq(S)
  PROVE  /\ s \o t \in Seq(S) /\ Len(s \o t) = Len(s) + Len(t)
         /\ ToSet(s \o t) = ToSet(s) \cup ToSet(t)
         /\ Increasing(s) /\ Increasing(t) /\ (\A d \in ToSet(s), e \in ToSet(t) : d < e)
              => Increasing(s \o t)
         /\ Distinct(s) /\ Distinct(t) /\ ToSet(s) \cap ToSet(t) = {} => Distinct(s \o t)
<1>1. /\ s \o t \in Seq(S) /\ Len(s \o t) = Len(s) + Len(t) /\ Len(s) \in Nat /\ Len(t) \in Nat
      /\ \A i \in 1 .. Len(s) + Len(t) : (s \o t)[i] = IF i <= Len(s) THEN s[i] ELSE t[i - Len(s)]
  BY LenProperties, ConcatProperties
<1>2. ASSUME NEW i \in 1 .. Len(s) PROVE (s \o t)[i] = s[i] /\ i \in 1 .. Len(s) + Len(t) /\ s[i] \in ToSet(s)
  BY <1>1, RowSet
<1>3. ASSUME NEW i \in 1 .. Len(t) PROVE (s \o t)[Len(s) + i] = t[i] /\ Len(s) + i \in 1 .. Len(s) + Len(t)
  BY <1>1
<1>4. ASSUME NEW i \in 1 .. Len(s) + Len(t), ~(i <= Len(s))
      PROVE  i - Len(s) \in 1 .. Len(t) /\ (s \o t)[i] = t[i - Len(s)] /\ t[i - Len(s)] \in ToSet(t)
  BY <1>1, <1>4, RowSet
<1>5. ToSet(s \o t) = ToSet(s) \cup ToSet(t)
  <2>1. ToSet(s \o t) = {(s \o t)[i] : i \in 1 .. Len(s) + Len(t)}
    BY <1>1, RowSet
  <2>2. ASSUME NEW e \in ToSet(s \o t) PROVE e \in ToSet(s) \cup ToSet(t)
    <3>1. PICK i \in 1 .. Len(s) + Len(t) : e = (s \o t)[i]
      BY <2>1, <2>2
    <3>2. CASE i <= Len(s)
      BY <1>1, <1>2, <3>1, <3>2
    <3>3. CASE ~(i <= Len(s))
      BY <1>4, <3>1, <3>3
    <3> QED BY <3>2, <3>3
  <2>3. ASSUME NEW e \in ToSet(s) PROVE e \in ToSet(s \o t)
    <3>1. PICK i \in 1 .. Len(s) : e = s[i]
      BY <2>3, RowSet
    <3> QED BY <1>2, <2>1, <3>1
  <2>4. ASSUME NEW e \in ToSet(t) PROVE e \in ToSet(s \o t)
    <3>1. PICK i \in 1 .. Len(t) : e = t[i]
      BY <2>4, RowSet
    <3> QED BY <1>3, <2>1, <3>1
  <2> QED BY <2>2, <2>3, <2>4
<1>6. ASSUME Increasing(s), Increasing(t), \A d \in ToSet(s), e \in ToSet(t) : d < e,
             NEW i \in 1 .. Len(s) + Len(t), NEW j \in 1 .. Len(s) + Len(t), i < j
      PROVE  (s \o t)[i] < (s \o t)[j]
  <2>1. CASE j <= Len(s)
    BY <1>1, <1>2, <1>6, <2>1 DEF Increasing
  <2>2. CASE i <= Len(s) /\ ~(j <= Len(s))
    BY <1>1, <1>2, <1>4, <1>6, <2>2
  <2>3. CASE ~(i <= Len(s))
    <3>1. ~(j <= Len(s)) /\ i - Len(s) < j - Len(s)
      BY <1>1, <1>6, <2>3
    <3> QED BY <1>4, <1>6, <2>3, <3>1 DEF Increasing
  <2> QED BY <2>1, <2>2, <2>3
<1>7. ASSUME Distinct(s), Distinct(t), ToSet(s) \cap ToSet(t) = {},
             NEW i \in 1 .. Len(s) + Len(t), NEW j \in 1 .. Len(s) + Len(t), (s \o t)[i] = (s \o t)[j]
      PROVE  i = j
  <2>1. CASE i <= Len(s) /\ j <= Len(s)
    BY <1>1, <1>2, <1>7, <2>1 DEF Distinct
  <2>2. CASE ~(i <= Len(s)) /\ ~(j <= Len(s))
    <3>1. i - Len(s) = j - Len(s)
      BY <1>4, <1>7, <2>2 DEF Distinct
    <3> QED BY <1>1, <3>1
  <2>3. CASE i <= Len(s) /\ ~(j <= Len(s))
    BY <1>1, <1>2, <1>4, <1>7, <2>3
  <2>4. CASE ~(i <= Len(s)) /\ j <= Len(s)
    BY <1>1, <1>2, <1>4, <1>7, <2>4
  <2> QED BY <2>1, <2>2, <2>3, <2>4
<1> QED BY <1>1, <1>5, <1>6, <1>7 DEF Increasing, Distinct

LEMMA NewestRows ==
  ASSUME NEW s \in Seq(Rows), NEW n \in 0 .. Len(s)
  PROVE  /\ Newest(s, n) \in Seq(Rows) /\ Len(Newest(s, n)) = n
         /\ ToSet(Newest(s, n)) \subseteq ToSet(s)
         /\ Increasing(s) => Increasing(Newest(s, n))
<1>1. Len(s) \in Nat /\ n \in Nat /\ n <= Len(s)
  BY LenProperties
<1>2. \A i \in Len(s) - n + 1 .. Len(s) : s[i] \in Rows
  BY <1>1, ElementOfSeq
<1>3. /\ Newest(s, n) \in Seq(Rows)
      /\ Len(Newest(s, n)) = IF Len(s) - n + 1 <= Len(s) THEN Len(s) - (Len(s) - n + 1) + 1 ELSE 0
      /\ \A i \in 1 .. Len(s) - (Len(s) - n + 1) + 1 : Newest(s, n)[i] = s[Len(s) - n + 1 + i - 1]
  BY <1>1, <1>2, SubSeqProperties DEF Newest
<1>4. Len(Newest(s, n)) = n
  BY <1>1, <1>3
<1>5. ASSUME NEW i \in 1 .. n
      PROVE  Newest(s, n)[i] = s[Len(s) - n + i] /\ Len(s) - n + i \in 1 .. Len(s)
  <2>1. /\ i \in 1 .. Len(s) - (Len(s) - n + 1) + 1
        /\ Len(s) - n + 1 + i - 1 = Len(s) - n + i /\ Len(s) - n + i \in 1 .. Len(s)
    BY <1>1
  <2> QED BY <1>3, <2>1
<1>6. ToSet(Newest(s, n)) \subseteq ToSet(s)
  <2>1. ToSet(Newest(s, n)) = {Newest(s, n)[i] : i \in 1 .. n}
    BY <1>3, <1>4, RowSet
  <2>2. \A i \in 1 .. Len(s) : s[i] \in ToSet(s)
    BY RowSet
  <2> QED BY <1>5, <2>1, <2>2
<1>7. ASSUME Increasing(s), NEW i \in 1 .. n, NEW j \in 1 .. n, i < j
      PROVE  Newest(s, n)[i] < Newest(s, n)[j]
  <2>1. Len(s) - n + i < Len(s) - n + j
    BY <1>1, <1>7
  <2> QED BY <1>5, <1>7, <2>1 DEF Increasing
<1> QED BY <1>3, <1>4, <1>6, <1>7 DEF Increasing

LEMMA InOrderDistinct ==
  ASSUME NEW s \in Seq(Rows), Increasing(s)
  PROVE  Distinct(s) /\ IsFiniteSet(ToSet(s)) /\ Cardinality(ToSet(s)) = Len(s)
<1>1. Len(s) \in Nat /\ \A i \in 1 .. Len(s) : s[i] \in Nat
  BY RowSet, ElementOfSeq, AuditAssumption DEF Rows
<1>2. ASSUME NEW i \in 1 .. Len(s), NEW j \in 1 .. Len(s), s[i] = s[j] PROVE i = j
  <2>1. ~(i < j) /\ ~(j < i)
    BY <1>1, <1>2 DEF Increasing
  <2> QED BY <1>1, <2>1
<1> DEFINE f == [i \in 1 .. Len(s) |-> s[i]]
<1>3. f \in Bijection(1 .. Len(s), ToSet(s))
  <2>1. ToSet(s) = {s[i] : i \in 1 .. Len(s)}
    BY RowSet
  <2>2. f \in [1 .. Len(s) -> ToSet(s)]
    BY <2>1
  <2>3. \A i, j \in 1 .. Len(s) : f[i] = f[j] => i = j
    BY <1>2
  <2>4. \A e \in ToSet(s) : \E i \in 1 .. Len(s) : f[i] = e
    BY <2>1
  <2> HIDE DEF f
  <2> QED BY <2>2, <2>3, <2>4 DEF Bijection, Injection, Surjection, IsInjective
<1>4. ExistsBijection(1 .. Len(s), ToSet(s))
  BY <1>3 DEF ExistsBijection
<1>5. IsFiniteSet(ToSet(s)) /\ Cardinality(ToSet(s)) = Len(s)
  BY <1>1, <1>4, FS_NatBijection, FS_CountingElements
<1> QED BY <1>2, <1>5 DEF Distinct

-----------------------------------------------------------------------------
RetryStates == [pc : {"idle", "drain", "flush"}, hand : Seq(Rows)]

LEMMA AuditInitInv == AuditInit => AuditInv
<1> SUFFICES ASSUME AuditInit PROVE AuditInv
  OBVIOUS
<1>1. /\ made = 0 /\ records = <<>> /\ dropped = 0 /\ table = <<>> /\ gone = {}
      /\ jan.pc = "idle" /\ jan.hand = <<>> /\ jan = IdleJanitor
      /\ \A q \in Retries : retry[q].pc = "idle" /\ retry[q].hand = <<>>
      /\ retry = [q \in Retries |-> IdleRetry]
  BY DEF AuditInit, IdleJanitor, IdleRetry
<1>2. AuditTypeOK
  BY <1>1, NoRows, AuditAssumption DEF AuditTypeOK, IdleJanitor, IdleRetry
<1>3. InBuffer = {} /\ InTable = {} /\ InJan = {} /\ \A q \in Retries : InRetry(q) = {}
  BY <1>1, NoRows DEF InBuffer, InTable, InJan, InRetry
<1>4. Placed = {}
  BY <1>3 DEF Placed, Held, InJan, InRetry
<1>5. Lost = {}
  BY <1>1, <1>4 DEF Lost
<1>6. DroppedSound
  BY <1>1, <1>5, FS_EmptySet DEF DroppedSound
<1>7. Distinct(table) /\ InOrder
  BY <1>1, <1>3, NoRows DEF Distinct, InOrder, InJan, InBuffer
<1> QED BY <1>1, <1>2, <1>3, <1>4, <1>6, <1>7, NoRows DEF AuditInv, Apart

LEMMA AuditTypes ==
  ASSUME AuditInv
  PROVE  /\ made \in Nat /\ made \in 0 .. MaxMade /\ MaxMade \in Nat /\ MaxLen \in Nat \ {0}
         /\ records \in Seq(Rows) /\ table \in Seq(Rows) /\ jan.hand \in Seq(Rows)
         /\ retry \in [Retries -> RetryStates] /\ \A q \in Retries : retry[q].hand \in Seq(Rows)
         /\ InBuffer \subseteq Rows /\ InTable \subseteq Rows /\ InJan \subseteq Rows
         /\ \A q \in Retries : InRetry(q) \subseteq Rows
         /\ IsFiniteSet(Lost) /\ Cardinality(Lost) \in Nat /\ dropped \in Nat
         /\ Len(records) \in Nat /\ Len(jan.hand) \in Nat
<1>1. /\ made \in Nat /\ MaxMade \in Nat /\ MaxLen \in Nat \ {0}
      /\ records \in Seq(Rows) /\ table \in Seq(Rows) /\ jan.hand \in Seq(Rows)
      /\ retry \in [Retries -> RetryStates] /\ dropped \in Nat
      /\ \A q \in Retries : retry[q].hand \in Seq(Rows)
  BY AuditAssumption DEF AuditInv, AuditTypeOK, RetryStates
<1>2. Lost \subseteq 1 .. made /\ IsFiniteSet(1 .. made)
  BY <1>1, FS_Interval DEF Lost
<1>3. IsFiniteSet(Lost) /\ Cardinality(Lost) \in Nat
  BY <1>2, FS_Subset, FS_CardinalityType
<1> QED BY <1>1, <1>3, RowSet DEF InBuffer, InTable, InJan, InRetry, AuditInv, AuditTypeOK

(* The rows newly lost make up for what is added to the counter.           *)
LEMMA StillSound ==
  ASSUME AuditInv, made' \in Nat, made <= made', dropped' \in Nat,
         Placed' \cap (1 .. made) \subseteq Placed,
         NEW X, IsFiniteSet(X), X \subseteq 1 .. made', X \cap Placed' = {}, X \cap Lost = {},
         dropped' <= dropped + Cardinality(X)
  PROVE  DroppedSound'
<1>1. Lost = (1 .. made) \ Placed /\ Lost' = (1 .. made') \ Placed'
  BY DEF Lost, Placed, InBuffer, InTable
<1>2. Lost \cup X \subseteq Lost'
  <2>1. made \in Nat
    BY AuditTypes
  <2>2. 1 .. made \subseteq 1 .. made'
    BY <2>1
  <2> QED BY <1>1, <2>2
<1>3. IsFiniteSet(Lost') /\ Cardinality(Lost') \in Nat
  <2>1. IsFiniteSet(1 .. made') /\ Lost' \in SUBSET (1 .. made')
    BY <1>1, FS_Interval
  <2>2. IsFiniteSet(Lost')
    BY <2>1, FS_Subset
  <2> QED BY <2>2, FS_CardinalityType
<1>4. /\ IsFiniteSet(Lost \cup X)
      /\ Cardinality(Lost \cup X) = Cardinality(Lost) + Cardinality(X) - Cardinality(Lost \cap X)
  BY AuditTypes, FS_Union
<1>5. Lost \cap X = {} /\ Cardinality({}) = 0 /\ Cardinality(X) \in Nat
  BY FS_EmptySet, FS_CardinalityType
<1>6. Cardinality(Lost \cup X) <= Cardinality(Lost')
  BY <1>2, <1>3, FS_Subset
<1>7. dropped \in Nat /\ Cardinality(Lost) \in Nat /\ dropped <= Cardinality(Lost)
  BY AuditTypes DEF AuditInv, DroppedSound
<1>8. Cardinality(Lost \cup X) = Cardinality(Lost) + Cardinality(X)
  BY <1>4, <1>5, <1>7
<1> QED BY <1>3, <1>5, <1>6, <1>7, <1>8 DEF DroppedSound

LEMMA StillSoundAtRest ==
  ASSUME AuditInv, made' = made, dropped' = dropped, Placed' \subseteq Placed
  PROVE  DroppedSound'
<1>1. made \in Nat /\ dropped \in Nat /\ IsFiniteSet({}) /\ Cardinality({}) = 0
  BY AuditTypes, FS_EmptySet
<1>2. dropped' <= dropped + Cardinality({}) /\ made <= made'
  BY <1>1
<1> QED BY <1>1, <1>2, StillSound

(* What record does with a new delivery.                                   *)
LEMMA RecordStep ==
  ASSUME AuditInv, made < MaxMade, made' = made + 1, record(made + 1),
         UNCHANGED <<table, jan>>,
         retry' \in [Retries -> RetryStates],
         \A q \in Retries : retry'[q].hand = retry[q].hand
                            /\ (retry'[q].pc # "flush" => retry[q].hand = <<>>)
  PROVE  AuditInv'
<1> DEFINE d == made + 1
<1>0. /\ made \in Nat /\ d \in Rows /\ d \notin 1 .. made /\ made' = d
      /\ 1 .. made' = (1 .. made) \cup {d}
      /\ made' \in 0 .. MaxMade
  <2>1. made \in Nat /\ MaxMade \in Nat /\ d \in 1 .. MaxMade /\ made' = d /\ d \in 0 .. MaxMade
    BY AuditTypes
  <2>2. d \notin 1 .. made /\ 1 .. d = (1 .. made) \cup {d}
    BY <2>1
  <2> HIDE DEF d
  <2> QED BY <2>1, <2>2 DEF Rows
<1>1. /\ InTable' = InTable /\ InJan' = InJan /\ \A q \in Retries : InRetry(q)' = InRetry(q)
      /\ Held' = Held
  BY DEF InTable, InJan, InRetry, Held
<1>2. \A e \in InBuffer \cup InTable \cup InJan : e < d
  <2>1. InBuffer \cup InTable \cup InJan \subseteq 1 .. made
    BY DEF AuditInv, Placed, Held, InJan
  <2> QED BY <1>0, <2>1
<1>3. d \notin Placed /\ \A q \in Retries : d \notin InRetry(q)
  <2>1. d \notin Placed
    BY <1>0 DEF AuditInv
  <2> QED BY <2>1 DEF Placed, Held, InRetry
<1>4. ASSUME Len(records) < MaxLen, records' = Append(records, d), UNCHANGED <<dropped, gone>>
      PROVE  AuditInv'
  <2>1. /\ records' \in Seq(Rows) /\ Len(records') = Len(records) + 1 /\ InBuffer' = InBuffer \cup {d}
        /\ Increasing(records')
    BY <1>0, <1>2, <1>4, AuditTypes, OneMoreRow DEF InBuffer, AuditInv, InOrder
  <2>2. Len(records') <= MaxLen
    BY <1>4, <2>1, AuditTypes
  <2>3. AuditTypeOK'
    BY <1>0, <1>4, <2>1, <2>2 DEF AuditInv, AuditTypeOK, RetryStates, Rows
  <2>4. InOrder'
    BY <1>1, <1>2, <2>1 DEF AuditInv, InOrder, InJan, InBuffer
  <2>5. Apart'
    BY <1>1, <1>2, <1>3, <2>1 DEF AuditInv, Apart, Placed, Held, InJan
  <2>6. Placed' = Placed \cup {d}
    BY <1>1, <2>1 DEF Placed
  <2>7. DroppedSound'
    <3>1. IsFiniteSet({}) /\ Cardinality({}) = 0 /\ dropped \in Nat
      BY AuditTypes, FS_EmptySet
    <3>2. Placed' \cap (1 .. made) \subseteq Placed /\ dropped' \in Nat /\ made' \in Nat /\ made <= made'
          /\ dropped' <= dropped + Cardinality({})
      BY <1>0, <1>4, <2>6, <3>1
    <3> QED BY <3>1, <3>2, StillSound
  <2> QED BY <1>0, <2>3, <2>4, <2>5, <2>6, <2>7 DEF AuditInv, Distinct
<1>5. ASSUME dropped' = dropped + 1, gone' = gone \cup {d}, UNCHANGED records PROVE AuditInv'
  <2>1. InBuffer' = InBuffer /\ Placed' = Placed
    BY <1>1, <1>5 DEF InBuffer, Placed
  <2>2. AuditTypeOK'
    <3>1. dropped' \in Nat /\ gone' \subseteq Rows
      BY <1>0, <1>5, AuditTypes DEF AuditInv, AuditTypeOK
    <3> HIDE DEF d
    <3> QED BY <1>0, <1>5, <3>1 DEF AuditInv, AuditTypeOK, RetryStates, Rows
  <2>3. InOrder' /\ Apart'
    BY <1>1, <1>5, <2>1 DEF AuditInv, InOrder, InJan, InBuffer, Apart
  <2>4. DroppedSound'
    <3>1. IsFiniteSet({d}) /\ Cardinality({d}) = 1 /\ dropped \in Nat
      BY AuditTypes, FS_Singleton
    <3>2. {d} \cap Lost = {} /\ {d} \cap Placed' = {}
      BY <1>0, <1>3, <2>1 DEF Lost
    <3>3. dropped' \in Nat /\ dropped' <= dropped + Cardinality({d}) /\ {d} \subseteq 1 .. made' /\ made' \in Nat /\ made <= made'
      BY <1>0, <1>5, <3>1
    <3> HIDE DEF d
    <3> QED BY <2>1, <3>1, <3>2, <3>3, StillSound
  <2> QED BY <1>0, <2>1, <2>2, <2>3, <2>4 DEF AuditInv, Distinct
<1> QED BY <1>4, <1>5 DEF record

(* The janitor puts back what fits, the youngest first.                    *)
LEMMA RequeueStep ==
  ASSUME AuditInv, JanitorRequeue
  PROVE  AuditInv'
<1> DEFINE items == jan.hand
           room == MaxLen - Len(records)
           kept == IF room < Len(items) THEN Newest(items, room) ELSE items
<1>0. /\ made \in Nat /\ MaxLen \in Nat /\ Len(records) \in Nat /\ Len(items) \in Nat /\ dropped \in Nat
      /\ records \in Seq(Rows) /\ items \in Seq(Rows) /\ Len(records) <= MaxLen
      /\ Increasing(records) /\ Increasing(items)
      /\ \A d \in InJan, e \in InBuffer : d < e
  BY AuditTypes DEF AuditInv, AuditTypeOK, InOrder, InJan, InBuffer
<1>1. /\ Requeue(items) /\ UNCHANGED <<made, table, retry>>
      /\ jan' = IdleJanitor /\ jan'.pc = "idle" /\ jan'.hand = <<>>
      /\ InJan' = {} /\ InTable' = InTable /\ \A q \in Retries : InRetry(q)' = InRetry(q)
  BY NoRows DEF JanitorRequeue, IdleJanitor, InJan, InTable, InRetry
<1>2. /\ gone' = gone \cup (ToSet(items) \ ToSet(records'))
      /\ \/ room <= 0 /\ dropped' = dropped + Len(items) /\ UNCHANGED records
         \/ room > 0 /\ dropped' = dropped + (IF room < Len(items) THEN Len(kept) - room ELSE 0)
                     /\ records' = kept \o records
  BY <1>1 DEF Requeue
<1>3. Held \cup InBuffer \subseteq Placed /\ Held' \subseteq Held /\ InJan \subseteq Held
  BY <1>1 DEF Placed, Held, InJan, InRetry
<1>4. jan' \in [pc : {"idle", "flush", "requeue"}, hand : Seq(Rows)]
  BY <1>1, NoRows DEF IdleJanitor
<1>5. ASSUME records' \in Seq(Rows), Len(records') <= MaxLen, dropped' \in Nat, Increasing(records'),
             InBuffer \subseteq InBuffer', InBuffer' \subseteq InBuffer \cup InJan, DroppedSound'
      PROVE  AuditInv'
  <2>1. gone' \subseteq Rows
    BY <1>2, AuditTypes DEF AuditInv, AuditTypeOK, InJan
  <2>2. AuditTypeOK'
    BY <1>1, <1>4, <1>5, <2>1, NoRows, AuditAssumption DEF AuditInv, AuditTypeOK, RetryStates, Rows
  <2>3. InOrder'
    BY <1>1, <1>5, NoRows DEF InOrder, InJan, InBuffer
  <2>4. Apart'
    BY <1>1, <1>5 DEF AuditInv, Apart
  <2>5. Placed' \subseteq 1 .. made'
    BY <1>1, <1>3, <1>5 DEF AuditInv, Placed
  <2> QED BY <1>1, <1>5, <2>2, <2>3, <2>4, <2>5 DEF AuditInv, Distinct
<1>6. CASE room > 0
  <2>1. /\ kept \in Seq(Rows) /\ Len(kept) <= room /\ ToSet(kept) \subseteq InJan /\ Increasing(kept)
        /\ room < Len(items) => Len(kept) = room
    <3>1. CASE room < Len(items)
      <4>1. room \in 0 .. Len(items)
        BY <1>0, <1>6, <3>1
      <4>2. kept = Newest(items, room)
        BY <3>1
      <4>3. /\ Newest(items, room) \in Seq(Rows) /\ Len(Newest(items, room)) = room
            /\ ToSet(Newest(items, room)) \subseteq InJan /\ Increasing(Newest(items, room))
        BY <1>0, <4>1, NewestRows DEF InJan
      <4> QED BY <1>0, <4>2, <4>3
    <3>2. CASE ~(room < Len(items))
      BY <1>0, <3>2 DEF InJan
    <3> QED BY <3>1, <3>2
  <2>2. records' = kept \o records /\ dropped' = dropped
    <3>1. records' = kept \o records /\ dropped' = dropped + (IF room < Len(items) THEN Len(kept) - room ELSE 0)
      BY <1>0, <1>2, <1>6
    <3>2. CASE room < Len(items)
      <4>1. Len(kept) = room /\ room \in Int
        BY <1>0, <2>1, <3>2
      <4>2. dropped' = dropped + (Len(kept) - room)
        BY <3>1, <3>2
      <4> HIDE DEF kept, room
      <4>3. dropped' = dropped
        BY <1>0, <4>1, <4>2
      <4> QED BY <3>1, <4>3
    <3>3. CASE ~(room < Len(items))
      <4>1. dropped' = dropped + 0
        BY <3>1, <3>3
      <4> QED BY <1>0, <3>1, <4>1
    <3> QED BY <3>2, <3>3
  <2> HIDE DEF kept
  <2>3. /\ records' \in Seq(Rows) /\ Len(records') = Len(kept) + Len(records)
        /\ InBuffer' = ToSet(kept) \cup InBuffer /\ Increasing(records')
    BY <1>0, <2>1, <2>2, MoreRows DEF InBuffer
  <2>4. Len(records') <= MaxLen
    BY <1>0, <2>1, <2>3, RowSet
  <2>5. Placed' \subseteq Placed
    BY <1>1, <1>3, <2>1, <2>3 DEF Placed
  <2>6. DroppedSound'
    BY <1>1, <2>2, <2>5, StillSoundAtRest
  <2> QED BY <1>0, <1>5, <2>1, <2>2, <2>3, <2>4, <2>6
<1>7. CASE ~(room > 0)
  <2>1. UNCHANGED records /\ dropped' = dropped + Len(items)
    BY <1>0, <1>2, <1>7
  <2>2. InBuffer' = InBuffer /\ Placed' \subseteq Placed
    BY <1>1, <1>3, <2>1 DEF InBuffer, Placed
  <2>3. IsFiniteSet(InJan) /\ Cardinality(InJan) = Len(items)
    BY <1>0, InOrderDistinct DEF InJan
  <2>4. InJan \cap Lost = {} /\ InJan \subseteq 1 .. made'
    BY <1>1, <1>3 DEF AuditInv, Placed, Lost
  <2>5. InJan \cap Placed' = {}
    <3>1. InJan \cap Held' = {}
      BY <1>1 DEF Held, InJan, InRetry, AuditInv, Apart
    <3> QED BY <1>1, <2>2, <3>1 DEF AuditInv, Apart, Placed
  <2>6. made' \in Nat /\ made <= made' /\ dropped' \in Nat /\ dropped' <= dropped + Cardinality(InJan)
    BY <1>0, <1>1, <2>1, <2>3
  <2>7. DroppedSound'
    BY <2>2, <2>3, <2>4, <2>5, <2>6, StillSound
  <2> QED BY <1>0, <1>5, <2>1, <2>2, <2>6, <2>7
<1> QED BY <1>6, <1>7

(* What a retry holds when q's is replaced by r.                           *)
LEMMA RetryMoved ==
  ASSUME AuditInv, NEW q \in Retries, NEW r \in RetryStates, retry' = [retry EXCEPT ![q] = r]
  PROVE  /\ retry' \in [Retries -> RetryStates]
         /\ \A p \in Retries : retry'[p] = IF p = q THEN r ELSE retry[p]
         /\ \A p \in Retries : InRetry(p)' = IF p = q THEN ToSet(r.hand) ELSE InRetry(p)
BY AuditTypes DEF InRetry

LEMMA JanitorMoves ==
  ASSUME AuditInv, JanitorDrain \/ JanitorFlush \/ JanitorFlushFails
  PROVE  AuditInv'
<1>0. /\ made \in Nat /\ records \in Seq(Rows) /\ table \in Seq(Rows) /\ jan.hand \in Seq(Rows)
      /\ jan.pc = "idle" => InJan = {}
      /\ UNCHANGED <<made, dropped, retry, gone>> /\ \A q \in Retries : InRetry(q)' = InRetry(q)
  BY AuditTypes, NoRows DEF AuditInv, InJan, InRetry, JanitorDrain, JanitorFlush, JanitorFlushFails, Drain, recorder
<1>1. ASSUME UNCHANGED <<records, table>>, jan'.hand = jan.hand,
             jan' \in [pc : {"idle", "flush", "requeue"}, hand : Seq(Rows)],
             jan'.pc = "idle" => jan.hand = <<>>
      PROVE  AuditInv'
  <2>1. InBuffer' = InBuffer /\ InTable' = InTable /\ InJan' = InJan /\ Placed' = Placed
    BY <1>0, <1>1 DEF InBuffer, InTable, InJan, Placed, Held
  <2>2. AuditTypeOK' /\ InOrder'
    BY <1>0, <1>1 DEF AuditInv, AuditTypeOK, Rows, InOrder
  <2>3. DroppedSound'
    BY <1>0, <2>1, StillSoundAtRest
  <2> QED BY <1>0, <1>1, <2>1, <2>2, <2>3 DEF AuditInv, Apart, Distinct
<1>2. ASSUME JanitorFlush PROVE AuditInv'
  <2>1. table' = table \o jan.hand /\ jan' = IdleJanitor /\ jan'.hand = <<>> /\ UNCHANGED records
    BY <1>2 DEF JanitorFlush, FlushWebhookDeliveries, IdleJanitor, recorder
  <2>2. InTable \cap InJan = {} /\ Distinct(jan.hand) /\ Distinct(table)
    BY <1>0, InOrderDistinct DEF AuditInv, Apart, InOrder
  <2>3. table' \in Seq(Rows) /\ InTable' = InTable \cup InJan /\ Distinct(table')
    BY <1>0, <2>1, <2>2, MoreRows DEF InTable, InJan
  <2>4. InJan' = {} /\ InBuffer' = InBuffer
    BY <2>1, NoRows DEF InJan, InBuffer
  <2>5. jan' \in [pc : {"idle", "flush", "requeue"}, hand : Seq(Rows)] /\ Len(jan'.hand) <= MaxLen
    BY <2>1, NoRows, AuditAssumption DEF IdleJanitor
  <2>6. AuditTypeOK'
    BY <1>0, <2>1, <2>3, <2>5 DEF AuditInv, AuditTypeOK, Rows
  <2>7. InOrder' /\ Apart'
    BY <1>0, <2>1, <2>3, <2>4, NoRows DEF AuditInv, InOrder, InJan, InBuffer, Apart
  <2>8. Placed' \subseteq Placed
    BY <1>0, <2>3, <2>4 DEF Placed, Held, InJan, InRetry
  <2>9. DroppedSound'
    BY <1>0, <2>8, StillSoundAtRest
  <2> QED BY <1>0, <2>1, <2>3, <2>6, <2>7, <2>8, <2>9 DEF AuditInv
<1>3. ASSUME JanitorDrain, jan.pc = "idle", Drain, jan' = [pc |-> "flush", hand |-> records] PROVE AuditInv'
  <2>1. records' = <<>> /\ UNCHANGED table /\ jan'.hand = records /\ jan'.pc = "flush"
    BY <1>3 DEF JanitorDrain, Drain
  <2>2. InBuffer' = {} /\ InJan' = InBuffer /\ InTable' = InTable
    BY <2>1, NoRows DEF InBuffer, InJan, InTable
  <2>3. jan' \in [pc : {"idle", "flush", "requeue"}, hand : Seq(Rows)] /\ Len(jan'.hand) <= MaxLen
    BY <1>0, <1>3 DEF AuditInv, AuditTypeOK
  <2>4. AuditTypeOK'
    BY <1>0, <2>1, <2>3, NoRows, AuditAssumption DEF AuditInv, AuditTypeOK, Rows
  <2>5. InOrder' /\ Apart'
    BY <1>0, <2>1, <2>2, NoRows DEF AuditInv, InOrder, InJan, InBuffer, Apart
  <2>6. Placed' \subseteq Placed
    BY <1>0, <2>2 DEF Placed, Held, InJan, InRetry
  <2>7. DroppedSound'
    BY <1>0, <2>6, StillSoundAtRest
  <2> QED BY <1>0, <2>1, <2>4, <2>5, <2>6, <2>7 DEF AuditInv, Distinct
<1>4. ASSUME UNCHANGED <<records, table, jan>> PROVE AuditInv'
  BY <1>1, <1>4 DEF AuditInv, AuditTypeOK
<1>5. ASSUME JanitorFlushFails PROVE AuditInv'
  <2>1. UNCHANGED <<records, table>> /\ jan' = [jan EXCEPT !.pc = "requeue"]
    BY <1>5 DEF JanitorFlushFails, recorder
  <2> QED BY <1>1, <2>1 DEF AuditInv, AuditTypeOK
<1> QED BY <1>2, <1>3, <1>4, <1>5 DEF JanitorDrain, recorder

(* A retry changes its hand, and takes from the buffer or adds to the      *)
(* table no more than that.                                                *)
LEMMA RetryLands ==
  ASSUME AuditInv, NEW q \in Retries, NEW r \in RetryStates, retry' = [retry EXCEPT ![q] = r],
         UNCHANGED <<made, dropped, jan>>,
         Len(r.hand) <= MaxLen, Increasing(r.hand), r.pc # "flush" => r.hand = <<>>,
         records' \in Seq(Rows), Len(records') <= MaxLen, Increasing(records'), InBuffer' \subseteq InBuffer,
         table' \in Seq(Rows), Distinct(table'), gone' \subseteq Rows,
         InTable' \subseteq InTable \cup InRetry(q),
         ToSet(r.hand) \subseteq InBuffer \cup InRetry(q),
         ToSet(r.hand) \cap InBuffer' = {}, ToSet(r.hand) \cap InTable' = {},
         InTable' \cap InBuffer' = {}
  PROVE  AuditInv'
<1>0. InJan' = InJan /\ made \in Nat
  BY AuditTypes DEF InJan
<1>1. /\ retry' \in [Retries -> RetryStates]
      /\ \A p \in Retries : retry'[p] = IF p = q THEN r ELSE retry[p]
      /\ \A p \in Retries : InRetry(p)' = IF p = q THEN ToSet(r.hand) ELSE InRetry(p)
  BY RetryMoved
<1>2. AuditTypeOK'
  BY <1>1 DEF AuditInv, AuditTypeOK, RetryStates, Rows
<1>3. InOrder'
  BY DEF AuditInv, InOrder, InJan, InBuffer
<1>4. Apart'
  BY <1>0, <1>1 DEF AuditInv, Apart
<1>5. Placed' \subseteq Placed
  <2>1. Held' \subseteq Held \cup InBuffer /\ InRetry(q) \subseteq Held
    BY <1>1 DEF Held, InJan, InRetry
  <2> QED BY <2>1 DEF Placed
<1>6. DroppedSound'
  BY <1>5, StillSoundAtRest
<1> QED BY <1>0, <1>1, <1>2, <1>3, <1>4, <1>5, <1>6 DEF AuditInv

LEMMA RetryMoves ==
  ASSUME AuditInv, NEW q \in Retries, RetryDrain(q) \/ RetryFlush(q)
  PROVE  AuditInv'
<1>0. /\ records \in Seq(Rows) /\ table \in Seq(Rows) /\ retry[q].hand \in Seq(Rows)
      /\ UNCHANGED <<made, dropped, jan>>
      /\ Len(records) <= MaxLen /\ Increasing(records) /\ Distinct(table) /\ gone \subseteq Rows
      /\ InBuffer \cap InTable = {} /\ InRetry(q) \cap InBuffer = {} /\ InRetry(q) \cap InTable = {}
      /\ Increasing(retry[q].hand) /\ InRetry(q) \subseteq Rows
  BY AuditTypes DEF AuditInv, AuditTypeOK, InOrder, Apart, RetryDrain, RetryFlush, Drain, recorder
<1>1. /\ IdleRetry \in RetryStates /\ IdleRetry.hand = <<>> /\ IdleRetry.pc = "idle"
      /\ Len(IdleRetry.hand) <= MaxLen /\ Increasing(IdleRetry.hand) /\ ToSet(IdleRetry.hand) = {}
  BY NoRows, AuditAssumption DEF IdleRetry, RetryStates
<1>2. ASSUME retry' = [retry EXCEPT ![q] = IdleRetry], UNCHANGED <<records, table>>, gone' \subseteq Rows
      PROVE  AuditInv'
  <2>1. InBuffer' = InBuffer /\ InTable' = InTable
    BY <1>2 DEF InBuffer, InTable
  <2>2. Increasing(records') /\ Distinct(table')
    BY <1>0, <1>2 DEF Increasing, Distinct
  <2> QED BY <1>0, <1>1, <1>2, <2>1, <2>2, RetryLands
<1>3. ASSUME RetryDrain(q), Drain, retry' = [retry EXCEPT ![q] = [pc |-> "flush", hand |-> records]] PROVE AuditInv'
  <2> DEFINE r == [pc |-> "flush", hand |-> records]
  <2>1. records' = <<>> /\ UNCHANGED <<table, gone>>
    BY <1>3 DEF RetryDrain, Drain
  <2>2. InBuffer' = {} /\ InTable' = InTable
    BY <2>1, NoRows DEF InBuffer, InTable
  <2>3. /\ r \in RetryStates /\ r.pc = "flush" /\ Len(r.hand) <= MaxLen /\ Increasing(r.hand)
        /\ ToSet(r.hand) = InBuffer
    BY <1>0 DEF RetryStates, InBuffer
  <2>4. records' \in Seq(Rows) /\ Len(records') <= MaxLen /\ Increasing(records') /\ Distinct(table')
    BY <1>0, <2>1, NoRows, AuditAssumption DEF Distinct
  <2>5. retry' = [retry EXCEPT ![q] = r]
    BY <1>3
  <2> HIDE DEF r
  <2> QED BY <1>0, <2>1, <2>2, <2>3, <2>4, <2>5, RetryLands
<1>4. ASSUME RetryFlush(q), FlushWebhookDeliveries(retry[q].hand), UNCHANGED gone PROVE AuditInv'
  <2>1. table' = table \o retry[q].hand /\ UNCHANGED records /\ retry' = [retry EXCEPT ![q] = IdleRetry]
    BY <1>4 DEF RetryFlush, FlushWebhookDeliveries, recorder
  <2>2. Distinct(retry[q].hand)
    BY <1>0, InOrderDistinct
  <2>3. table' \in Seq(Rows) /\ InTable' = InTable \cup InRetry(q) /\ Distinct(table')
    BY <1>0, <2>1, <2>2, MoreRows DEF InTable, InRetry
  <2>4. InBuffer' = InBuffer /\ Increasing(records')
    BY <1>0, <2>1 DEF InBuffer, Increasing
  <2> QED BY <1>0, <1>1, <1>4, <2>1, <2>3, <2>4, RetryLands
<1>5. ASSUME RetryFlush(q), gone' = gone \cup ToSet(retry[q].hand), UNCHANGED table PROVE AuditInv'
  <2>1. retry' = [retry EXCEPT ![q] = IdleRetry] /\ UNCHANGED records
    BY <1>5 DEF RetryFlush, recorder
  <2>2. gone' \subseteq Rows
    BY <1>0, <1>5 DEF InRetry
  <2> QED BY <1>2, <1>5, <2>1, <2>2
<1>6. ASSUME RetryDrain(q), retry' = [retry EXCEPT ![q] = IdleRetry], UNCHANGED records PROVE AuditInv'
  <2>1. UNCHANGED table /\ gone' \subseteq Rows
    BY <1>0, <1>6 DEF RetryDrain
  <2> QED BY <1>2, <1>6, <2>1
<1> QED BY <1>3, <1>4, <1>5, <1>6 DEF RetryDrain, RetryFlush, recorder

(* The process dies with its buffer and every hand.                        *)
LEMMA RestartStep ==
  ASSUME AuditInv, AuditRestart
  PROVE  AuditInv'
<1>1. /\ records' = <<>> /\ dropped' = 0 /\ jan' = IdleJanitor /\ retry' = [q \in Retries |-> IdleRetry]
      /\ gone' = gone \cup ToSet(records) \cup Held /\ UNCHANGED <<made, table>>
      /\ jan'.hand = <<>> /\ \A q \in Retries : retry'[q] = IdleRetry /\ retry'[q].hand = <<>>
  BY DEF AuditRestart, IdleJanitor, IdleRetry
<1>2. /\ InBuffer' = {} /\ InJan' = {} /\ InTable' = InTable /\ \A q \in Retries : InRetry(q)' = {}
  BY <1>1, NoRows DEF InBuffer, InJan, InTable, InRetry
<1>3. Placed' \subseteq Placed
  BY <1>2 DEF Placed, Held, InJan, InRetry
<1>4. gone' \subseteq Rows
  <2>1. ToSet(records) \subseteq Rows /\ Held \subseteq Rows /\ gone \subseteq Rows
    BY AuditTypes DEF Held, InBuffer, InJan, InRetry, AuditInv, AuditTypeOK
  <2> QED BY <1>1, <2>1
<1>5. AuditTypeOK'
  BY <1>1, <1>4, NoRows, AuditAssumption DEF AuditInv, AuditTypeOK, Rows, IdleJanitor, IdleRetry
<1>6. InOrder' /\ Apart'
  BY <1>1, <1>2, NoRows DEF InOrder, InJan, InBuffer, Apart
<1>7. DroppedSound'
  <2>1. /\ made' \in Nat /\ dropped' \in Nat /\ made <= made' /\ dropped \in Nat
        /\ IsFiniteSet({}) /\ Cardinality({}) = 0
    BY <1>1, AuditTypes, FS_EmptySet
  <2>2. dropped' <= dropped + Cardinality({})
    BY <1>1, <2>1
  <2> QED BY <1>3, <2>1, <2>2, StillSound
<1> QED BY <1>1, <1>2, <1>3, <1>5, <1>6, <1>7, NoRows DEF AuditInv, Distinct

LEMMA AuditStep ==
  ASSUME AuditInv, [AuditNext]_auditVars
  PROVE  AuditInv'
<1>0. /\ retry \in [Retries -> RetryStates]
      /\ \A q \in Retries : retry[q].pc # "flush" => retry[q].hand = <<>>
  BY AuditTypes DEF AuditInv
<1>1. CASE Dispatch
  <2>1. /\ made < MaxMade /\ made' = made + 1 /\ record(made + 1) /\ UNCHANGED <<table, jan, retry>>
    BY <1>1 DEF Dispatch
  <2> QED BY <1>0, <2>1, RecordStep
<1>2. ASSUME NEW q \in Retries, RetryDispatch(q) PROVE AuditInv'
  <2>1. /\ made < MaxMade /\ made' = made + 1 /\ record(made + 1) /\ UNCHANGED <<table, jan>>
        /\ retry[q].pc = "idle" /\ retry' = [retry EXCEPT ![q].pc = "drain"]
    BY <1>2 DEF RetryDispatch
  <2>2. /\ retry' \in [Retries -> RetryStates]
        /\ \A p \in Retries : retry'[p].hand = retry[p].hand /\ (retry'[p].pc # "flush" => retry[p].hand = <<>>)
    BY <1>0, <2>1 DEF RetryStates
  <2> QED BY <2>1, <2>2, RecordStep
<1>3. ASSUME NEW q \in Retries, RetryStep(q) PROVE AuditInv'
  BY <1>3, RetryMoves DEF RetryStep
<1>4. CASE JanitorStep
  BY <1>4, JanitorMoves, RequeueStep DEF JanitorStep
<1>5. CASE AuditRestart
  BY <1>5, RestartStep
<1>6. CASE UNCHANGED auditVars
  <2>1. /\ made' = made /\ records' = records /\ dropped' = dropped /\ table' = table /\ jan' = jan
        /\ retry' = retry /\ gone' = gone
    BY <1>6 DEF auditVars
  <2>2. Placed' = Placed /\ Held' = Held /\ Lost' = Lost
    BY <2>1 DEF Placed, InBuffer, InTable, Held, Lost
  <2>3. DroppedSound' /\ AuditTypeOK' /\ InOrder' /\ Apart'
    BY <2>1, <2>2 DEF AuditInv, DroppedSound, AuditTypeOK, InOrder, Apart, InBuffer, InTable, InJan, InRetry
  <2> QED BY <2>1, <2>2, <2>3 DEF AuditInv, Distinct
<1> QED BY <1>1, <1>2, <1>3, <1>4, <1>5, <1>6 DEF AuditNext

LEMMA AuditInvHolds == AuditSpec => []AuditInv
<1>1. AuditInv /\ [AuditNext]_auditVars => AuditInv'
  BY AuditStep
<1> QED BY <1>1, AuditInitInv, PTL DEF AuditSpec

(* The buffer never outgrows its capacity, every hand holds a buffer's     *)
(* worth of rows at most, and every row is a delivery that was made        *)
(* (record, Drain and Requeue, whoever calls them).                        *)
THEOREM AuditTyped == AuditSpec => []AuditTypeOK
<1>1. AuditInv => AuditTypeOK
  BY DEF AuditInv
<1> QED BY <1>1, AuditInvHolds, PTL

(* However many retries drain beside the janitor, and however often its    *)
(* flush fails, the buffer stays in the order of the deliveries and no     *)
(* delivery is written twice, or both written and still buffered.          *)
THEOREM OnceInOrderAlways == AuditSpec => []OnceInOrder
<1>1. AuditInv => OnceInOrder
  <2> SUFFICES ASSUME AuditInv PROVE OnceInOrder
    OBVIOUS
  <2>1. Apart /\ Distinct(table) /\ InOrder
    BY DEF AuditInv
  <2>2. Held = InJan \cup UNION {InRetry(q) : q \in Retries}
    BY DEF Held, InJan, InRetry
  <2>3. Held \cap (InBuffer \cup InTable) = {}
    BY <2>1, <2>2 DEF Apart
  <2> QED BY <2>1, <2>3 DEF OnceInOrder, EachOnce, Apart, Distinct, InBuffer, InTable, InJan, InRetry
<1> QED BY <1>1, AuditInvHolds, PTL

(* The counter the operator reads as lost rows never counts one that is    *)
(* buffered, in some caller's hands or written (record, Requeue).          *)
THEOREM DroppedNeverOverstated == AuditSpec => []DroppedSound
<1>1. AuditInv => DroppedSound
  BY DEF AuditInv
<1> QED BY <1>1, AuditInvHolds, PTL

-----------------------------------------------------------------------------
(***************************************************************************)
(* What holds of Delivery for any channels, numbers of incidents and of    *)
(* retries, and for any buttons pressed at any time.                       *)
(*                                                                         *)
(* A page is only under way while p.mu keeps its incident open, and its    *)
(* notices are of incidents that stay resolved: Underway, by which nothing *)
(* is sent after the notice that could reopen it, so that only a request   *)
(* given up on before can come after it (LastWord).  FanInv                *)
(* counts: what a page still has to do, plus the rows and the answers      *)
(* there are already, is what is owed to each channel that is configured.  *)
(***************************************************************************)
AuditRows == [user : {0, Owner}, id : Known, channel : Audited, status : Answers, ok : BOOLEAN]
AllButtons == UNION {BuildIncidentButtons(i, s) : i \in Known, s \in Secrets}
Messages == [event : {"created", "resolved"}, id : Known, late : BOOLEAN, buttons : SUBSET AllButtons]

Incident == [st : {"none", "open", "resolved"}, acked : BOOLEAN, snoozed : BOOLEAN]
PageStates == [id : Known \cup {""}, todo : Seq(Channels), tries : 0 .. maxRetries]
Notices == [id : Known, channel : Told, tries : 0 .. maxRetries]

DelivTyped ==
  /\ conf \in Confs /\ secret \in Secrets
  /\ incident \in [Known -> Incident]
  /\ page \in PageStates
  /\ page.id = "" => page = NoPage
  /\ notice \subseteq Notices
  /\ audit \in Seq(AuditRows)
  /\ begun \in [Known -> Nat] /\ done \in [Known -> Nat] /\ cut \in [Known -> Nat]
  /\ taken \in [Audited -> [Known -> Nat]]
  /\ posts \in Nat

(* A request given up on is one the server made.                           *)
Abandoned(r) == r.channel \in Told /\ r.message \in Messages

MailTyped ==
  /\ inbox \in [Told -> Seq(Messages)]
  /\ \A r \in late : Abandoned(r)

(* A message is about an incident there is among these rows, a notice of   *)
(* its end about one that has ended; its buttons are about the same.       *)
IsSo(m, rows) ==
  /\ rows[m.id].st # "none"
  /\ m.event = "resolved" => rows[m.id].st = "resolved"
  /\ \A b \in m.buttons : b.id = m.id

(* So with what was acted on, and with what still may be.                  *)
Heard ==
  /\ \A c \in Told : \A k \in 1 .. Len(inbox[c]) : IsSo(inbox[c][k], incident)
  /\ \A r \in late : IsSo(r.message, incident)

(* RecoveryLast, index by index.                                           *)
LastWord ==
  \A c \in Told : \A i, j \in 1 .. Len(inbox[c]) :
    i < j /\ inbox[c][i].id = inbox[c][j].id
      => (inbox[c][i].event = "resolved" /\ inbox[c][j].event = "created" => inbox[c][j].late)

Mail == MailTyped /\ Heard /\ LastWord

(* A page is about an open incident, since p.mu is held; whatever has a    *)
(* notice of its end has ended.                                            *)
Underway ==
  /\ page.id # "" => incident[page.id].st = "open"
  /\ \A g \in notice : incident[g.id].st = "resolved"
  /\ page.id # "" /\ pressed # NotPressed => pressed.button.by # secret

DelivInv == DelivTyped /\ Mail /\ Underway

-----------------------------------------------------------------------------
LEMMA ShorterSeq ==
  ASSUME NEW S, NEW s \in Seq(S), s # <<>>
  PROVE  /\ Head(s) \in ToSet(s) /\ Head(s) \in S /\ Tail(s) \in Seq(S)
         /\ ToSet(Tail(s)) \subseteq ToSet(s)
         /\ Distinct(s) => Distinct(Tail(s)) /\ ToSet(Tail(s)) = ToSet(s) \ {Head(s)}
<1>1. /\ Len(s) \in Nat /\ Len(s) >= 1 /\ Tail(s) \in Seq(S) /\ Len(Tail(s)) = Len(s) - 1
      /\ \A i \in 1 .. Len(Tail(s)) : Tail(s)[i] = s[i + 1]
      /\ Head(s) = s[1] /\ Head(s) \in S
  BY LenProperties, EmptySeq, HeadTailProperties
<1>2. /\ ToSet(s) = {s[i] : i \in 1 .. Len(s)}
      /\ ToSet(Tail(s)) = {Tail(s)[i] : i \in 1 .. Len(s) - 1}
  BY <1>1, RowSet
<1>3. \A i \in 1 .. Len(s) - 1 : i + 1 \in 1 .. Len(s) /\ Tail(s)[i] = s[i + 1]
  BY <1>1
<1>4. \A i \in 1 .. Len(s) : i = 1 \/ (i - 1 \in 1 .. Len(s) - 1 /\ Tail(s)[i - 1] = s[i])
  BY <1>1
<1>5. Head(s) \in ToSet(s)
  BY <1>1, <1>2
<1>6. ToSet(Tail(s)) \subseteq ToSet(s)
  BY <1>2, <1>3
<1>7. ToSet(s) \subseteq ToSet(Tail(s)) \cup {Head(s)}
  <2> SUFFICES ASSUME NEW i \in 1 .. Len(s) PROVE s[i] = Head(s) \/ s[i] \in ToSet(Tail(s))
    BY <1>2
  <2>1. CASE i = 1
    BY <1>1, <2>1
  <2>2. CASE i - 1 \in 1 .. Len(s) - 1 /\ Tail(s)[i - 1] = s[i]
    BY <1>2, <2>2
  <2> QED BY <1>4, <2>1, <2>2
<1>8. ASSUME Distinct(s) PROVE Distinct(Tail(s)) /\ Head(s) \notin ToSet(Tail(s))
  <2>1. \A i, j \in 1 .. Len(s) - 1 : Tail(s)[i] = Tail(s)[j] => i + 1 = j + 1
    BY <1>3, <1>8 DEF Distinct
  <2>2. Distinct(Tail(s))
    BY <1>1, <2>1 DEF Distinct
  <2>3. \A i \in 1 .. Len(s) - 1 : Tail(s)[i] # Head(s)
    <3>1. \A i \in 1 .. Len(s) - 1 : s[i + 1] = s[1] => i + 1 = 1
      BY <1>1, <1>3, <1>8 DEF Distinct
    <3> QED BY <1>1, <1>3, <3>1
  <2> QED BY <1>2, <2>2, <2>3
<1> QED BY <1>1, <1>5, <1>6, <1>7, <1>8

LEMMA ConfiguredRight ==
  /\ Configured \in Seq(Channels) /\ Distinct(Configured)
  /\ ToSet(Configured) = {c \in Channels : conf[c] # "none"}
<1>1. ASSUME NEW c \in Channels, NEW s \in Seq(Channels), Distinct(s), c \notin ToSet(s)
      PROVE  /\ s \o OneIfSet(c) \in Seq(Channels) /\ Distinct(s \o OneIfSet(c))
             /\ ToSet(s \o OneIfSet(c)) = ToSet(s) \cup {d \in {c} : conf[d] # "none"}
  <2>1. OneIfSet(c) \in Seq(Channels) /\ Distinct(OneIfSet(c)) /\ ToSet(OneIfSet(c)) = {d \in {c} : conf[d] # "none"}
    <3>1. CASE conf[c] # "none"
      <4>1. OneIfSet(c) = <<c>> /\ <<c>> \in Seq(Channels) /\ Len(<<c>>) = 1 /\ <<c>>[1] = c /\ 1 .. 1 = {1}
        BY <3>1 DEF OneIfSet
      <4>2. ToSet(<<c>>) = {<<c>>[i] : i \in 1 .. 1}
        BY <4>1, RowSet
      <4> QED BY <3>1, <4>1, <4>2 DEF Distinct
    <3>2. CASE ~(conf[c] # "none")
      <4>1. OneIfSet(c) = <<>> /\ <<>> \in Seq(Channels) /\ Len(<<>>) = 0 /\ 1 .. 0 = {}
        BY <3>2, EmptySeq DEF OneIfSet
      <4>2. ToSet(<<>>) = {}
        BY NoRows
      <4> QED BY <3>2, <4>1, <4>2 DEF Distinct
    <3> QED BY <3>1, <3>2
  <2>2. ToSet(s) \cap ToSet(OneIfSet(c)) = {}
    BY <1>1, <2>1
  <2> QED BY <1>1, <2>1, <2>2, MoreRows
<1>2. <<>> \in Seq(Channels) /\ Distinct(<<>>) /\ ToSet(<<>>) = {} /\ <<>> \o OneIfSet("telegram") = OneIfSet("telegram")
  BY EmptySeq, NoRows DEF Distinct, OneIfSet
<1> DEFINE s1 == OneIfSet("telegram")
           s2 == s1 \o OneIfSet("webhook")
           s3 == s2 \o OneIfSet("slack")
           s4 == s3 \o OneIfSet("discord")
<1>3. s1 \in Seq(Channels) /\ Distinct(s1) /\ ToSet(s1) = {d \in {"telegram"} : conf[d] # "none"}
  <2>1. "telegram" \in Channels /\ "telegram" \notin ToSet(<<>>)
    BY <1>2 DEF Channels
  <2> DEFINE s0 == <<>> \o OneIfSet("telegram")
  <2>2. s0 \in Seq(Channels) /\ Distinct(s0) /\ ToSet(s0) = ToSet(<<>>) \cup {d \in {"telegram"} : conf[d] # "none"}
    BY <1>1, <1>2, <2>1
  <2>3. s0 = s1
    BY <1>2
  <2> HIDE DEF s0, s1
  <2> QED BY <1>2, <2>2, <2>3
<1>4. s2 \in Seq(Channels) /\ Distinct(s2) /\ ToSet(s2) = ToSet(s1) \cup {d \in {"webhook"} : conf[d] # "none"}
  <2>1. "webhook" \in Channels /\ "webhook" \notin ToSet(s1)
    BY <1>3 DEF Channels, Audited
  <2> HIDE DEF s1
  <2> QED BY <1>1, <1>3, <2>1
<1>5. s3 \in Seq(Channels) /\ Distinct(s3) /\ ToSet(s3) = ToSet(s2) \cup {d \in {"slack"} : conf[d] # "none"}
  <2>1. "slack" \in Channels /\ "slack" \notin ToSet(s2)
    BY <1>3, <1>4 DEF Channels, Audited
  <2> HIDE DEF s2
  <2> QED BY <1>1, <1>4, <2>1
<1>6. s4 \in Seq(Channels) /\ Distinct(s4) /\ ToSet(s4) = ToSet(s3) \cup {d \in {"discord"} : conf[d] # "none"}
  <2>1. "discord" \in Channels /\ "discord" \notin ToSet(s3)
    BY <1>3, <1>4, <1>5 DEF Channels, Audited
  <2> HIDE DEF s3
  <2> QED BY <1>1, <1>5, <2>1
<1>7. ToSet(s4) = {c \in Channels : conf[c] # "none"}
  BY <1>3, <1>4, <1>5, <1>6 DEF Channels, Audited
<1> QED BY <1>6, <1>7 DEF Configured

(* A channel acts on one more message.                                     *)
Gets(c, m) == inbox' = [inbox EXCEPT ![c] = Append(@, m)]

LEMMA Receives ==
  ASSUME MailTyped, NEW c \in Told, NEW m \in Messages, Gets(c, m)
  PROVE  /\ inbox' \in [Told -> Seq(Messages)]
         /\ \A e \in Told : Len(inbox[e]) \in Nat
         /\ \A e \in Told : \A k \in 1 .. Len(inbox'[e]) :
              \/ k \in 1 .. Len(inbox[e]) /\ inbox'[e][k] = inbox[e][k]
              \/ e = c /\ k = Len(inbox[e]) + 1 /\ inbox'[e][k] = m
<1>1. inbox \in [Told -> Seq(Messages)]
  BY DEF MailTyped
<1>2. /\ inbox' \in [Told -> Seq(Messages)] /\ inbox'[c] = Append(inbox[c], m)
      /\ \A e \in Told : e # c => inbox'[e] = inbox[e]
  <2>1. Append(inbox[c], m) \in Seq(Messages)
    BY <1>1, AppendProperties
  <2> QED BY <1>1, <2>1 DEF Gets
<1>3. \A e \in Told : Len(inbox[e]) \in Nat
  BY <1>1, LenProperties
<1>4. /\ Len(inbox'[c]) = Len(inbox[c]) + 1
      /\ \A i \in 1 .. Len(inbox[c]) : inbox'[c][i] = inbox[c][i]
      /\ inbox'[c][Len(inbox[c]) + 1] = m
  BY <1>1, <1>2, AppendProperties
<1>5. ASSUME NEW e \in Told, NEW k \in 1 .. Len(inbox'[e])
      PROVE  \/ k \in 1 .. Len(inbox[e]) /\ inbox'[e][k] = inbox[e][k]
             \/ e = c /\ k = Len(inbox[e]) + 1 /\ inbox'[e][k] = m
  <2>1. CASE e # c
    BY <1>2, <2>1
  <2>2. CASE e = c
    <3>1. k \in 1 .. Len(inbox[c]) \/ k = Len(inbox[c]) + 1
      BY <1>3, <1>4, <2>2
    <3> QED BY <1>4, <2>2, <3>1
  <2> QED BY <2>1, <2>2
<1> QED BY <1>2, <1>3, <1>5

Evolves ==
  \A i \in Known : /\ incident[i].st # "none" => incident'[i].st # "none"
                   /\ incident[i].st = "resolved" => incident'[i].st = "resolved"

LEMMA InboxTyped ==
  ASSUME MailTyped, NEW c \in Told
  PROVE  /\ Len(inbox[c]) \in Nat
         /\ \A k \in 1 .. Len(inbox[c]) : inbox[c][k].id \in Known
<1>1. inbox[c] \in Seq(Messages)
  BY DEF MailTyped
<1>2. \A k \in 1 .. Len(inbox[c]) : inbox[c][k] \in Messages
  BY <1>1, ElementOfSeq
<1> QED BY <1>1, <1>2, LenProperties DEF Messages

(* What is so of an incident stays so.                                     *)
LEMMA StillSo ==
  ASSUME Evolves, NEW m, m.id \in Known, IsSo(m, incident)
  PROVE  IsSo(m, incident')
BY DEF IsSo, Evolves

LEMMA LateStillSo ==
  ASSUME MailTyped, Heard, Evolves, NEW r \in late
  PROVE  Abandoned(r) /\ IsSo(r.message, incident')
<1>1. Abandoned(r) /\ IsSo(r.message, incident)
  BY DEF MailTyped, Heard
<1>2. r.message.id \in Known
  BY <1>1 DEF Abandoned, Messages
<1> QED BY <1>1, <1>2, StillSo

LEMMA NothingArrives ==
  ASSUME Mail, Evolves, UNCHANGED inbox,
         \A r \in late' : r \in late \/ (Abandoned(r) /\ IsSo(r.message, incident'))
  PROVE  Mail'
<1>1. MailTyped'
  BY DEF Mail, MailTyped
<1>2. \A r \in late' : IsSo(r.message, incident')
  BY LateStillSo DEF Mail
<1>3. ASSUME NEW c \in Told, NEW k \in 1 .. Len(inbox[c]) PROVE IsSo(inbox[c][k], incident')
  BY InboxTyped, StillSo DEF Mail, Heard
<1>4. Heard'
  BY <1>2, <1>3 DEF Heard
<1>5. LastWord'
  BY DEF Mail, LastWord
<1> QED BY <1>1, <1>4, <1>5 DEF Mail

LEMMA NoMail ==
  ASSUME Mail, Evolves, UNCHANGED <<inbox, late>>
  PROVE  Mail'
BY NothingArrives

LEMMA OneArrives ==
  ASSUME Mail, Evolves, late' \subseteq late,
         NEW c \in Told, NEW m \in Messages, Gets(c, m), IsSo(m, incident'),
         m.event = "created" /\ ~m.late => incident[m.id].st # "resolved"
  PROVE  Mail'
<1>1. /\ inbox' \in [Told -> Seq(Messages)]
      /\ \A e \in Told : Len(inbox[e]) \in Nat
      /\ \A e \in Told : \A k \in 1 .. Len(inbox'[e]) :
           \/ k \in 1 .. Len(inbox[e]) /\ inbox'[e][k] = inbox[e][k]
           \/ e = c /\ k = Len(inbox[e]) + 1 /\ inbox'[e][k] = m
  BY Receives DEF Mail
<1>2. MailTyped'
  BY <1>1, LateStillSo DEF Mail, MailTyped
<1>3. ASSUME NEW e \in Told, NEW k \in 1 .. Len(inbox'[e]) PROVE IsSo(inbox'[e][k], incident')
  <2>1. CASE k \in 1 .. Len(inbox[e]) /\ inbox'[e][k] = inbox[e][k]
    <3>1. IsSo(inbox[e][k], incident) /\ inbox[e][k].id \in Known
      BY <2>1, InboxTyped DEF Mail, Heard
    <3>2. IsSo(inbox[e][k], incident')
      BY <3>1, StillSo
    <3> QED BY <2>1, <3>2
  <2>2. CASE inbox'[e][k] = m
    BY <2>2
  <2> QED BY <1>1, <2>1, <2>2
<1>4. \A r \in late' : IsSo(r.message, incident')
  BY LateStillSo DEF Mail
<1>5. Heard'
  BY <1>3, <1>4 DEF Heard
<1>6. ASSUME NEW e \in Told, NEW i \in 1 .. Len(inbox'[e]), NEW j \in 1 .. Len(inbox'[e]), i < j,
             inbox'[e][i].id = inbox'[e][j].id, inbox'[e][i].event = "resolved",
             inbox'[e][j].event = "created"
      PROVE  inbox'[e][j].late
  <2>1. i \in 1 .. Len(inbox[e]) /\ inbox'[e][i] = inbox[e][i]
    <3>1. CASE i = Len(inbox[e]) + 1
      BY <1>1, <1>6, <3>1
    <3> QED BY <1>1, <3>1
  <2>2. CASE j \in 1 .. Len(inbox[e]) /\ inbox'[e][j] = inbox[e][j]
    BY <1>6, <2>1, <2>2 DEF Mail, LastWord
  <2>3. CASE inbox'[e][j] = m
    <3>1. incident[inbox[e][i].id].st = "resolved"
      BY <1>6, <2>1 DEF Mail, Heard, IsSo
    <3>2. m.id = inbox[e][i].id /\ m.event = "created" /\ m.late \in BOOLEAN
      BY <1>6, <2>1, <2>3 DEF Messages
    <3> QED BY <2>3, <3>1, <3>2
  <2> QED BY <1>1, <2>2, <2>3
<1>7. LastWord'
  BY <1>6 DEF LastWord
<1> QED BY <1>2, <1>5, <1>7 DEF Mail

LEMMA MessageTyped ==
  ASSUME DelivTyped, NEW id \in Known, NEW event \in {"created", "resolved"}
  PROVE  /\ Message(event, id) \in Messages
         /\ Message(event, id).id = id /\ Message(event, id).event = event
         /\ Message(event, id).late = FALSE
         /\ \A b \in Message(event, id).buttons : b.id = id
<1>1. secret \in Secrets
  BY DEF DelivTyped
<1>2. BuildIncidentButtons(id, secret) \subseteq AllButtons /\ {} \subseteq AllButtons
  BY <1>1 DEF AllButtons
<1>3. ASSUME NEW b \in BuildIncidentButtons(id, secret) PROVE b.id = id
  <2>1. PICK a \in Actions : b = [does |-> a[1], id |-> id, by |-> secret, data |-> Sign(secret, <<a[1], id>> \o Tail(a))]
    BY DEF BuildIncidentButtons
  <2> QED BY <2>1
<1> QED BY <1>2, <1>3 DEF Message, Messages

(* A POST, whatever becomes of it, of a message that is so.                *)
LEMMA Posted ==
  ASSUME DelivInv, UNCHANGED incident, NEW c \in Told, NEW id \in Known,
         NEW event \in {"created", "resolved"}, NEW acted, Post(c, event, id, acted),
         incident[id].st = IF event = "created" THEN "open" ELSE "resolved"
  PROVE  Mail'
<1> DEFINE m == Message(event, id)
<1>1. /\ m \in Messages /\ m.id = id /\ m.event = event /\ m.late = FALSE
      /\ \A b \in m.buttons : b.id = id
  BY MessageTyped DEF DelivInv
<1>2. Mail /\ Evolves /\ incident' = incident
  BY DEF DelivInv, Evolves
<1>3. CASE inbox' = [inbox EXCEPT ![c] = Append(@, m)] /\ UNCHANGED late
  <2>1. Gets(c, m)
    BY <1>3 DEF Gets
  <2> HIDE DEF m
  <2>2. IsSo(m, incident')
    BY <1>1, <1>2 DEF IsSo
  <2>3. m.event = "created" => incident[m.id].st # "resolved"
    BY <1>1
  <2>4. late' \subseteq late
    BY <1>3
  <2> QED BY <1>1, <1>2, <2>1, <2>2, <2>3, <2>4, OneArrives
<1>4. CASE /\ late' = late \cup {[channel |-> c, message |-> m, nth |-> GivenUp]}
           /\ UNCHANGED inbox
  <2> DEFINE r == [channel |-> c, message |-> m, nth |-> GivenUp]
  <2> HIDE DEF m
  <2>1. IsSo(m, incident')
    BY <1>1, <1>2 DEF IsSo
  <2>2. Abandoned(r) /\ IsSo(r.message, incident')
    BY <1>1, <2>1 DEF Abandoned
  <2> HIDE DEF r
  <2>3. late' = late \cup {r} /\ UNCHANGED inbox
    BY <1>4 DEF r
  <2>4. \A q \in late' : q \in late \/ (Abandoned(q) /\ IsSo(q.message, incident'))
    BY <2>2, <2>3
  <2> QED BY <1>2, <2>3, <2>4, NothingArrives
<1>5. CASE UNCHANGED <<inbox, late>>
  BY <1>2, <1>5, NoMail
<1> QED BY <1>3, <1>4, <1>5 DEF Post

LEMMA KnownNotEmpty == "" \notin Known
<1> DEFINE S == STRING \ {""}
<1>1. Ids \in Seq(S)
  BY DeliveryAssumption
<1>2. "" \notin S
  OBVIOUS
<1> HIDE DEF S
<1>3. ToSet(Ids) \subseteq S
  BY <1>1, RowSet
<1> QED BY <1>2, <1>3 DEF Known

LEMMA Bounds == maxRetries \in Nat /\ 0 \in 0 .. maxRetries
<1>1. maxRetries \in Nat
  BY DeliveryAssumption, Zenon
<1> QED BY <1>1

LEMMA NoPageIs ==
  /\ NoPage.id = "" /\ NoPage.todo = <<>> /\ NoPage.tries = 0
  /\ NoPage \in PageStates
<1>1. NoPage.id = "" /\ NoPage.todo = <<>> /\ NoPage.tries = 0
  BY DEF NoPage
<1>2. <<>> \in Seq(Channels) /\ 0 \in 0 .. maxRetries
  BY EmptySeq, Bounds
<1> QED BY <1>1, <1>2 DEF NoPage, PageStates

LEMMA DelivInitInv == DelivInit => DelivInv
<1> SUFFICES ASSUME DelivInit PROVE DelivInv
  OBVIOUS
<1>1. /\ page = NoPage /\ notice = {} /\ inbox = [c \in Told |-> <<>>] /\ late = {} /\ audit = <<>>
      /\ pressed = NotPressed
      /\ incident = [i \in Known |-> [st |-> "none", acked |-> FALSE, snoozed |-> FALSE]]
      /\ begun = [i \in Known |-> 0] /\ done = begun /\ cut = begun /\ taken = [c \in Audited |-> begun]
      /\ posts = 0 /\ conf \in Confs /\ secret \in Secrets
  BY DEF DelivInit
<1>2. <<>> \in Seq(Messages) /\ <<>> \in Seq(AuditRows) /\ <<>> \in Seq(Channels) /\ Len(<<>>) = 0 /\ 1 .. 0 = {}
  BY EmptySeq
<1>3. page \in PageStates /\ page.id = ""
  BY <1>1, NoPageIs
<1>4. \A c \in Told : inbox[c] = <<>>
  BY <1>1
<1>5. DelivTyped
  BY <1>1, <1>2, <1>3 DEF DelivTyped, Incident
<1>6. Mail
  BY <1>1, <1>2, <1>4 DEF Mail, MailTyped, Heard, LastWord
<1> QED BY <1>1, <1>3, <1>5, <1>6 DEF DelivInv, Underway

(* One channel's turn in a page.                                           *)
LEMMA TurnKept ==
  ASSUME DelivInv, page.todo # <<>>,
         page' \in PageStates, page'.id = page.id,
         UNCHANGED <<conf, secret, incident, notice, begun, done, pressed, cut>>,
         audit' \in Seq(AuditRows), taken' \in [Audited -> [Known -> Nat]], posts' \in Nat,
         \/ UNCHANGED <<inbox, late>>
         \/ \E c \in Told, o \in Fates : Post(c, "created", page.id, o.acted)
  PROVE  DelivInv'
<1>1. page.id \in Known /\ page.id # "" /\ incident[page.id].st = "open"
  BY NoPageIs DEF DelivInv, DelivTyped, Underway, PageStates
<1>2. Evolves
  BY DEF Evolves
<1>3. Mail'
  <2>1. CASE UNCHANGED <<inbox, late>>
    BY <1>2, <2>1, NoMail DEF DelivInv
  <2>2. ASSUME NEW c \in Told, NEW o \in Fates, Post(c, "created", page.id, o.acted) PROVE Mail'
    BY <1>1, <2>2, Posted
  <2> QED BY <2>1, <2>2
<1>4. DelivTyped'
  BY <1>1 DEF DelivInv, DelivTyped
<1>5. Underway'
  BY <1>1 DEF DelivInv, Underway
<1> QED BY <1>3, <1>4, <1>5 DEF DelivInv

RowOf(c, user, status) ==
  [user |-> user, id |-> page.id, channel |-> c, status |-> status, ok |-> status = "success"]

LEMMA RowRecorded ==
  ASSUME DelivInv, page.todo # <<>>, NEW c \in Audited, NEW user \in {0, Owner}, NEW status \in Answers,
         RecordRow(c, user, status)
  PROVE  /\ audit' = Append(audit, RowOf(c, user, status)) /\ audit' \in Seq(AuditRows)
         /\ RowOf(c, user, status) \in AuditRows /\ page.id \in Known
<1>1. page.id \in Known /\ audit \in Seq(AuditRows)
  BY NoPageIs DEF DelivInv, DelivTyped, PageStates
<1>2. RowOf(c, user, status) \in AuditRows
  BY <1>1 DEF AuditRows, RowOf
<1> QED BY <1>1, <1>2, AppendProperties DEF RecordRow, RowOf

LEMMA TakenTyped ==
  ASSUME DelivInv, page.todo # <<>>, NEW c \in Audited, NEW yes,
         taken' = IF yes THEN [taken EXCEPT ![c][page.id] = @ + 1] ELSE taken
  PROVE  taken' \in [Audited -> [Known -> Nat]]
<1>1. page.id \in Known /\ taken \in [Audited -> [Known -> Nat]]
  BY NoPageIs DEF DelivInv, DelivTyped, PageStates
<1>2. taken[c][page.id] + 1 \in Nat
  BY <1>1
<1>3. [taken[c] EXCEPT ![page.id] = taken[c][page.id] + 1] \in [Known -> Nat]
  BY <1>1, <1>2
<1> QED BY <1>1, <1>3

LEMMA TurnMoves ==
  ASSUME DelivInv, page.todo # <<>>, GoOn(Tail(page.todo))
  PROVE  /\ page' \in PageStates
         /\ page'.id = page.id /\ page'.todo = Tail(page.todo) /\ page'.tries = 0
<1>1. page \in PageStates /\ page.todo \in Seq(Channels)
  BY DEF DelivInv, DelivTyped, PageStates
<1>2. Tail(page.todo) \in Seq(Channels)
  BY <1>1, ShorterSeq
<1> QED BY <1>1, <1>2, Bounds DEF GoOn, PageStates

LEMMA TurnStep ==
  ASSUME DelivInv,
         \/ \E o \in Fates : SendTelegram(o) \/ AttemptWebhook(o)
         \/ \E c \in Chats : RefuseChatURL(c) \/ \E heard \in ChatAnswers(c) : dispatchToChannel(c, heard)
  PROVE  DelivInv'
<1>0. /\ page \in PageStates
      /\ audit \in Seq(AuditRows) /\ taken \in [Audited -> [Known -> Nat]] /\ posts \in Nat
  BY DEF DelivInv, DelivTyped
<1>1. ASSUME NEW o \in Fates, SendTelegram(o) PROVE DelivInv'
  <2>1. /\ page.todo # <<>> /\ GoOn(Tail(page.todo)) /\ posts' = posts + 1
        /\ UNCHANGED <<conf, secret, incident, notice, audit, begun, done, taken, pressed, cut>>
        /\ Post("telegram", "created", page.id, o.acted)
    BY <1>1 DEF SendTelegram
  <2>2. "telegram" \in Told
    BY DEF Told
  <2>3. page' \in PageStates /\ page'.id = page.id
    BY <2>1, TurnMoves
  <2> QED BY <1>0, <2>1, <2>2, <2>3, TurnKept
<1>2. ASSUME NEW o \in Fates, AttemptWebhook(o) PROVE DelivInv'
  <2>1. /\ page.todo # <<>> /\ posts' = posts + 1
        /\ UNCHANGED <<conf, secret, incident, notice, begun, done, pressed, cut>>
        /\ Post("webhook", "created", page.id, o.acted)
        /\ taken' = IF o.heard = "success" THEN [taken EXCEPT !["webhook"][page.id] = @ + 1] ELSE taken
        /\ \/ GoOn(Tail(page.todo)) /\ RecordRow("webhook", Owner, o.heard)
           \/ page' = [page EXCEPT !.tries = @ + 1] /\ UNCHANGED audit /\ ~LastTry(page.tries)
    BY <1>2 DEF AttemptWebhook
  <2>2. "webhook" \in Told /\ "webhook" \in Audited /\ o.heard \in Answers /\ Owner \in {0, Owner}
    BY DEF Told, Audited, Fates, Answers
  <2>3. taken' \in [Audited -> [Known -> Nat]]
    BY <2>1, <2>2, TakenTyped
  <2>4. /\ page' \in PageStates /\ page'.id = page.id
        /\ audit' \in Seq(AuditRows)
    <3>1. CASE GoOn(Tail(page.todo)) /\ RecordRow("webhook", Owner, o.heard)
      BY <2>1, <2>2, <3>1, TurnMoves, RowRecorded
    <3>2. CASE page' = [page EXCEPT !.tries = @ + 1] /\ UNCHANGED audit /\ ~LastTry(page.tries)
      <4>1. page.tries \in 0 .. maxRetries /\ page.tries # maxRetries
        BY <1>0, <3>2 DEF LastTry, PageStates
      <4>2. page.tries + 1 \in 0 .. maxRetries
        BY <4>1, Bounds
      <4> QED BY <1>0, <3>2, <4>2 DEF PageStates
    <3> QED BY <2>1, <3>1, <3>2
  <2> QED BY <1>0, <2>1, <2>2, <2>3, <2>4, TurnKept
<1>3. ASSUME NEW c \in Chats, RefuseChatURL(c) PROVE DelivInv'
  <2>1. /\ page.todo # <<>> /\ RecordRow(c, 0, "invalid") /\ GoOn(Tail(page.todo))
        /\ UNCHANGED <<conf, secret, incident, notice, inbox, late, begun, done, taken, posts, pressed, cut>>
    BY <1>3 DEF RefuseChatURL
  <2>2. c \in Audited /\ "invalid" \in Answers /\ 0 \in {0, Owner}
    BY DEF Chats, Audited, Answers
  <2>3. /\ page' \in PageStates /\ page'.id = page.id
        /\ audit' \in Seq(AuditRows)
    BY <2>1, <2>2, TurnMoves, RowRecorded
  <2> QED BY <1>0, <2>1, <2>3, TurnKept
<1>4. ASSUME NEW c \in Chats, NEW heard \in ChatAnswers(c), dispatchToChannel(c, heard) PROVE DelivInv'
  <2>1. /\ page.todo # <<>> /\ RecordRow(c, 0, heard) /\ GoOn(Tail(page.todo)) /\ posts' = posts + 1
        /\ taken' = IF heard = "success" THEN [taken EXCEPT ![c][page.id] = @ + 1] ELSE taken
        /\ UNCHANGED <<conf, secret, incident, notice, inbox, late, begun, done, pressed, cut>>
    BY <1>4 DEF dispatchToChannel
  <2>2. c \in Audited /\ heard \in Answers /\ 0 \in {0, Owner}
    BY DEF Chats, Audited, Answers, ChatAnswers
  <2>3. taken' \in [Audited -> [Known -> Nat]]
    BY <2>1, <2>2, TakenTyped
  <2>4. /\ page' \in PageStates /\ page'.id = page.id
        /\ audit' \in Seq(AuditRows)
    BY <2>1, <2>2, TurnMoves, RowRecorded
  <2> QED BY <1>0, <2>1, <2>3, <2>4, TurnKept
<1> QED BY <1>1, <1>2, <1>3, <1>4

-----------------------------------------------------------------------------
LEMMA OneMoreOf ==
  ASSUME NEW f \in [Known -> Nat], NEW i \in Known
  PROVE  [f EXCEPT ![i] = @ + 1] \in [Known -> Nat]
<1>1. f[i] + 1 \in Nat
  OBVIOUS
<1> QED BY <1>1

LEMMA LeastOf ==
  ASSUME NEW I \in SUBSET Nat, I # {}
  PROVE  Min(I) \in I /\ \A i \in I : Min(I) <= i
<1>1. PICK m \in I : \A i \in I : ~(<<i, m>> \in OpToRel(<, Nat))
  BY NatLessThanWellFounded, WFMin
<1>2. ASSUME NEW i \in I PROVE m <= i
  <2>1. i < m => <<i, m>> \in OpToRel(<, Nat)
    BY DEF OpToRel
  <2>2. ~(i < m)
    BY <1>1, <1>2, <2>1
  <2>3. i \in Nat /\ m \in Nat
    BY <1>2
  <2> QED BY <2>2, <2>3
<1> QED BY <1>2 DEF Min

LEMMA PageStart ==
  ASSUME DelivInv, NEW id \in Known, PageBegins(id)
  PROVE  /\ page' \in PageStates /\ page'.id = id /\ page'.todo = Configured /\ page'.tries = 0
         /\ begun' \in [Known -> Nat] /\ posts' = 0 /\ pressed' = NotPressed
<1>1. begun' \in [Known -> Nat] /\ posts' = 0 /\ pressed' = NotPressed
  BY OneMoreOf DEF DelivInv, DelivTyped, PageBegins
<1>2. /\ page' = [id |-> id, todo |-> Configured, tries |-> 0] /\ Configured \in Seq(Channels)
      /\ id \in Known \cup {""} /\ 0 \in 0 .. maxRetries
  BY ConfiguredRight, Bounds DEF PageBegins
<1>3. page' \in PageStates
  BY <1>2 DEF PageStates
<1> QED BY <1>1, <1>2, <1>3

LEMMA InsertStep ==
  ASSUME DelivInv, Insert
  PROVE  DelivInv' /\ Evolves /\ NextId # 0 /\ Ids[NextId] \in Known
<1> DEFINE id == Ids[NextId]
           I == {i \in 1 .. Len(Ids) : incident[Ids[i]].st = "none"}
<1>0. /\ NextId # 0 /\ Unlocked
      /\ incident' = [incident EXCEPT ![id].st = "open"] /\ PageBegins(id)
      /\ UNCHANGED <<conf, secret, notice, inbox, late, audit, done, taken, cut>>
  BY DEF Insert
<1>1. Len(Ids) \in Nat /\ ToSet(Ids) = {Ids[i] : i \in 1 .. Len(Ids)}
  <2> DEFINE S == STRING \ {""}
  <2>1. Ids \in Seq(S)
    BY DeliveryAssumption
  <2> HIDE DEF S
  <2> QED BY <2>1, RowSet
<1>2. NextId = IF I # {} THEN Min(I) ELSE 0
  BY DEF NextId, SelectInSeq
<1>3. I # {} /\ NextId \in I
  <2>1. I # {} /\ NextId = Min(I)
    BY <1>0, <1>2
  <2>2. I \in SUBSET Nat
    BY <1>1
  <2> HIDE DEF I
  <2> QED BY <2>1, <2>2, LeastOf
<1>4. id \in Known /\ incident[id].st = "none"
  BY <1>1, <1>3 DEF Known
<1> HIDE DEF id
<1>5. /\ incident \in [Known -> Incident] /\ incident' \in [Known -> Incident]
      /\ incident'[id].st = "open" /\ \A i \in Known : i # id => incident'[i] = incident[i]
  <2>1. incident \in [Known -> Incident]
    BY DEF DelivInv, DelivTyped
  <2> QED BY <1>0, <1>4, <2>1 DEF Incident
<1>6. Evolves
  BY <1>4, <1>5 DEF Evolves
<1>7. Mail'
  BY <1>0, <1>6, NoMail DEF DelivInv
<1>8. /\ page' \in PageStates /\ page'.id = id /\ id # ""
      /\ begun' \in [Known -> Nat] /\ posts' = 0 /\ pressed' = NotPressed
  BY <1>0, <1>4, PageStart, KnownNotEmpty
<1>9. DelivTyped'
  BY <1>0, <1>5, <1>7, <1>8 DEF DelivInv, DelivTyped
<1>10. Underway'
  BY <1>0, <1>5, <1>6, <1>8 DEF DelivInv, DelivTyped, Underway, Evolves, Notices
<1> QED BY <1>0, <1>4, <1>6, <1>7, <1>9, <1>10 DEF DelivInv, id

LEMMA AgainStep ==
  ASSUME DelivInv, NEW id \in Known, NotifyAgain(id)
  PROVE  DelivInv'
<1>0. /\ incident[id].st = "open" /\ PageBegins(id)
      /\ UNCHANGED <<conf, secret, incident, notice, inbox, late, audit, done, taken, cut>>
  BY DEF NotifyAgain
<1>1. Evolves
  BY <1>0 DEF Evolves
<1>2. Mail'
  BY <1>0, <1>1, NoMail DEF DelivInv
<1>3. /\ page' \in PageStates /\ page'.id = id /\ id # ""
      /\ begun' \in [Known -> Nat] /\ posts' = 0 /\ pressed' = NotPressed
  BY <1>0, PageStart, KnownNotEmpty
<1>4. DelivTyped'
  BY <1>0, <1>2, <1>3 DEF DelivInv, DelivTyped
<1>5. Underway'
  BY <1>0, <1>3 DEF DelivInv, Underway
<1> QED BY <1>2, <1>4, <1>5 DEF DelivInv

LEMMA ResolvedStep ==
  ASSUME DelivInv, NEW id \in Known, markResolvedAndNotify(id)
  PROVE  DelivInv'
<1> DEFINE more == {[id |-> id, channel |-> c, tries |-> 0] : c \in Told \cap ToSet(Configured)}
<1>0. /\ Unlocked /\ incident' = [incident EXCEPT ![id].st = "resolved"]
      /\ notice' = notice \cup more /\ pressed' = NotPressed
      /\ UNCHANGED <<conf, secret, page, inbox, late, audit, begun, done, taken, posts, cut>>
      /\ page'.id = ""
  BY NoPageIs DEF markResolvedAndNotify, Unlocked
<1>1. more \subseteq Notices /\ \A g \in more : g.id = id
  BY Bounds DEF Notices
<1> HIDE DEF more
<1>2. /\ incident \in [Known -> Incident] /\ incident' \in [Known -> Incident]
      /\ incident'[id].st = "resolved" /\ \A i \in Known : i # id => incident'[i] = incident[i]
  <2>1. incident \in [Known -> Incident]
    BY DEF DelivInv, DelivTyped
  <2> QED BY <1>0, <2>1 DEF Incident
<1>3. Evolves
  BY <1>2 DEF Evolves
<1>4. Mail'
  BY <1>0, <1>3, NoMail DEF DelivInv
<1>5. DelivTyped'
  BY <1>0, <1>1, <1>2, <1>4 DEF DelivInv, DelivTyped
<1>6. Underway'
  BY <1>0, <1>1, <1>2, <1>3 DEF DelivInv, DelivTyped, Underway, Evolves, Notices
<1> QED BY <1>4, <1>5, <1>6 DEF DelivInv

LEMMA NoticeStep ==
  ASSUME DelivInv, NEW o \in Fates, NEW g \in notice, SendNotice(g, o)
  PROVE  DelivInv'
<1>0. /\ g \in Notices /\ incident[g.id].st = "resolved"
      /\ Post(g.channel, "resolved", g.id, o.acted)
      /\ pressed' = NotPressed
      /\ UNCHANGED <<conf, secret, incident, page, audit, begun, done, taken, posts, cut>>
  BY DEF SendNotice, DelivInv, DelivTyped, Underway
<1>1. g.id \in Known /\ g.channel \in Told /\ g.tries \in 0 .. maxRetries
  BY <1>0 DEF Notices
<1>2. notice' \subseteq Notices /\ \A h \in notice' : incident[h.id].st = "resolved"
  <2>1. notice \subseteq Notices /\ \A h \in notice : incident[h.id].st = "resolved"
    BY DEF DelivInv, DelivTyped, Underway
  <2>2. CASE notice' = (notice \ {g}) \cup {}
    BY <2>1, <2>2
  <2>3. CASE notice' = (notice \ {g}) \cup {[g EXCEPT !.tries = @ + 1]} /\ ~LastTry(g.tries)
    <3>1. g.tries + 1 \in 0 .. maxRetries
      BY <1>1, <2>3, Bounds DEF LastTry
    <3>2. [g EXCEPT !.tries = @ + 1] \in Notices /\ [g EXCEPT !.tries = @ + 1].id = g.id
      BY <1>0, <3>1 DEF Notices
    <3> QED BY <1>0, <2>1, <2>3, <3>2
  <2> QED BY <2>2, <2>3 DEF SendNotice
<1>4. Mail'
  BY <1>0, <1>1, Posted
<1>5. DelivTyped'
  BY <1>0, <1>2, <1>4 DEF DelivInv, DelivTyped
<1>6. Underway'
  BY <1>0, <1>2 DEF DelivInv, Underway
<1> QED BY <1>4, <1>5, <1>6 DEF DelivInv

LEMMA LateStep ==
  ASSUME DelivInv, NEW r \in late, ActLate(r)
  PROVE  DelivInv'
<1> DEFINE m == [r.message EXCEPT !.late = TRUE]
<1>0. /\ inbox' = [inbox EXCEPT ![r.channel] = Append(@, m)] /\ late' = late \ {r}
      /\ pressed' = NotPressed
      /\ UNCHANGED <<conf, secret, incident, page, notice, audit, begun, done, taken, posts, cut>>
  BY DEF ActLate
<1>1. Mail /\ Evolves /\ incident' = incident
  BY <1>0 DEF DelivInv, Evolves
<1>2. r.channel \in Told /\ r.message \in Messages /\ IsSo(r.message, incident)
  BY <1>1 DEF Mail, MailTyped, Heard, Abandoned
<1>3. /\ m \in Messages /\ m.late = TRUE /\ m.id = r.message.id /\ m.event = r.message.event
      /\ m.buttons = r.message.buttons
  BY <1>2 DEF Messages
<1>4. Gets(r.channel, m)
  BY <1>0 DEF Gets
<1>5. late' \subseteq late
  BY <1>0
<1> HIDE DEF m
<1>6. IsSo(m, incident')
  BY <1>1, <1>2, <1>3 DEF IsSo
<1>7. Mail'
  BY <1>1, <1>2, <1>3, <1>4, <1>5, <1>6, OneArrives
<1>8. DelivTyped'
  BY <1>0 DEF DelivInv, DelivTyped
<1>9. Underway'
  BY <1>0 DEF DelivInv, Underway
<1> QED BY <1>7, <1>8, <1>9 DEF DelivInv

LEMMA EndStep ==
  ASSUME DelivInv, PageEnds
  PROVE  DelivInv'
<1>0. /\ page.id # "" /\ page' = NoPage /\ done' = [done EXCEPT ![page.id] = @ + 1]
      /\ UNCHANGED <<conf, secret, incident, notice, inbox, late, audit, begun, taken, posts, pressed, cut>>
  BY DEF PageEnds
<1>1. done' \in [Known -> Nat]
  <2>1. page.id \in Known /\ done \in [Known -> Nat]
    BY <1>0 DEF DelivInv, DelivTyped, PageStates
  <2> QED BY <1>0, <2>1, OneMoreOf
<1>2. Evolves
  BY <1>0 DEF Evolves
<1>3. Mail'
  BY <1>0, <1>2, NoMail DEF DelivInv
<1>4. DelivTyped'
  BY <1>0, <1>1, <1>3, NoPageIs DEF DelivInv, DelivTyped
<1>5. Underway'
  BY <1>0, NoPageIs DEF DelivInv, Underway
<1> QED BY <1>3, <1>4, <1>5 DEF DelivInv

LEMMA CrashStep ==
  ASSUME DelivInv, NEW s \in Secrets, DelivRestart(s)
  PROVE  DelivInv'
<1>0. /\ secret' = s /\ page' = NoPage /\ notice' = {} /\ pressed' = NotPressed
      /\ UNCHANGED <<conf, incident, inbox, late, audit, begun, done, taken, posts>>
  BY DEF DelivRestart
<1>1. cut' \in [Known -> Nat]
  <2>1. CASE UNCHANGED cut
    BY <2>1 DEF DelivInv, DelivTyped
  <2>2. CASE ~Unlocked /\ cut' = [cut EXCEPT ![page.id] = @ + 1]
    <3>1. page.id \in Known /\ cut \in [Known -> Nat]
      BY <2>2 DEF DelivInv, DelivTyped, PageStates, Unlocked
    <3> QED BY <2>2, <3>1, OneMoreOf
  <2> QED BY <2>1, <2>2 DEF DelivRestart
<1>2. Evolves
  BY <1>0 DEF Evolves
<1>3. Mail'
  BY <1>0, <1>2, NoMail DEF DelivInv
<1>4. DelivTyped'
  BY <1>0, <1>1, <1>3, NoPageIs DEF DelivInv, DelivTyped
<1>5. Underway'
  BY <1>0, NoPageIs DEF Underway
<1> QED BY <1>3, <1>4, <1>5 DEF DelivInv

-----------------------------------------------------------------------------
(* Buttons.                                                                *)
Body(b) == IF b.does = "snooze" THEN <<"snooze", b.id>> \o <<"1h">> ELSE <<b.does, b.id>>

LEMMA SnoozeBody ==
  ASSUME NEW i
  PROVE  LET s == <<"snooze", i>> \o <<"1h">> IN s[1] = "snooze" /\ s[2] = i /\ Len(s) = 3
<1> DEFINE S == {"snooze", "1h", i}
           s == <<"snooze", i>>
           t == <<"1h">>
<1>1. s \in Seq(S) /\ t \in Seq(S) /\ Len(s) = 2 /\ Len(t) = 1 /\ s[1] = "snooze" /\ s[2] = i
  OBVIOUS
<1> HIDE DEF S, s, t
<1>2. /\ Len(s \o t) = Len(s) + Len(t)
      /\ \A k \in 1 .. Len(s) : (s \o t)[k] = s[k]
  BY <1>1, ConcatProperties
<1>3. (s \o t)[1] = s[1] /\ (s \o t)[2] = s[2] /\ Len(s \o t) = 3
  BY <1>1, <1>2
<1> QED BY <1>1, <1>3 DEF s, t

LEMMA ButtonFacts ==
  ASSUME DelivInv, NEW b \in Buttons
  PROVE  /\ b.id \in Known /\ incident[b.id].st # "none"
         /\ b.does \in {"ack", "resolve", "snooze"}
         /\ b.data = Sign(b.by, Body(b))
<1>1. PICK m \in ToSet(inbox["telegram"]) : b \in m.buttons
  BY DEF Buttons
<1>2. "telegram" \in Told /\ inbox["telegram"] \in Seq(Messages)
  BY DEF Told, DelivInv, Mail, MailTyped
<1>3. PICK k \in 1 .. Len(inbox["telegram"]) : m = inbox["telegram"][k]
  BY <1>2, RowSet
<1>4. m \in Messages /\ incident[m.id].st # "none" /\ b.id = m.id
  <2>1. ToSet(inbox["telegram"]) \subseteq Messages
    BY <1>2, RowSet
  <2> QED BY <1>1, <1>2, <1>3, <2>1 DEF DelivInv, Mail, Heard, IsSo
<1>5. b \in AllButtons /\ m.id \in Known
  BY <1>1, <1>4 DEF Messages
<1>6. PICK i \in Known, s \in Secrets : b \in BuildIncidentButtons(i, s)
  BY <1>5 DEF AllButtons
<1>7. PICK a \in Actions : b = [does |-> a[1], id |-> i, by |-> s, data |-> Sign(s, <<a[1], i>> \o Tail(a))]
  BY <1>6 DEF BuildIncidentButtons
<1>8. CASE a = <<"ack">>
  <2>1. <<"ack", i>> \o Tail(<<"ack">>) = <<"ack", i>>
    OBVIOUS
  <2> QED BY <1>4, <1>5, <1>7, <1>8, <2>1 DEF Body
<1>9. CASE a = <<"resolve">>
  <2>1. <<"resolve", i>> \o Tail(<<"resolve">>) = <<"resolve", i>>
    OBVIOUS
  <2> QED BY <1>4, <1>5, <1>7, <1>9, <2>1 DEF Body
<1>10. CASE a = <<"snooze", "1h">>
  <2>1. Tail(<<"snooze", "1h">>) = <<"1h">>
    OBVIOUS
  <2> QED BY <1>4, <1>5, <1>7, <1>10, <2>1 DEF Body
<1> QED BY <1>8, <1>9, <1>10 DEF Actions

(* A signature is good for the secret it was made with, and the data says  *)
(* what the button is for.                                                 *)
LEMMA DataRight ==
  ASSUME DelivInv, NEW b \in Buttons
  PROVE  /\ VerifyCallbackData(secret, b.data).ok <=> b.by = secret
         /\ VerifyCallbackData(secret, b.data).action = b.does
         /\ b.does # "snooze" => VerifyCallbackData(secret, b.data).id = b.id
         /\ b.does = "snooze" => /\ VerifySnoozeCallback(secret, b.data).id = b.id
                                 /\ VerifySnoozeCallback(secret, b.data).ok <=> b.by = secret
<1>1. /\ b.data.body = Body(b)
      /\ b.data.sig = IF b.by = NoSecret THEN <<>> ELSE <<b.by, Body(b)>>
  <2> DEFINE t == Body(b)
  <2>1. b.data = Sign(b.by, t)
    BY ButtonFacts
  <2> HIDE DEF t
  <2>2. b.data.body = t /\ b.data.sig = IF b.by = NoSecret THEN <<>> ELSE <<b.by, t>>
    BY <2>1 DEF Sign
  <2> QED BY <2>2 DEF t
<1>2. Signed(secret, b.data) <=> b.by = secret
  <2>1. CASE b.by = NoSecret
    BY <1>1, <2>1 DEF Signed
  <2>2. CASE b.by # NoSecret
    <3>1. <<b.by, Body(b)>> # <<>>
      OBVIOUS
    <3>2. <<b.by, Body(b)>> = <<secret, Body(b)>> <=> b.by = secret
      OBVIOUS
    <3> QED BY <1>1, <2>2, <3>1, <3>2 DEF Signed
  <2> QED BY <2>1, <2>2
<1>3. Body(b)[1] = b.does
  BY SnoozeBody DEF Body
<1>4. b.does # "snooze" => Last(Body(b)) = b.id
  BY DEF Body, Last
<1>5. b.does = "snooze" => Body(b)[2] = b.id /\ Len(Body(b)) = 3
  BY SnoozeBody DEF Body
<1> QED BY <1>1, <1>2, <1>3, <1>4, <1>5 DEF VerifyCallbackData, VerifySnoozeCallback

(* What a press makes of the incident is what its button says.             *)
PressedRight(b) ==
  /\ \A i \in Known \ {b.id} : incident'[i] = incident[i]
  /\ b.by # secret => UNCHANGED incident
  /\ b.by = secret /\ incident[b.id].st = "open" => incident'[b.id] = Labelled(b, incident[b.id])

LEMMA RowChanged ==
  ASSUME incident \in [Known -> Incident], NEW i \in Known, NEW r \in Incident,
         incident' = [incident EXCEPT ![i] = r], r.st # "none", incident[i].st = "resolved" => r.st = "resolved"
  PROVE  /\ incident' \in [Known -> Incident] /\ Evolves /\ incident'[i] = r
         /\ \A j \in Known \ {i} : incident'[j] = incident[j]
<1>1. /\ incident' \in [Known -> Incident] /\ incident'[i] = r
      /\ \A j \in Known \ {i} : incident'[j] = incident[j]
  OBVIOUS
<1> QED BY <1>1 DEF Evolves

LEMMA PressRight ==
  ASSUME DelivInv, NEW b \in Buttons, PressForbidden(b) \/ PressAck(b) \/ PressResolve(b) \/ PressSnooze(b)
  PROVE  /\ PressedRight(b) /\ pressed'.button = b /\ Evolves /\ incident' \in [Known -> Incident]
         /\ page.id = "" \/ b.by # secret
         /\ UNCHANGED <<conf, secret, page, notice, inbox, late, audit, begun, done, taken, posts, cut>>
<1> DEFINE row == incident[b.id]
<1>0. /\ incident \in [Known -> Incident] /\ b.id \in Known /\ row.st # "none"
      /\ b.does \in {"ack", "resolve", "snooze"} /\ row \in Incident
  BY ButtonFacts DEF DelivInv, DelivTyped
<1>1. CASE PressForbidden(b)
  BY <1>0, <1>1, DataRight DEF PressForbidden, Pressed, PressedRight, Evolves
<1>2. ASSUME NEW r \in Incident, Unlocked, b.by = secret, pressed'.button = b,
             incident' = [incident EXCEPT ![b.id] = r], r.st # "none", row.st = "resolved" => r.st = "resolved",
             row.st = "open" => r = Labelled(b, row),
             UNCHANGED <<conf, secret, page, notice, inbox, late, audit, begun, done, taken, posts, cut>>
      PROVE  /\ PressedRight(b) /\ pressed'.button = b /\ Evolves /\ incident' \in [Known -> Incident]
             /\ page.id = "" \/ b.by # secret
  <2>1. page.id = ""
    BY <1>2, NoPageIs DEF Unlocked
  <2>2. /\ incident' \in [Known -> Incident] /\ Evolves /\ incident'[b.id] = r
        /\ \A j \in Known \ {b.id} : incident'[j] = incident[j]
    BY <1>0, <1>2, RowChanged
  <2> QED BY <1>2, <2>1, <2>2 DEF PressedRight
<1>3. row = [row EXCEPT !.st = row.st] /\ incident = [incident EXCEPT ![b.id] = row]
  BY <1>0 DEF Incident
<1>4. CASE PressAck(b)
  <2>1. /\ Unlocked /\ b.by = secret /\ b.does = "ack" /\ VerifyCallbackData(secret, b.data).id = b.id
    BY <1>4, DataRight DEF PressAck, PressVerified
  <2>2. /\ pressed'.button = b
        /\ UNCHANGED <<conf, secret, page, notice, inbox, late, audit, begun, done, taken, posts, cut>>
        /\ \/ row.st = "open" /\ incident' = [incident EXCEPT ![b.id].acked = TRUE]
           \/ ~(row.st = "open" /\ ~row.acked) /\ UNCHANGED incident
    BY <1>0, <1>4, <2>1 DEF PressAck, Pressed
  <2>3. Labelled(b, row) = [row EXCEPT !.acked = TRUE]
    BY <2>1 DEF Labelled
  <2>4. /\ [row EXCEPT !.acked = TRUE] \in Incident /\ [row EXCEPT !.acked = TRUE].st = row.st
        /\ row.acked => [row EXCEPT !.acked = TRUE] = row
    BY <1>0 DEF Incident
  <2>5. CASE incident' = [incident EXCEPT ![b.id].acked = TRUE]
    <3>1. incident' = [incident EXCEPT ![b.id] = [row EXCEPT !.acked = TRUE]]
      BY <2>5
    <3> HIDE DEF row
    <3> QED BY <1>0, <1>2, <2>1, <2>2, <2>3, <2>4, <3>1
  <2>6. CASE ~(row.st = "open" /\ ~row.acked) /\ UNCHANGED incident
    <3>1. incident' = [incident EXCEPT ![b.id] = row] /\ (row.st = "open" => row = Labelled(b, row))
      BY <1>3, <2>3, <2>4, <2>6
    <3> HIDE DEF row
    <3> QED BY <1>0, <1>2, <2>1, <2>2, <3>1
  <2> QED BY <2>2, <2>5, <2>6
<1>5. CASE PressResolve(b)
  <2>1. /\ Unlocked /\ b.by = secret /\ b.does = "resolve" /\ VerifyCallbackData(secret, b.data).id = b.id
    BY <1>5, DataRight DEF PressResolve, PressVerified
  <2>2. /\ pressed'.button = b
        /\ UNCHANGED <<conf, secret, page, notice, inbox, late, audit, begun, done, taken, posts, cut>>
        /\ incident' = [incident EXCEPT ![b.id] = [row EXCEPT !.st = "resolved"]]
    BY <1>5, <2>1 DEF PressResolve, Pressed
  <2>3. Labelled(b, row) = [row EXCEPT !.st = "resolved"]
    BY <2>1 DEF Labelled
  <2>4. [row EXCEPT !.st = "resolved"] \in Incident /\ [row EXCEPT !.st = "resolved"].st = "resolved"
    BY <1>0 DEF Incident
  <2> HIDE DEF row
  <2> QED BY <1>0, <1>2, <2>1, <2>2, <2>3, <2>4
<1>6. CASE PressSnooze(b)
  <2>1. Unlocked /\ b.by = secret /\ b.does = "snooze"
    BY <1>6, DataRight DEF PressSnooze, PressVerified
  <2>2. VerifySnoozeCallback(secret, b.data).id = b.id /\ VerifySnoozeCallback(secret, b.data).ok
    BY <2>1, DataRight
  <2>3. /\ pressed'.button = b
        /\ UNCHANGED <<conf, secret, page, notice, inbox, late, audit, begun, done, taken, posts, cut>>
        /\ \/ incident' = [incident EXCEPT ![b.id].snoozed = TRUE]
           \/ ~(row.st = "open") /\ UNCHANGED incident
    BY <1>0, <1>6, <2>2 DEF PressSnooze, Pressed
  <2>4. Labelled(b, row) = [row EXCEPT !.snoozed = TRUE]
    BY <2>1 DEF Labelled
  <2>5. [row EXCEPT !.snoozed = TRUE] \in Incident /\ [row EXCEPT !.snoozed = TRUE].st = row.st
    BY <1>0 DEF Incident
  <2>6. CASE incident' = [incident EXCEPT ![b.id].snoozed = TRUE]
    <3>1. incident' = [incident EXCEPT ![b.id] = [row EXCEPT !.snoozed = TRUE]]
      BY <2>6
    <3> HIDE DEF row
    <3> QED BY <1>0, <1>2, <2>1, <2>3, <2>4, <2>5, <3>1
  <2>7. CASE ~(row.st = "open") /\ UNCHANGED incident
    <3>1. incident' = [incident EXCEPT ![b.id] = row]
      BY <1>3, <2>7
    <3> HIDE DEF row
    <3> QED BY <1>0, <1>2, <2>1, <2>3, <2>7, <3>1
  <2> QED BY <2>3, <2>6, <2>7
<1> QED BY <1>1, <1>4, <1>5, <1>6 DEF PressForbidden, PressAck, PressResolve, PressSnooze, Pressed

LEMMA PressStep ==
  ASSUME DelivInv, NEW b \in Buttons, PressForbidden(b) \/ PressAck(b) \/ PressResolve(b) \/ PressSnooze(b)
  PROVE  DelivInv'
<1>1. /\ pressed'.button = b /\ Evolves /\ incident' \in [Known -> Incident]
      /\ PressedRight(b)
      /\ page.id = "" \/ b.by # secret
      /\ UNCHANGED <<conf, secret, page, notice, inbox, late, audit, begun, done, taken, posts, cut>>
  BY PressRight
<1>2. Mail'
  BY <1>1, NoMail DEF DelivInv
<1>3. DelivTyped'
  BY <1>1, <1>2 DEF DelivInv, DelivTyped
<1>4. Underway'
  <2>1. \A g \in notice : g.id \in Known
    BY DEF DelivInv, DelivTyped, Notices
  <2>2. page.id # "" => incident' = incident
    <3>1. b.by # secret => UNCHANGED incident
      BY <1>1 DEF PressedRight
    <3>2. page.id = "" \/ b.by # secret
      BY <1>1
    <3> QED BY <3>1, <3>2
  <2> QED BY <1>1, <2>1, <2>2 DEF DelivInv, Underway, Evolves
<1> QED BY <1>2, <1>3, <1>4 DEF DelivInv

-----------------------------------------------------------------------------
LEMMA DelivStep ==
  ASSUME DelivInv, [DelivNext]_delivVars
  PROVE  DelivInv'
<1>1. CASE Insert
  BY <1>1, InsertStep
<1>2. ASSUME NEW id \in Known, NotifyAgain(id) \/ markResolvedAndNotify(id) PROVE DelivInv'
  BY <1>2, AgainStep, ResolvedStep
<1>3. ASSUME \/ \E o \in Fates : SendTelegram(o) \/ AttemptWebhook(o)
             \/ \E c \in Chats : RefuseChatURL(c) \/ \E heard \in ChatAnswers(c) : dispatchToChannel(c, heard)
      PROVE  DelivInv'
  BY <1>3, TurnStep
<1>4. ASSUME NEW o \in Fates, NEW g \in notice, SendNotice(g, o) PROVE DelivInv'
  BY <1>4, NoticeStep
<1>9. ASSUME NEW r \in late, ActLate(r) PROVE DelivInv'
  BY <1>9, LateStep
<1>5. CASE PageEnds
  BY <1>5, EndStep
<1>6. ASSUME NEW b \in Buttons, PressForbidden(b) \/ PressAck(b) \/ PressResolve(b) \/ PressSnooze(b) PROVE DelivInv'
  BY <1>6, PressStep
<1>7. ASSUME NEW s \in Secrets, DelivRestart(s) PROVE DelivInv'
  BY <1>7, CrashStep
<1>8. CASE UNCHANGED delivVars
  <2>1. UNCHANGED <<conf, secret, incident, page, notice, inbox, late, audit, begun, done, taken, posts, pressed, cut>>
    BY <1>8 DEF delivVars
  <2>2. DelivTyped'
    BY <2>1 DEF DelivInv, DelivTyped
  <2>3. Mail'
    BY <2>1, NoMail DEF DelivInv, Evolves
  <2>4. Underway'
    BY <2>1 DEF DelivInv, Underway
  <2> QED BY <2>2, <2>3, <2>4 DEF DelivInv
<1> QED BY <1>1, <1>2, <1>3, <1>4, <1>5, <1>6, <1>7, <1>8, <1>9 DEF DelivNext

LEMMA DelivInvHolds == DelivSpec => []DelivInv
<1>1. DelivInv /\ [DelivNext]_delivVars => DelivInv'
  BY DelivStep
<1> QED BY <1>1, DelivInitInv, PTL DEF DelivSpec

(* A channel that has heard that an incident is over hears of it again     *)
(* only through a request its sender had given up on, which reaches it     *)
(* late: a page only goes out while p.mu keeps its incident open, and the  *)
(* notices are of incidents that stay resolved, so whatever is sent after  *)
(* the notice is no page of that incident (notifyAfterCreate,              *)
(* markResolvedAndNotify).                                                 *)
THEOREM RecoveryIsLast == DelivSpec => []RecoveryLast
<1>1. DelivInv => RecoveryLast
  <2> SUFFICES ASSUME DelivInv, NEW c \in Told, NEW i \in DOMAIN inbox[c], NEW j \in DOMAIN inbox[c],
                      i < j, inbox[c][i].id = inbox[c][j].id,
                      inbox[c][i].event = "resolved", inbox[c][j].event = "created"
               PROVE  inbox[c][j].late
    BY DEF RecoveryLast
  <2>1. inbox[c] \in Seq(Messages)
    BY DEF DelivInv, Mail, MailTyped
  <2>2. DOMAIN inbox[c] = 1 .. Len(inbox[c])
    BY <2>1, LenProperties
  <2> QED BY <2>2 DEF DelivInv, Mail, LastWord
<1> QED BY <1>1, DelivInvHolds, PTL

(* Whatever button is pressed, and however old its message is: it does to  *)
(* its own incident what its label says if that is open and the secret     *)
(* still the one it was signed with, and nothing else (the callback        *)
(* handler, VerifyCallbackData, VerifySnoozeCallback).                     *)
THEOREM ButtonsDoWhatTheySay == DelivSpec => PressDoesWhatItSays
<1> DEFINE A == pressed' # NotPressed =>
                  LET b == pressed'.button IN
                    /\ \A i \in Known \ {b.id} : incident'[i] = incident[i]
                    /\ b.by # secret => UNCHANGED incident
                    /\ b.by = secret /\ incident[b.id].st = "open"
                         => incident'[b.id] = Labelled(b, incident[b.id])
<1>1. ASSUME DelivInv, [DelivNext]_delivVars, UNCHANGED delivVars \/ pressed' = NotPressed
      PROVE  [A]_delivVars
  BY <1>1
<1>2. ASSUME DelivInv, page.id # "", UNCHANGED <<incident, pressed>> PROVE A
  BY <1>2 DEF DelivInv, Underway
<1>3. ASSUME DelivInv, NEW b \in Buttons, PressForbidden(b) \/ PressAck(b) \/ PressResolve(b) \/ PressSnooze(b)
      PROVE  A
  BY <1>3, PressRight DEF PressedRight
<1>4. ASSUME DelivInv, DelivNext PROVE A
  <2>1. CASE Insert
    BY <2>1 DEF Insert, PageBegins
  <2>2. ASSUME NEW id \in Known, NotifyAgain(id) \/ markResolvedAndNotify(id) PROVE A
    BY <2>2 DEF NotifyAgain, PageBegins, markResolvedAndNotify
  <2>3. ASSUME page.todo # <<>>, UNCHANGED <<incident, pressed>> PROVE A
    <3>1. page.id # ""
      BY <1>4, <2>3, NoPageIs DEF DelivInv, DelivTyped
    <3> QED BY <1>2, <1>4, <2>3, <3>1
  <2>4. ASSUME NEW o \in Fates, SendTelegram(o) PROVE A
    BY <2>3, <2>4 DEF SendTelegram
  <2>5. ASSUME NEW o \in Fates, AttemptWebhook(o) PROVE A
    BY <2>3, <2>5 DEF AttemptWebhook
  <2>6. ASSUME NEW c \in Chats, RefuseChatURL(c) \/ \E heard \in ChatAnswers(c) : dispatchToChannel(c, heard)
        PROVE  A
    BY <2>3, <2>6 DEF RefuseChatURL, dispatchToChannel
  <2>7. ASSUME NEW o \in Fates, NEW g \in notice, SendNotice(g, o) PROVE A
    BY <2>7 DEF SendNotice
  <2>8. CASE PageEnds
    BY <1>2, <1>4, <2>8 DEF PageEnds
  <2>10. ASSUME NEW r \in late, ActLate(r) PROVE A
    BY <2>10 DEF ActLate
  <2>9. ASSUME NEW s \in Secrets, DelivRestart(s) PROVE A
    BY <2>9 DEF DelivRestart
  <2> QED BY <1>3, <1>4, <2>1, <2>2, <2>4, <2>5, <2>6, <2>7, <2>8, <2>9, <2>10 DEF DelivNext
<1>5. DelivInv /\ [DelivNext]_delivVars => [A]_delivVars
  BY <1>1, <1>4
<1> HIDE DEF A
<1>6. DelivSpec => [][A]_delivVars
  BY <1>5, DelivInvHolds, PTL DEF DelivSpec
<1> QED BY <1>6 DEF A, PressDoesWhatItSays

-----------------------------------------------------------------------------
(* The fan-out.                                                            *)
OkRows(id, c) == {k \in RowsOf(id, c) : audit[k].ok}

Once == {"telegram"} \cup Chats

(* Requests the page may still make with p.mu held, and those it may make  *)
(* in all.                                                                 *)
ToAsk == {c \in Once : conf[c] = "good" /\ c \in ToSet(page.todo)}
ToRetry == IF "webhook" \in ToSet(page.todo) THEN maxRetries + 1 - page.tries ELSE 0
Askable == {c \in Once : conf[c] = "good"}
Retriable == IF conf["webhook"] = "good" THEN maxRetries + 1 ELSE 0

TurnsLeft ==
  /\ Distinct(page.todo) /\ \A c \in ToSet(page.todo) : conf[c] # "none"
  /\ page.tries # 0 => page.todo # <<>> /\ Head(page.todo) = "webhook"

Begun(id) == begun[id] = done[id] + cut[id] + (IF page.id = id THEN 1 ELSE 0)

Audits(id, c) ==
  /\ cut[id] = 0 => Cardinality(RowsOf(id, c)) =
       IF conf[c] = "none" THEN 0
       ELSE done[id] + (IF page.id = id /\ c \notin ToSet(page.todo) THEN 1 ELSE 0)
  /\ Cardinality(OkRows(id, c)) = taken[c][id]

InBudget == posts + Cardinality(ToAsk) + ToRetry <= Cardinality(Askable) + Retriable

FanInv ==
  /\ DelivInv
  /\ TurnsLeft /\ InBudget
  /\ \A id \in Known : Begun(id) /\ \A c \in Audited : Audits(id, c)

LEMMA ConfTyped ==
  ASSUME DelivInv
  PROVE  /\ conf \in [Channels -> {"none", "good", "bad"}]
         /\ conf["telegram"] # "bad" /\ conf["webhook"] # "bad"
<1>1. conf \in Confs
  BY DEF DelivInv, DelivTyped
<1>2. /\ Confs \subseteq [Channels -> {"none", "good", "bad"}]
      /\ \A c \in Confs : c["telegram"] # "bad" /\ c["webhook"] # "bad"
  BY DeliveryAssumption, Zenon
<1> QED BY <1>1, <1>2

LEMMA FewChannels ==
  ASSUME NEW P \in SUBSET Once
  PROVE  IsFiniteSet(P) /\ Cardinality(P) \in Nat
<1>1. IsFiniteSet({"telegram"}) /\ IsFiniteSet({"slack"}) /\ IsFiniteSet({"discord"})
  BY FS_Singleton
<1>2. IsFiniteSet({"slack"} \cup {"discord"})
  BY <1>1, FS_Union
<1>3. IsFiniteSet({"telegram"} \cup ({"slack"} \cup {"discord"}))
  BY <1>1, <1>2, FS_Union
<1>4. Once = {"telegram"} \cup ({"slack"} \cup {"discord"})
  BY DEF Once, Chats
<1> QED BY <1>3, <1>4, FS_Subset, FS_CardinalityType

(* One more row is one more for its incident and channel.                  *)
LEMMA AuditCount ==
  ASSUME DelivInv, NEW r \in AuditRows, audit' = Append(audit, r), NEW id \in Known, NEW c \in Audited
  PROVE  /\ Cardinality(RowsOf(id, c)) \in Nat /\ Cardinality(OkRows(id, c)) \in Nat
         /\ Cardinality(RowsOf(id, c)') = Cardinality(RowsOf(id, c)) + (IF r.id = id /\ r.channel = c THEN 1 ELSE 0)
         /\ Cardinality(OkRows(id, c)') = Cardinality(OkRows(id, c))
                                            + (IF r.id = id /\ r.channel = c /\ r.ok THEN 1 ELSE 0)
<1>1. /\ audit \in Seq(AuditRows) /\ Len(audit) \in Nat /\ Len(audit') = Len(audit) + 1
      /\ \A k \in 1 .. Len(audit) : audit'[k] = audit[k]
      /\ audit'[Len(audit) + 1] = r
  <2>1. audit \in Seq(AuditRows)
    BY DEF DelivInv, DelivTyped
  <2> QED BY <2>1, AppendProperties, LenProperties
<1> DEFINE n == Len(audit) + 1
<1>2. 1 .. Len(audit') = (1 .. Len(audit)) \cup {n} /\ n \notin 1 .. Len(audit)
  BY <1>1
<1>3. IsFiniteSet(RowsOf(id, c)) /\ IsFiniteSet(OkRows(id, c))
  <2>1. IsFiniteSet(1 .. Len(audit)) /\ RowsOf(id, c) \subseteq 1 .. Len(audit) /\ OkRows(id, c) \subseteq 1 .. Len(audit)
    BY <1>1, FS_Interval DEF RowsOf, OkRows
  <2> QED BY <2>1, FS_Subset
<1>4. /\ n \notin RowsOf(id, c) /\ n \notin OkRows(id, c)
      /\ RowsOf(id, c)' = RowsOf(id, c) \cup (IF r.id = id /\ r.channel = c THEN {n} ELSE {})
      /\ OkRows(id, c)' = OkRows(id, c) \cup (IF r.id = id /\ r.channel = c /\ r.ok THEN {n} ELSE {})
  <2> HIDE DEF n
  <2>1. audit'[n] = r
    BY <1>1 DEF n
  <2> QED BY <1>1, <1>2, <2>1 DEF RowsOf, OkRows
<1>5. ASSUME NEW S, IsFiniteSet(S), n \notin S PROVE Cardinality(S) \in Nat /\ Cardinality(S \cup {n}) = Cardinality(S) + 1
  BY <1>5, FS_AddElement, FS_CardinalityType
<1>6. ASSUME NEW S, NEW T, NEW p \in BOOLEAN, IsFiniteSet(S), n \notin S, T = S \cup (IF p THEN {n} ELSE {})
      PROVE  Cardinality(T) = Cardinality(S) + (IF p THEN 1 ELSE 0)
  <2>1. CASE p
    BY <1>5, <1>6, <2>1
  <2>2. CASE ~p
    <3>1. T = S /\ Cardinality(S) \in Nat
      BY <1>5, <1>6, <2>2
    <3> QED BY <2>2, <3>1
  <2> QED BY <2>1, <2>2
<1> HIDE DEF n
<1> DEFINE p == r.id = id /\ r.channel = c
           q == r.id = id /\ r.channel = c /\ r.ok
<1>7. p \in BOOLEAN /\ q \in BOOLEAN
  BY DEF AuditRows
<1>8. RowsOf(id, c)' = RowsOf(id, c) \cup (IF p THEN {n} ELSE {}) /\ OkRows(id, c)' = OkRows(id, c) \cup (IF q THEN {n} ELSE {})
  BY <1>4
<1> HIDE DEF p, q
<1>9. /\ Cardinality(RowsOf(id, c)') = Cardinality(RowsOf(id, c)) + (IF p THEN 1 ELSE 0)
      /\ Cardinality(OkRows(id, c)') = Cardinality(OkRows(id, c)) + (IF q THEN 1 ELSE 0)
  BY <1>3, <1>4, <1>6, <1>7, <1>8
<1>10. Cardinality(RowsOf(id, c)) \in Nat /\ Cardinality(OkRows(id, c)) \in Nat
  BY <1>3, FS_CardinalityType
<1> QED BY <1>9, <1>10 DEF p, q

LEMMA TurnOver ==
  ASSUME FanInv, page.todo # <<>>, GoOn(Tail(page.todo)), UNCHANGED conf
  PROVE  /\ page.id \in Known /\ page'.id = page.id /\ page'.tries = 0
         /\ Head(page.todo) \in ToSet(page.todo) /\ Head(page.todo) \in Channels
         /\ conf[Head(page.todo)] # "none"
         /\ ToSet(page'.todo) = ToSet(page.todo) \ {Head(page.todo)}
         /\ TurnsLeft'
<1>1. DelivInv /\ page \in PageStates /\ page.todo \in Seq(Channels)
  BY DEF FanInv, DelivInv, DelivTyped, PageStates
<1>2. page'.id = page.id /\ page'.todo = Tail(page.todo) /\ page'.tries = 0
  BY <1>1, TurnMoves
<1>3. page.id \in Known
  BY <1>1, NoPageIs DEF DelivInv, DelivTyped, PageStates
<1>4. Distinct(page.todo) /\ \A c \in ToSet(page.todo) : conf[c] # "none"
  BY DEF FanInv, TurnsLeft
<1>5. /\ Head(page.todo) \in ToSet(page.todo) /\ Head(page.todo) \in Channels
      /\ Distinct(page'.todo) /\ ToSet(page'.todo) = ToSet(page.todo) \ {Head(page.todo)}
  BY <1>1, <1>2, <1>4, ShorterSeq
<1>6. TurnsLeft'
  BY <1>2, <1>4, <1>5 DEF TurnsLeft
<1> QED BY <1>2, <1>3, <1>4, <1>5, <1>6

(* The turn of a channel whose answer is recorded: one row of it for the   *)
(* page's incident, successful if the channel took the page.               *)
LEMMA TurnAudited ==
  ASSUME FanInv, page.todo # <<>>, GoOn(Tail(page.todo)), UNCHANGED <<conf, begun, done, cut>>,
         NEW c \in Audited, c = Head(page.todo), NEW user \in {0, Owner}, NEW status \in Answers,
         RecordRow(c, user, status),
         taken' = IF status = "success" THEN [taken EXCEPT ![c][page.id] = @ + 1] ELSE taken,
         NEW id \in Known
  PROVE  Begun(id)' /\ \A d \in Audited : Audits(id, d)'
<1>1. /\ page.id \in Known /\ page'.id = page.id /\ c \in ToSet(page.todo) /\ conf[c] # "none"
      /\ ToSet(page'.todo) = ToSet(page.todo) \ {c}
  BY TurnOver
<1>2. Begun(id)'
  BY <1>1 DEF FanInv, Begun
<1> DEFINE r == RowOf(c, user, status)
<1>3. /\ DelivInv /\ taken \in [Audited -> [Known -> Nat]] /\ done \in [Known -> Nat]
  BY DEF FanInv, DelivInv, DelivTyped
<1>4. /\ audit' = Append(audit, r) /\ r \in AuditRows
      /\ r.id = page.id /\ r.channel = c /\ r.ok = (status = "success")
  BY <1>3, RowRecorded DEF RowOf
<1> HIDE DEF r
<1>5. ASSUME NEW d \in Audited PROVE Audits(id, d)'
  <2>1. /\ Cardinality(RowsOf(id, d)) \in Nat /\ Cardinality(OkRows(id, d)) \in Nat
        /\ Cardinality(RowsOf(id, d)') = Cardinality(RowsOf(id, d)) + (IF page.id = id /\ c = d THEN 1 ELSE 0)
        /\ Cardinality(OkRows(id, d)') = Cardinality(OkRows(id, d))
              + (IF page.id = id /\ c = d /\ status = "success" THEN 1 ELSE 0)
    <3>1. /\ Cardinality(RowsOf(id, d)) \in Nat /\ Cardinality(OkRows(id, d)) \in Nat
          /\ Cardinality(RowsOf(id, d)') = Cardinality(RowsOf(id, d)) + (IF r.id = id /\ r.channel = d THEN 1 ELSE 0)
          /\ Cardinality(OkRows(id, d)') = Cardinality(OkRows(id, d))
                + (IF r.id = id /\ r.channel = d /\ r.ok THEN 1 ELSE 0)
      BY <1>3, <1>4, <1>5, AuditCount
    <3> QED BY <1>4, <3>1
  <2>2. taken'[d][id] = taken[d][id] + (IF page.id = id /\ c = d /\ status = "success" THEN 1 ELSE 0)
    <3>1. CASE status = "success"
      <4>1. taken' = [taken EXCEPT ![c] = [taken[c] EXCEPT ![page.id] = taken[c][page.id] + 1]]
        BY <3>1
      <4> QED BY <1>1, <1>3, <3>1, <4>1
    <3>2. CASE status # "success"
      BY <1>3, <3>2
    <3> QED BY <3>1, <3>2
  <2>3. Audits(id, d)
    BY DEF FanInv
  <2>4. Cardinality(OkRows(id, d)') = taken'[d][id]
    BY <2>1, <2>2, <2>3 DEF Audits
  <2>5. ASSUME cut[id] = 0
        PROVE  Cardinality(RowsOf(id, d)') =
                 IF conf[d] = "none" THEN 0
                 ELSE done[id] + (IF page.id = id /\ d \notin ToSet(page'.todo) THEN 1 ELSE 0)
    <3>1. done[id] \in Nat
      BY <1>3
    <3>2. Cardinality(RowsOf(id, d)) =
            IF conf[d] = "none" THEN 0
            ELSE done[id] + (IF page.id = id /\ d \notin ToSet(page.todo) THEN 1 ELSE 0)
      BY <2>3, <2>5 DEF Audits
    <3>3. CASE page.id = id /\ c = d
      BY <1>1, <2>1, <3>1, <3>2, <3>3
    <3>4. CASE ~(page.id = id /\ c = d)
      <4>1. Cardinality(RowsOf(id, d)') = Cardinality(RowsOf(id, d))
        BY <2>1, <3>4
      <4>2. page.id = id => (d \in ToSet(page'.todo) <=> d \in ToSet(page.todo))
        BY <1>1, <3>4
      <4> QED BY <3>2, <4>1, <4>2
    <3> QED BY <3>3, <3>4
  <2> QED BY <1>1, <2>4, <2>5 DEF Audits
<1> QED BY <1>2, <1>5

(* A turn uses up no more requests than the page had left for it.          *)
LEMMA TurnPaid ==
  ASSUME FanInv, page.todo # <<>>, GoOn(Tail(page.todo)), UNCHANGED conf,
         posts' = posts + (IF conf[Head(page.todo)] = "good" THEN 1 ELSE 0)
  PROVE  InBudget'
<1> DEFINE c == Head(page.todo)
<1>1. /\ c \in ToSet(page.todo) /\ c \in Channels /\ conf[c] # "none" /\ page'.tries = 0
      /\ ToSet(page'.todo) = ToSet(page.todo) \ {c}
  BY TurnOver
<1>2. posts \in Nat /\ page.tries \in 0 .. maxRetries /\ maxRetries \in Nat
  BY Bounds DEF FanInv, DelivInv, DelivTyped, PageStates
<1>3. /\ posts + Cardinality(ToAsk) + ToRetry <= Cardinality(Askable) + Retriable
      /\ page.tries # 0 => c = "webhook"
  BY DEF FanInv, InBudget, TurnsLeft
<1>4. Askable' = Askable /\ Retriable' = Retriable
  BY DEF Askable, Retriable
<1>5. /\ IsFiniteSet(ToAsk) /\ Cardinality(ToAsk) \in Nat /\ Cardinality(Askable) \in Nat
      /\ Retriable \in Int
  BY <1>2, FewChannels DEF ToAsk, Askable, Retriable
<1> HIDE DEF c
<1>6. CASE c = "webhook"
  <2>1. ToAsk' = ToAsk
    BY <1>1, <1>6 DEF ToAsk, Once, Chats
  <2>2. ToRetry' = 0 /\ ToRetry = maxRetries + 1 - page.tries /\ ToRetry \in Int /\ ToRetry >= 1
    BY <1>1, <1>2, <1>6 DEF ToRetry
  <2>3. posts' <= posts + 1 /\ posts' \in Nat
    BY <1>2 DEF c
  <2> HIDE DEF ToRetry, ToAsk
  <2>4. posts' + Cardinality(ToAsk) + 0 <= Cardinality(Askable) + Retriable
    <3>1. PICK a \in Nat, b \in Int, r \in Int :
            a = Cardinality(ToAsk) /\ b = Cardinality(Askable) + Retriable /\ r = ToRetry
      BY <1>5, <2>2
    <3>2. posts + a + r <= b /\ r >= 1 /\ posts' <= posts + 1 /\ posts \in Nat /\ posts' \in Nat
      BY <1>2, <1>3, <2>2, <2>3, <3>1
    <3>3. posts' + a + 0 <= b
      BY <3>2
    <3> QED BY <3>1, <3>3
  <2> QED BY <1>4, <2>1, <2>2, <2>4 DEF InBudget
<1>7. CASE c # "webhook"
  <2>1. ToRetry' = ToRetry /\ ToRetry \in Int
    BY <1>1, <1>2, <1>3, <1>7 DEF ToRetry
  <2>2. c \in Once
    BY <1>1, <1>7 DEF Once, Chats, Channels, Audited
  <2>3. CASE conf[c] = "good"
    <3>1. ToAsk' = ToAsk \ {c} /\ c \in ToAsk
      BY <1>1, <2>2, <2>3 DEF ToAsk
    <3>2. Cardinality(ToAsk') = Cardinality(ToAsk) - 1
      BY <1>5, <3>1, FS_RemoveElement
    <3>3. posts' = posts + 1
      BY <2>3 DEF c
    <3> HIDE DEF ToRetry, ToAsk
    <3> QED BY <1>2, <1>3, <1>4, <1>5, <2>1, <3>2, <3>3 DEF InBudget
  <2>4. CASE conf[c] # "good"
    <3>1. ToAsk' = ToAsk
      BY <1>1, <2>4 DEF ToAsk
    <3>2. posts' = posts
      BY <1>2, <2>4 DEF c
    <3> QED BY <1>2, <1>3, <1>4, <1>5, <2>1, <3>1, <3>2 DEF InBudget
  <2> QED BY <2>3, <2>4
<1> QED BY <1>6, <1>7

LEMMA FanInit == DelivInit => FanInv
<1> SUFFICES ASSUME DelivInit PROVE FanInv
  OBVIOUS
<1>1. DelivInv
  BY DelivInitInv
<1>2. /\ page = NoPage /\ audit = <<>> /\ posts = 0
      /\ begun = [i \in Known |-> 0] /\ done = begun /\ cut = begun /\ taken = [c \in Audited |-> begun]
  BY DEF DelivInit
<1>3. page.id = "" /\ page.todo = <<>> /\ page.tries = 0 /\ ToSet(<<>>) = {} /\ Len(<<>>) = 0 /\ 1 .. 0 = {}
  <2>1. ToSet(<<>>) = {}
    BY NoRows
  <2>2. Len(<<>>) = 0 /\ 1 .. 0 = {}
    BY EmptySeq
  <2> QED BY <1>2, <2>1, <2>2, NoPageIs
<1>4. TurnsLeft
  BY <1>3 DEF TurnsLeft, Distinct
<1>5. InBudget
  <2>1. ToAsk = {} /\ ToRetry = 0 /\ posts = 0
    BY <1>2, <1>3 DEF ToAsk, ToRetry
  <2>2. Cardinality(ToAsk) = 0
    BY <2>1, FS_EmptySet
  <2>3. Cardinality(Askable) \in Nat
    BY FewChannels DEF Askable
  <2>4. Retriable \in Nat
    BY Bounds DEF Retriable
  <2> QED BY <2>1, <2>2, <2>3, <2>4 DEF InBudget
<1>6. ASSUME NEW id \in Known PROVE Begun(id) /\ \A c \in Audited : Audits(id, c)
  <2>1. page.id # id
    BY <1>3, KnownNotEmpty
  <2>2. ASSUME NEW c \in Audited PROVE Audits(id, c)
    <3>1. RowsOf(id, c) = {} /\ OkRows(id, c) = {}
      BY <1>2, <1>3 DEF RowsOf, OkRows
    <3>2. Cardinality(RowsOf(id, c)) = 0 /\ Cardinality(OkRows(id, c)) = 0
      BY <3>1, FS_EmptySet
    <3> QED BY <1>2, <2>1, <3>2 DEF Audits
  <2>3. Begun(id)
    BY <1>2, <2>1 DEF Begun
  <2> QED BY <2>2, <2>3
<1> QED BY <1>1, <1>4, <1>5, <1>6 DEF FanInv

(* What touches neither the page nor the counts leaves the fan-out alone.  *)
LEMMA FanFrame ==
  ASSUME FanInv, DelivInv', UNCHANGED <<conf, page, audit, begun, done, taken, posts, cut>>
  PROVE  FanInv'
<1>1. TurnsLeft'
  BY DEF FanInv, TurnsLeft
<1>2. InBudget'
  BY DEF FanInv, InBudget, ToAsk, ToRetry, Askable, Retriable
<1>3. ASSUME NEW id \in Known PROVE Begun(id)'
  BY DEF FanInv, Begun
<1>4. ASSUME NEW id \in Known, NEW c \in Audited PROVE Audits(id, c)'
  <2>1. Audits(id, c)
    BY DEF FanInv
  <2> QED BY <2>1 DEF Audits, RowsOf, OkRows
<1> QED BY <1>1, <1>2, <1>3, <1>4 DEF FanInv

LEMMA CountUp ==
  ASSUME NEW f \in [Known -> Nat], NEW k \in Known, NEW i \in Known
  PROVE  [f EXCEPT ![k] = @ + 1][i] = f[i] + (IF k = i THEN 1 ELSE 0) /\ f[i] \in Nat
  OBVIOUS

LEMMA FanStarts ==
  ASSUME FanInv, DelivInv', Unlocked, NEW id \in Known, PageBegins(id), UNCHANGED <<conf, audit, done, taken, cut>>
  PROVE  FanInv'
<1>1. /\ page.id = "" /\ page'.id = id /\ page'.todo = Configured /\ page'.tries = 0 /\ posts' = 0
      /\ DelivInv /\ begun \in [Known -> Nat] /\ begun' = [begun EXCEPT ![id] = @ + 1]
      /\ done \in [Known -> Nat] /\ cut \in [Known -> Nat]
  BY NoPageIs, PageStart DEF FanInv, DelivInv, DelivTyped, Unlocked, PageBegins
<1>2. /\ Distinct(Configured) /\ ToSet(Configured) = {c \in Channels : conf[c] # "none"}
  BY ConfiguredRight
<1>3. TurnsLeft'
  BY <1>1, <1>2 DEF TurnsLeft
<1>4. InBudget'
  <2>1. ToAsk' = Askable
    BY <1>1, <1>2 DEF ToAsk, Askable, Once, Chats, Channels, Audited
  <2>2. ToRetry' = Retriable /\ Retriable \in Nat
    <3>1. conf["webhook"] # "none" <=> conf["webhook"] = "good"
      <4>1. "webhook" \in Channels
        BY DEF Channels, Audited
      <4> QED BY <1>1, <4>1, ConfTyped
    <3>2. "webhook" \in ToSet(page'.todo) <=> conf["webhook"] = "good"
      BY <1>1, <1>2, <3>1 DEF Channels, Audited
    <3>3. maxRetries \in Nat /\ page'.tries = 0 /\ conf' = conf
      BY <1>1, Bounds
    <3>4. Retriable \in Nat
      BY <3>3 DEF Retriable
    <3>5. ToRetry' = Retriable
      BY <3>2, <3>3 DEF ToRetry, Retriable
    <3> QED BY <3>4, <3>5
  <2>3. Askable' = Askable /\ Retriable' = Retriable
    BY DEF Askable, Retriable
  <2>4. Cardinality(Askable) \in Nat
    BY FewChannels DEF Askable
  <2>5. posts' = 0
    BY <1>1
  <2> HIDE DEF ToAsk, ToRetry, Askable, Retriable
  <2> QED BY <2>1, <2>2, <2>3, <2>4, <2>5 DEF InBudget
<1>5. ASSUME NEW i \in Known PROVE Begun(i)' /\ \A c \in Audited : Audits(i, c)'
  <2>1. page.id # i
    BY <1>1, KnownNotEmpty
  <2>2. Begun(i)'
    <3>1. begun'[i] = begun[i] + (IF id = i THEN 1 ELSE 0) /\ begun[i] \in Nat
      BY <1>1, CountUp
    <3>2. done[i] \in Nat /\ cut[i] \in Nat /\ begun[i] = done[i] + cut[i]
      <4>1. Begun(i)
        BY DEF FanInv
      <4>2. done[i] \in Nat /\ cut[i] \in Nat
        BY <1>1
      <4> QED BY <2>1, <4>1, <4>2 DEF Begun
    <3> QED BY <1>1, <3>1, <3>2 DEF Begun
  <2>3. ASSUME NEW c \in Audited PROVE Audits(i, c)'
    <3>1. Audits(i, c) /\ RowsOf(i, c)' = RowsOf(i, c) /\ OkRows(i, c)' = OkRows(i, c)
      BY DEF FanInv, RowsOf, OkRows
    <3>2. conf[c] # "none" => c \in ToSet(page'.todo)
      BY <1>1, <1>2 DEF Channels
    <3> QED BY <2>1, <3>1, <3>2 DEF Audits
  <2> QED BY <2>2, <2>3
<1> QED BY <1>3, <1>4, <1>5 DEF FanInv

LEMMA FanEnds ==
  ASSUME FanInv, DelivInv', PageEnds
  PROVE  FanInv'
<1>1. /\ page.id # "" /\ page.todo = <<>> /\ page' = NoPage
      /\ done' = [done EXCEPT ![page.id] = @ + 1]
      /\ UNCHANGED <<conf, audit, begun, taken, posts, cut>>
  BY DEF PageEnds
<1>2. page'.id = "" /\ page'.todo = <<>> /\ page'.tries = 0
  BY <1>1, NoPageIs
<1>3. page.id \in Known /\ done \in [Known -> Nat] /\ cut \in [Known -> Nat] /\ begun \in [Known -> Nat]
  BY <1>1 DEF FanInv, DelivInv, DelivTyped, PageStates
<1>4. TurnsLeft'
  BY <1>1, <1>2 DEF FanInv, TurnsLeft
<1>5. InBudget'
  <2>1. ToSet(page.todo) = {} /\ ToSet(page'.todo) = {}
    BY <1>1, <1>2, NoRows
  <2> QED BY <1>1, <2>1 DEF FanInv, InBudget, ToAsk, ToRetry, Askable, Retriable
<1>6. ASSUME NEW i \in Known PROVE Begun(i)' /\ \A c \in Audited : Audits(i, c)'
  <2>1. page'.id # i
    BY <1>2, KnownNotEmpty
  <2>2. done'[i] = done[i] + (IF page.id = i THEN 1 ELSE 0) /\ done[i] \in Nat
    BY <1>1, <1>3, CountUp
  <2>3. Begun(i)'
    <3>1. cut[i] \in Nat /\ begun[i] = done[i] + cut[i] + (IF page.id = i THEN 1 ELSE 0)
      BY <1>3 DEF FanInv, Begun
    <3>2. begun'[i] = begun[i] /\ cut'[i] = cut[i]
      BY <1>1
    <3> QED BY <2>1, <2>2, <3>1, <3>2 DEF Begun
  <2>4. ASSUME NEW c \in Audited PROVE Audits(i, c)'
    <3>1. Audits(i, c) /\ RowsOf(i, c)' = RowsOf(i, c) /\ OkRows(i, c)' = OkRows(i, c)
      BY <1>1 DEF FanInv, RowsOf, OkRows
    <3>2. c \notin ToSet(page.todo)
      BY <1>1, NoRows
    <3>3. conf' = conf /\ taken' = taken /\ cut'[i] = cut[i]
      BY <1>1
    <3>4. Cardinality(OkRows(i, c)') = taken'[c][i]
      BY <3>1, <3>3 DEF Audits
    <3>5. cut[i] = 0 => Cardinality(RowsOf(i, c)) = IF conf[c] = "none" THEN 0 ELSE done'[i]
      BY <2>2, <3>1, <3>2 DEF Audits
    <3>6. done'[i] + 0 = done'[i]
      BY <2>2
    <3> QED BY <2>1, <3>1, <3>3, <3>4, <3>5, <3>6 DEF Audits
  <2> QED BY <2>3, <2>4
<1> QED BY <1>4, <1>5, <1>6 DEF FanInv

(* A restart cuts a page off and counts it; its rows stay.                 *)
LEMMA FanCut ==
  ASSUME FanInv, DelivInv', NEW s \in Secrets, DelivRestart(s)
  PROVE  FanInv'
<1>1. /\ page' = NoPage /\ UNCHANGED <<conf, audit, begun, done, taken, posts>>
      /\ \/ page = NoPage /\ UNCHANGED cut
         \/ page # NoPage /\ cut' = [cut EXCEPT ![page.id] = @ + 1]
  BY DEF DelivRestart, Unlocked
<1>2. page'.id = "" /\ page'.todo = <<>> /\ page'.tries = 0
  BY <1>1, NoPageIs
<1>3. /\ page # NoPage => page.id \in Known
      /\ done \in [Known -> Nat] /\ cut \in [Known -> Nat] /\ begun \in [Known -> Nat] /\ posts \in Nat
      /\ page.tries \in 0 .. maxRetries /\ maxRetries \in Nat
  BY Bounds DEF FanInv, DelivInv, DelivTyped, PageStates
<1>4. TurnsLeft'
  <2>1. Distinct(<<>>) /\ ToSet(<<>>) = {}
    BY NoRows, EmptySeq DEF Distinct
  <2> QED BY <1>2, <2>1 DEF TurnsLeft
<1>5. InBudget'
  <2>1. ToSet(page'.todo) = {}
    BY <1>2, NoRows
  <2>2. ToAsk' = {} /\ ToRetry' = 0 /\ Askable' = Askable /\ Retriable' = Retriable
    BY <1>1, <2>1 DEF ToAsk, ToRetry, Askable, Retriable
  <2>3. Cardinality(ToAsk') = 0 /\ Cardinality(ToAsk) \in Nat /\ Cardinality(Askable) \in Nat
    BY <2>2, FS_EmptySet, FewChannels DEF ToAsk, Askable
  <2>4. ToRetry \in Nat /\ Retriable \in Nat
    BY <1>3 DEF ToRetry, Retriable
  <2>5. posts + Cardinality(ToAsk) + ToRetry <= Cardinality(Askable) + Retriable
    BY DEF FanInv, InBudget
  <2> HIDE DEF ToAsk, ToRetry, Askable, Retriable
  <2> QED BY <1>1, <1>3, <2>2, <2>3, <2>4, <2>5 DEF InBudget
<1>6. ASSUME NEW i \in Known PROVE Begun(i)' /\ \A c \in Audited : Audits(i, c)'
  <2>1. page'.id # i /\ (page = NoPage => page.id # i)
    BY <1>2, KnownNotEmpty, NoPageIs
  <2>2. cut'[i] = cut[i] + (IF page.id = i THEN 1 ELSE 0) /\ cut[i] \in Nat
    BY <1>1, <1>3, <2>1
  <2>3. Begun(i)'
    BY <1>1, <1>3, <2>1, <2>2 DEF FanInv, Begun
  <2>4. ASSUME NEW c \in Audited PROVE Audits(i, c)'
    <3>1. Audits(i, c) /\ RowsOf(i, c)' = RowsOf(i, c) /\ OkRows(i, c)' = OkRows(i, c)
      BY <1>1 DEF FanInv, RowsOf, OkRows
    <3>2. cut'[i] = 0 => cut[i] = 0 /\ page.id # i
      BY <2>2
    <3> QED BY <1>1, <2>1, <3>1, <3>2 DEF Audits
  <2> QED BY <2>3, <2>4
<1> QED BY <1>4, <1>5, <1>6 DEF FanInv

LEMMA FanTurn ==
  ASSUME FanInv, DelivInv',
         \/ \E o \in Fates : SendTelegram(o) \/ AttemptWebhook(o)
         \/ \E c \in Chats : RefuseChatURL(c) \/ \E heard \in ChatAnswers(c) : dispatchToChannel(c, heard)
  PROVE  FanInv'
<1>0. /\ DelivInv /\ page \in PageStates /\ posts \in Nat
      /\ page.todo # <<>> => /\ conf[Head(page.todo)] # "none" /\ Head(page.todo) \in Channels
                            /\ Head(page.todo) \in ToSet(page.todo)
  <2>1. DelivInv /\ page \in PageStates /\ posts \in Nat
    BY DEF FanInv, DelivInv, DelivTyped
  <2>2. page.todo \in Seq(Channels)
    BY <2>1 DEF PageStates
  <2> QED BY <2>1, <2>2, ShorterSeq DEF FanInv, TurnsLeft
<1>1. ASSUME page.todo # <<>>, GoOn(Tail(page.todo)), UNCHANGED conf,
             posts' = posts + (IF conf[Head(page.todo)] = "good" THEN 1 ELSE 0),
             \A id \in Known : Begun(id)' /\ \A c \in Audited : Audits(id, c)'
      PROVE  FanInv'
  BY <1>1, TurnOver, TurnPaid DEF FanInv
<1>2. conf \in [Channels -> {"none", "good", "bad"}] /\ conf["telegram"] # "bad" /\ conf["webhook"] # "bad"
  BY <1>0, ConfTyped
<1>3. ASSUME NEW o \in Fates, SendTelegram(o) PROVE FanInv'
  <2>1. /\ page.todo # <<>> /\ GoOn(Tail(page.todo)) /\ Head(page.todo) = "telegram" /\ posts' = posts + 1
        /\ UNCHANGED <<conf, audit, begun, done, taken, cut>>
    BY <1>3 DEF SendTelegram
  <2>2. conf["telegram"] = "good"
    BY <1>0, <1>2, <2>1
  <2>3. page'.id = page.id /\ ToSet(page'.todo) = ToSet(page.todo) \ {"telegram"}
    BY <2>1, TurnOver
  <2>4. ASSUME NEW id \in Known PROVE Begun(id)'
    BY <2>1, <2>3 DEF FanInv, Begun
  <2>5. ASSUME NEW id \in Known, NEW c \in Audited PROVE Audits(id, c)'
    <3>1. Audits(id, c) /\ RowsOf(id, c)' = RowsOf(id, c) /\ OkRows(id, c)' = OkRows(id, c)
      BY <2>1 DEF FanInv, RowsOf, OkRows
    <3>2. c \in ToSet(page'.todo) <=> c \in ToSet(page.todo)
      BY <2>3 DEF Audited
    <3> QED BY <2>1, <2>3, <3>1, <3>2 DEF Audits
  <2> QED BY <1>1, <2>1, <2>2, <2>4, <2>5
<1>4. ASSUME NEW o \in Fates, AttemptWebhook(o) PROVE FanInv'
  <2>1. /\ page.todo # <<>> /\ Head(page.todo) = "webhook" /\ posts' = posts + 1
        /\ UNCHANGED <<conf, begun, done, cut>>
        /\ taken' = IF o.heard = "success" THEN [taken EXCEPT !["webhook"][page.id] = @ + 1] ELSE taken
        /\ \/ GoOn(Tail(page.todo)) /\ RecordRow("webhook", Owner, o.heard)
           \/ /\ page' = [page EXCEPT !.tries = @ + 1] /\ UNCHANGED audit
              /\ ~LastTry(page.tries) /\ o.heard # "success"
    BY <1>4 DEF AttemptWebhook
  <2>2. conf["webhook"] = "good" /\ "webhook" \in Audited /\ "webhook" \in ToSet(page.todo)
    BY <1>0, <1>2, <2>1 DEF Audited
  <2>3. CASE GoOn(Tail(page.todo)) /\ RecordRow("webhook", Owner, o.heard)
    <3>1. o.heard \in Answers /\ Owner \in {0, Owner}
      BY DEF Fates, Answers
    <3>2. \A id \in Known : Begun(id)' /\ \A c \in Audited : Audits(id, c)'
      BY <2>1, <2>2, <2>3, <3>1, TurnAudited
    <3> QED BY <1>1, <2>1, <2>2, <2>3, <3>2
  <2>4. CASE page' = [page EXCEPT !.tries = @ + 1] /\ UNCHANGED audit /\ ~LastTry(page.tries) /\ o.heard # "success"
    <3>1. /\ page'.id = page.id /\ page'.todo = page.todo /\ page'.tries = page.tries + 1
          /\ page.tries \in 0 .. maxRetries /\ maxRetries \in Nat /\ UNCHANGED taken
      BY <1>0, <2>1, <2>4, Bounds DEF PageStates
    <3>2. TurnsLeft'
      BY <2>1, <3>1 DEF FanInv, TurnsLeft
    <3>3. InBudget'
      <4>1. ToAsk' = ToAsk /\ Askable' = Askable /\ Retriable' = Retriable
        BY <2>1, <3>1 DEF ToAsk, Askable, Retriable
      <4>2. ToRetry' = ToRetry - 1 /\ ToRetry \in Int
        BY <2>2, <3>1 DEF ToRetry
      <4>3. posts + Cardinality(ToAsk) + ToRetry <= Cardinality(Askable) + Retriable
        BY DEF FanInv, InBudget
      <4>4. Cardinality(ToAsk) \in Nat /\ Cardinality(Askable) \in Nat
        BY FewChannels DEF ToAsk, Askable
      <4>5. Retriable \in Nat
        BY <3>1 DEF Retriable
      <4> HIDE DEF ToAsk, ToRetry, Askable, Retriable
      <4> QED BY <1>0, <2>1, <4>1, <4>2, <4>3, <4>4, <4>5 DEF InBudget
    <3>4. ASSUME NEW id \in Known PROVE Begun(id)'
      BY <2>1, <3>1 DEF FanInv, Begun
    <3>5. ASSUME NEW id \in Known, NEW c \in Audited PROVE Audits(id, c)'
      <4>1. Audits(id, c) /\ RowsOf(id, c)' = RowsOf(id, c) /\ OkRows(id, c)' = OkRows(id, c)
        BY <2>4 DEF FanInv, RowsOf, OkRows
      <4> QED BY <2>1, <3>1, <4>1 DEF Audits
    <3> QED BY <3>2, <3>3, <3>4, <3>5 DEF FanInv
  <2> QED BY <2>1, <2>3, <2>4
<1>5. ASSUME NEW c \in Chats, RefuseChatURL(c) PROVE FanInv'
  <2>1. /\ page.todo # <<>> /\ Head(page.todo) = c /\ RecordRow(c, 0, "invalid") /\ GoOn(Tail(page.todo))
        /\ conf[c] = "bad" /\ UNCHANGED <<conf, begun, done, taken, posts, cut>>
    BY <1>5 DEF RefuseChatURL
  <2>2. c \in Audited /\ "invalid" \in Answers /\ 0 \in {0, Owner} /\ "invalid" # "success"
    BY DEF Chats, Audited, Answers
  <2>3. \A id \in Known : Begun(id)' /\ \A d \in Audited : Audits(id, d)'
    BY <2>1, <2>2, TurnAudited
  <2>4. posts' = posts + 0
    BY <1>0, <2>1
  <2> QED BY <1>1, <2>1, <2>3, <2>4
<1>6. ASSUME NEW c \in Chats, NEW heard \in ChatAnswers(c), dispatchToChannel(c, heard) PROVE FanInv'
  <2>1. /\ page.todo # <<>> /\ Head(page.todo) = c /\ RecordRow(c, 0, heard) /\ GoOn(Tail(page.todo))
        /\ conf[c] = "good" /\ posts' = posts + 1 /\ UNCHANGED <<conf, begun, done, cut>>
        /\ taken' = IF heard = "success" THEN [taken EXCEPT ![c][page.id] = @ + 1] ELSE taken
    BY <1>6 DEF dispatchToChannel
  <2>2. c \in Audited /\ heard \in Answers /\ 0 \in {0, Owner}
    BY DEF Chats, Audited, Answers, ChatAnswers
  <2>3. \A id \in Known : Begun(id)' /\ \A d \in Audited : Audits(id, d)'
    BY <2>1, <2>2, TurnAudited
  <2> QED BY <1>1, <2>1, <2>3
<1> QED BY <1>3, <1>4, <1>5, <1>6

LEMMA FanStep ==
  ASSUME FanInv, [DelivNext]_delivVars
  PROVE  FanInv'
<1>1. DelivInv'
  BY DelivStep DEF FanInv
<1>2. CASE Insert
  <2>1. Unlocked /\ PageBegins(Ids[NextId]) /\ UNCHANGED <<conf, audit, done, taken, cut>>
    BY <1>2 DEF Insert
  <2>2. Ids[NextId] \in Known
    BY <1>2, InsertStep DEF FanInv
  <2> QED BY <1>1, <2>1, <2>2, FanStarts
<1>3. ASSUME NEW id \in Known, NotifyAgain(id) PROVE FanInv'
  <2>1. Unlocked /\ PageBegins(id) /\ UNCHANGED <<conf, audit, done, taken, cut>>
    BY <1>3 DEF NotifyAgain
  <2> QED BY <1>1, <2>1, FanStarts
<1>4. ASSUME \/ \E o \in Fates : SendTelegram(o) \/ AttemptWebhook(o)
             \/ \E c \in Chats : RefuseChatURL(c) \/ \E heard \in ChatAnswers(c) : dispatchToChannel(c, heard)
      PROVE  FanInv'
  BY <1>1, <1>4, FanTurn
<1>5. CASE PageEnds
  BY <1>1, <1>5, FanEnds
<1>6. ASSUME NEW s \in Secrets, DelivRestart(s) PROVE FanInv'
  BY <1>1, <1>6, FanCut
<1>7. ASSUME UNCHANGED <<conf, page, audit, begun, done, taken, posts, cut>> PROVE FanInv'
  BY <1>1, <1>7, FanFrame
<1>8. ASSUME NEW id \in Known, markResolvedAndNotify(id) PROVE FanInv'
  BY <1>7, <1>8 DEF markResolvedAndNotify
<1>9. ASSUME NEW o \in Fates, NEW g \in notice, SendNotice(g, o) PROVE FanInv'
  BY <1>7, <1>9 DEF SendNotice
<1>12. ASSUME NEW r \in late, ActLate(r) PROVE FanInv'
  <2>1. UNCHANGED <<conf, page, audit, begun, done, taken, posts, cut>>
    BY <1>12 DEF ActLate
  <2> QED BY <1>7, <2>1
<1>10. ASSUME NEW b \in Buttons, PressForbidden(b) \/ PressAck(b) \/ PressResolve(b) \/ PressSnooze(b)
       PROVE  FanInv'
  <2>1. \E a \in {"forbidden", "done", "already"} : Pressed(b, a)
    BY <1>10 DEF PressForbidden, PressAck, PressResolve, PressSnooze
  <2> QED BY <1>7, <2>1 DEF Pressed
<1>11. CASE UNCHANGED delivVars
  BY <1>7, <1>11 DEF delivVars
<1> QED BY <1>2, <1>3, <1>4, <1>5, <1>6, <1>8, <1>9, <1>10, <1>11, <1>12 DEF DelivNext

(* Every page that ran to its end left one row for each channel that is    *)
(* configured, marked successful as often as the channel said so, and p.mu *)
(* was held for a bounded number of requests (notifyAfterCreate).          *)
THEOREM EveryoneTried == DelivSpec => []EveryChannelTried
<1>1. FanInv => EveryChannelTried
  <2> SUFFICES ASSUME FanInv PROVE EveryChannelTried
    OBVIOUS
  <2>1. ASSUME Unlocked, NEW id \in Known
        PROVE  /\ begun[id] = done[id] + cut[id]
               /\ cut[id] = 0 => \A c \in Audited :
                    /\ Cardinality(RowsOf(id, c)) = IF conf[c] = "none" THEN 0 ELSE done[id]
                    /\ Cardinality({k \in RowsOf(id, c) : audit[k].ok}) = taken[c][id]
    <3>1. page.id # id /\ done[id] \in Nat /\ cut[id] \in Nat
      BY <2>1, NoPageIs, KnownNotEmpty DEF Unlocked, FanInv, DelivInv, DelivTyped
    <3>2. Begun(id) /\ \A c \in Audited : Audits(id, c)
      BY DEF FanInv
    <3>3. done[id] + cut[id] + 0 = done[id] + cut[id] /\ done[id] + 0 = done[id]
      BY <3>1
    <3> QED BY <3>1, <3>2, <3>3 DEF Begun, Audits, OkRows
  <2>2. LockHeldBriefly
    <3>1. posts + Cardinality(ToAsk) + ToRetry <= Cardinality(Askable) + Retriable
      BY DEF FanInv, InBudget
    <3>2. Cardinality(ToAsk) \in Nat /\ Cardinality(Askable) \in Nat
      BY FewChannels DEF ToAsk, Askable
    <3>3. posts \in Nat /\ page.tries \in 0 .. maxRetries /\ maxRetries \in Nat
      BY Bounds DEF FanInv, DelivInv, DelivTyped, PageStates
    <3>4. ToRetry \in Nat /\ Retriable \in Nat
      BY <3>3 DEF ToRetry, Retriable
    <3>5. posts <= Cardinality(Askable) + Retriable
      <4> HIDE DEF ToAsk, ToRetry, Askable, Retriable
      <4> QED BY <3>1, <3>2, <3>3, <3>4
    <3> QED BY <3>5 DEF LockHeldBriefly, Askable, Retriable, Once
  <2> QED BY <2>1, <2>2 DEF EveryChannelTried, FannedOut
<1>2. FanInv /\ [DelivNext]_delivVars => FanInv'
  BY FanStep
<1> QED BY <1>1, <1>2, FanInit, PTL DEF DelivSpec

(* The values each table and each answer of the page can have.             *)
THEOREM DelivTypes == DelivSpec => []DelivTypeOK
<1>1. DelivInv => DelivTypeOK
  <2> SUFFICES ASSUME DelivInv PROVE DelivTypeOK
    OBVIOUS
  <2>1. page.id \in Known \cup {""} /\ page.tries \in 0 .. maxRetries /\ page.todo \in Seq(Channels)
    BY DEF DelivInv, DelivTyped, PageStates
  <2>2. ToSet(page.todo) \subseteq Channels
    BY <2>1, RowSet
  <2>3. \A k \in 1 .. Len(audit) : audit[k] \in AuditRows
    <3>1. audit \in Seq(AuditRows)
      BY DEF DelivInv, DelivTyped
    <3> QED BY <3>1, ElementOfSeq
  <2>4. \A r \in late : r.channel \in Told /\ r.message.id \in Known
    BY DEF DelivInv, Mail, MailTyped, Abandoned, Messages
  <2> QED BY <2>1, <2>2, <2>3, <2>4 DEF DelivInv, DelivTyped, DelivTypeOK, Incident, Notices, AuditRows
<1> QED BY <1>1, DelivInvHolds, PTL
=============================================================================
