------------------------- MODULE TranslationProofs -------------------------
(***************************************************************************)
(* Proofs about Translation: what the two components make of a delivery of *)
(* any length, for any cap, any list of policies and any width of words.   *)
(***************************************************************************)
EXTENDS Translation, DataProofs

-----------------------------------------------------------------------------
(* The deliveries that Spec builds.                                        *)

\* The spans of a delivery.
SourceSpans ==
  [tid : Studies[study].ids, sid : Nat, ri : Nat, si : Nat,
   status : {"Unset", "Ok", "Error"}, start : Words, end : Words,
   attrs : {p.attrs : p \in Studies[study].payloads}]

\* Where one span stands before the other in the nested loops over resources
\* and scopes, or beside it.
NotAfter(sp, other) == sp.ri < other.ri \/ (sp.ri = other.ri /\ sp.si <= other.si)

\* The inductive invariant: typing, ids that are positions, sources in order.
DeliveryInv ==
  /\ study \in DOMAIN Studies /\ cap \in Studies[study].caps /\ cfg \in Studies[study].configs
  /\ held \in [Studies[study].ids -> 0..cap]
  /\ td \in Seq(SourceSpans)
  /\ \A i \in 1..Len(td) : td[i].sid = i
  /\ \A i, j \in 1..Len(td) : i < j => NotAfter(td[i], td[j])

\* The source of a new span is the one of the last span or comes after it.
LEMMA SourcesFollow ==
  ASSUME DeliveryInv, NEW source \in Sources
  PROVE  /\ source.ri \in Nat /\ source.si \in Nat
         /\ \A i \in 1..Len(td) :
              td[i].ri < source.ri \/ (td[i].ri = source.ri /\ td[i].si <= source.si)
<1>1. td \in Seq(SourceSpans) /\ Len(td) \in Nat /\ DOMAIN td = 1..Len(td)
  BY LenProperties DEF DeliveryInv
<1>2. CASE td = <<>>
  <2>1. Len(td) = 0 /\ LastSource = [ri |-> 1, si |-> 1]
    BY <1>1, <1>2, EmptySeq DEF LastSource
  <2> QED
    BY <2>1 DEF Sources
<1>3. CASE td # <<>>
  <2>1. Len(td) \in 1..Len(td) /\ LastSource = [ri |-> td[Len(td)].ri, si |-> td[Len(td)].si]
    <3>1. Len(td) # 0
      BY <1>1, <1>3, EmptySeq
    <3> QED
      BY <1>1, <1>3, <3>1 DEF LastSource, Last
  <2>2. \A i \in 1..Len(td) : td[i].ri \in Nat /\ td[i].si \in Nat
    <3>1. \A i \in 1..Len(td) : td[i] \in SourceSpans
      BY <1>1, ElementOfSeq
    <3> QED
      BY <3>1 DEF SourceSpans
  <2>3. \A i \in 1..Len(td) : NotAfter(td[i], td[Len(td)])
    BY <1>1, <2>1, <2>2 DEF DeliveryInv, NotAfter
  <2> QED
    BY <2>1, <2>2, <2>3 DEF Sources, NotAfter
<1> QED
  BY <1>2, <1>3

LEMMA DeliveryStarts == Init => DeliveryInv
<1> SUFFICES ASSUME Init PROVE DeliveryInv
  OBVIOUS
<1>1. td \in Seq(SourceSpans) /\ Len(td) = 0 /\ 1..0 = {}
  BY EmptySeq DEF Init
<1> QED
  BY <1>1 DEF Init, DeliveryInv

\* A step of Spec appends one span to the delivery.
LEMMA DeliveryGrows == DeliveryInv /\ [Next]_<<td, held, cap, cfg, study>> => DeliveryInv'
<1> SUFFICES ASSUME DeliveryInv, [Next]_<<td, held, cap, cfg, study>> PROVE DeliveryInv'
  OBVIOUS
<1>1. CASE Next
  <2>1. PICK id \in Studies[study].ids, source \in Sources, p \in Studies[study].payloads :
          td' = Append(td, [tid |-> id, sid |-> Len(td) + 1, ri |-> source.ri, si |-> source.si,
                            status |-> p.status, start |-> p.start, end |-> p.end,
                            attrs |-> p.attrs])
    BY <1>1 DEF Next
  <2> DEFINE sp == [tid |-> id, sid |-> Len(td) + 1, ri |-> source.ri, si |-> source.si,
                    status |-> p.status, start |-> p.start, end |-> p.end, attrs |-> p.attrs]
             n == Len(td)
  <2>2. UNCHANGED <<held, cap, cfg, study>> /\ SourceSpans' = SourceSpans
    BY <1>1 DEF Next, SourceSpans
  <2>3. td \in Seq(SourceSpans) /\ n \in Nat /\ DOMAIN td = 1..n
    BY LenProperties DEF DeliveryInv
  <2>4. PayloadOK(p)
    BY StudiesAssumption DEF DeliveryInv
  <2>5. sp \in SourceSpans
    BY <2>3, <2>4, SourcesFollow DEF SourceSpans, PayloadOK
  <2>6. \A i \in 1..n : NotAfter(td[i], sp)
    BY SourcesFollow DEF NotAfter
  <2>7. sp.sid = n + 1
    OBVIOUS
  <2>8. td' = Append(td, sp)
    BY <2>1
  <2> HIDE DEF sp
  <2>9. /\ td' \in Seq(SourceSpans) /\ Len(td') = n + 1 /\ td'[n + 1] = sp
        /\ \A i \in 1..n : td'[i] = td[i]
    <3>1. /\ Append(td, sp) \in Seq(SourceSpans) /\ Len(Append(td, sp)) = n + 1
          /\ Append(td, sp)[n + 1] = sp /\ \A i \in 1..n : Append(td, sp)[i] = td[i]
      BY <2>3, <2>5, AppendProperties
    <3> QED
      BY <2>8, <3>1, Zenon
  <2>10. \A i \in 1..(n + 1) : i \in 1..n \/ i = n + 1
    BY <2>3
  <2>11. \A i \in 1..(n + 1) : td'[i].sid = i
    BY <2>7, <2>9, <2>10 DEF DeliveryInv
  <2>12. \A i, j \in 1..(n + 1) : i < j => NotAfter(td'[i], td'[j])
    <3> SUFFICES ASSUME NEW i \in 1..(n + 1), NEW j \in 1..(n + 1), i < j
                 PROVE  NotAfter(td'[i], td'[j])
      OBVIOUS
    <3>1. i \in 1..n
      BY <2>3
    <3>2. CASE j \in 1..n
      BY <2>9, <3>1, <3>2 DEF DeliveryInv
    <3>3. CASE j = n + 1
      BY <2>6, <2>9, <3>1, <3>3
    <3> QED
      BY <2>10, <3>2, <3>3
  <2> QED
    BY <2>2, <2>9, <2>11, <2>12 DEF DeliveryInv
<1>2. CASE UNCHANGED <<td, held, cap, cfg, study>>
  BY <1>2 DEF DeliveryInv, SourceSpans
<1> QED
  BY <1>1, <1>2

\* The deliveries that are enumerated are what the code's loops can meet: no
\* span id occurs twice, and resources and scopes come one after the other.
THEOREM DeliveriesAsRead == Spec => []DeliveryInv
<1>1. Init => DeliveryInv
  BY DeliveryStarts
<1>2. DeliveryInv /\ [Next]_<<td, held, cap, cfg, study>> => DeliveryInv'
  BY DeliveryGrows
<1> QED
  BY <1>1, <1>2, PTL DEF Spec

-----------------------------------------------------------------------------
(* Policies.                                                               *)

\* A number that fits keeps its value.
LEMMA FittingWord ==
  ASSUME NEW x \in Int, 0 <= x, x <= MaxSigned
  PROVE  ToSigned(x) = x
<1>1. SignBit \in Nat \ {0}
  BY SignBitAssumption
<1>2. x < 2 * SignBit
  BY <1>1 DEF MaxSigned
<1>3. x % (2 * SignBit) = x
  BY <1>1, <1>2
<1> QED
  BY <1>1, <1>3 DEF ToSigned, Modulus, MaxSigned

\* The policies made of a configuration are those made of its entries.
LEMMA PoliciesOfEntries ==
  ASSUME NEW S, NEW list \in Seq(S)
  PROVE  Range(BuildPolicies(list)) = UNION {Range(PolicyOf(list[i])) : i \in DOMAIN list}
<1> DEFINE ss == [i \in DOMAIN list |-> PolicyOf(list[i])]
           T == UNION {Range(PolicyOf(list[i])) : i \in DOMAIN list}
<1>1. DOMAIN list = 1..Len(list) /\ Len(list) \in Nat
  BY LenProperties
<1>2. \A i \in DOMAIN list : PolicyOf(list[i]) \in Seq(T)
  <2> SUFFICES ASSUME NEW i \in DOMAIN list PROVE PolicyOf(list[i]) \in Seq(T)
    OBVIOUS
  <2>1. \/ PolicyOf(list[i]) = <<>>
        \/ \E p : PolicyOf(list[i]) = <<p>>
    BY DEF PolicyOf
  <2>2. Range(PolicyOf(list[i])) \subseteq T
    OBVIOUS
  <2> HIDE DEF T
  <2>3. CASE PolicyOf(list[i]) = <<>>
    BY <2>3, EmptySeq
  <2>4. CASE \E p : PolicyOf(list[i]) = <<p>>
    <3>1. PICK p : PolicyOf(list[i]) = <<p>>
      BY <2>4
    <3>2. p \in T
      BY <2>2, <3>1 DEF Range
    <3> QED
      BY <3>1, <3>2
  <2> QED
    BY <2>1, <2>3, <2>4
<1> HIDE DEF T
<1>3. ss \in Seq(Seq(T)) /\ DOMAIN ss = DOMAIN list
  BY <1>1, <1>2
<1> DEFINE R == T \X T
<1>4. \A i \in DOMAIN ss : Range(ss[i]) \subseteq T
  BY <1>2, ListElements
<1>5. /\ \A i \in DOMAIN ss : Pairwise(ss[i], R)
      /\ \A i, j \in DOMAIN ss : i < j =>
           \A x \in Range(ss[i]), y \in Range(ss[j]) : <<x, y>> \in R
  BY <1>4 DEF Pairwise, Range
<1> HIDE DEF ss, R
<1>6. Range(FlattenSeq(ss)) = UNION {Range(ss[i]) : i \in DOMAIN ss}
  BY <1>3, <1>5, Flattened
<1> QED
  BY <1>3, <1>6 DEF BuildPolicies, ss

LEMMA MaxSignedIsNumber == MaxSigned \in Int
  BY SignBitAssumption DEF MaxSigned

LEMMA PositiveProduct ==
  ASSUME NEW x \in Int, NEW y \in Int, x > 0, y > 0
  PROVE  x * y \in Int /\ x * y > 0
  OBVIOUS

\* How long a span lasted, when its clock went on and its duration fits.
LEMMA FittingDuration ==
  ASSUME NEW list, NEW sp, sp.start \in Int, sp.end \in Int, InRange(list, sp)
  PROVE  DurationNS(sp) = IF sp.end < sp.start THEN 0 ELSE sp.end - sp.start
<1>1. CASE sp.end < sp.start
  BY <1>1 DEF DurationNS
<1>2. CASE ~(sp.end < sp.start)
  <2>1. sp.end - sp.start \in Int /\ 0 <= sp.end - sp.start
    BY <1>2
  <2>2. sp.end - sp.start <= MaxSigned
    BY DEF InRange
  <2>3. ToSigned(sp.end - sp.start) = sp.end - sp.start
    BY <2>1, <2>2, FittingWord
  <2> QED
    BY <1>2, <2>3 DEF DurationNS
<1> QED
  BY <1>1, <1>2

\* A threshold that fits is not changed by its conversion.
LEMMA FittingThreshold ==
  ASSUME NEW list, NEW sp, InRange(list, sp), NEW j \in DOMAIN list,
         list[j].thresholdMS \in Int, list[j].thresholdMS > 0
  PROVE  LET threshold == list[j].thresholdMS * MsInNs IN
         threshold \in Int /\ threshold > 0 /\ ToSigned(threshold) = threshold
<1> DEFINE ms == list[j].thresholdMS
<1>1. ms \in Int /\ ms > 0
  OBVIOUS
<1>2. MsInNs \in Int /\ MsInNs > 0
  BY MsInNsAssumption
<1>3. ms * MsInNs <= MaxSigned
  BY DEF InRange
<1> HIDE DEF ms
<1>4. ms * MsInNs \in Int /\ ms * MsInNs > 0
  BY <1>1, <1>2, PositiveProduct
<1>5. ToSigned(ms * MsInNs) = ms * MsInNs
  BY <1>3, <1>4, FittingWord
<1> QED
  BY <1>4, <1>5 DEF ms

\* The policy that a valid entry becomes keeps the spans that it describes.
LEMMA EntryKeeps ==
  ASSUME NEW list, NEW sp, InRange(list, sp), NEW j \in DOMAIN list, Accepts(list[j]),
         sp.status \in {"Unset", "Ok", "Error"}, sp.start \in Int, sp.end \in Int,
         list[j].thresholdMS \in Int, FoldedApart(list[j])
  PROVE  (\E p \in Range(PolicyOf(list[j])) : Matches(p, KindOf(sp))) <=> EntryMeans(list[j], sp)
<1> DEFINE pc == list[j]
           lasts == DurationNS(sp)
<1>1. KindOf(sp) = [status |-> StatusString[sp.status], duration |-> lasts]
  BY DEF KindOf
<1>2. \A p : Range(<<p>>) = {p}
  BY DEF Range
<1>3. CASE pc.type = "status_code"
  <2> DEFINE q == [name |-> "status_code", keep |-> pc.keep]
             named == StatusString[sp.status]
  <2>1. PolicyOf(pc) = <<q>>
    BY <1>3 DEF PolicyOf
  <2>2. q.name = "status_code" /\ q.keep = pc.keep /\ KindOf(sp).status = named
    BY <1>1
  <2>3. Range(PolicyOf(pc)) = {q}
    BY <1>2, <2>1
  <2>4. sp.status = "Unset" => named = ""
    BY DEF StatusString
  <2> HIDE DEF q, named
  <2>5. "status_code" # "latency"
    OBVIOUS
  <2>6. Matches(q, KindOf(sp)) <=> EqualFold(named, pc.keep)
    BY <2>2, <2>5, Zenon DEF Matches
  <2>7. pc.keep # "" /\ ~EqualFold("", pc.keep)
    BY <1>3, <2>5, Zenon DEF Accepts, FoldedApart
  <2>8. EntryMeans(pc, sp) <=> sp.status # "Unset" /\ EqualFold(pc.keep, named)
    BY <1>3, <2>5, Zenon DEF EntryMeans, named
  <2>9. EqualFold(named, pc.keep) <=> EqualFold(pc.keep, named)
    BY Zenon DEF EqualFold
  <2>10. EntryMeans(pc, sp) <=> EqualFold(named, pc.keep)
    BY <2>4, <2>7, <2>8, <2>9, Zenon
  <2> QED
    BY <2>3, <2>6, <2>10, Zenon
<1>4. CASE pc.type = "latency"
  <2> DEFINE threshold == pc.thresholdMS * MsInNs
             q == [name |-> "latency", thresholdNS |-> ToSigned(threshold)]
  <2>1. PolicyOf(pc) = <<q>>
    BY <1>4 DEF PolicyOf
  <2>2. threshold \in Int /\ threshold > 0 /\ ToSigned(threshold) = threshold
    BY <1>4, FittingThreshold DEF Accepts
  <2>3. EntryMeans(pc, sp) <=> sp.end >= sp.start /\ sp.end - sp.start >= threshold
    BY <1>4 DEF EntryMeans
  <2> HIDE DEF threshold
  <2>4. q.name = "latency" /\ q.thresholdNS = threshold /\ KindOf(sp).duration = lasts
    BY <1>1, <2>2
  <2>5. Matches(q, KindOf(sp)) <=> lasts >= threshold
    <3>1. "status_code" # "latency"
      OBVIOUS
    <3> HIDE DEF q
    <3> QED
      BY <2>4, <3>1, Zenon DEF Matches
  <2>6. lasts = IF sp.end < sp.start THEN 0 ELSE sp.end - sp.start
    BY FittingDuration
  <2> HIDE DEF q, lasts
  <2>7. lasts >= threshold <=> sp.end >= sp.start /\ sp.end - sp.start >= threshold
    BY <2>2, <2>6
  <2>8. Range(PolicyOf(pc)) = {q}
    BY <1>2, <2>1
  <2> QED
    BY <2>3, <2>5, <2>7, <2>8
<1> QED
  BY <1>3, <1>4 DEF Accepts

\* The policies made of a valid configuration keep the spans it describes.
LEMMA ConfigurationKeeps ==
  ASSUME DeliveryInv, NEW i \in 1..Len(td)
  PROVE  KeepsAsConfigured(cfg, td[i])
<1> DEFINE sp == td[i]
<1>1. sp \in SourceSpans
  BY ElementOfSeq DEF DeliveryInv
<1>2. sp.status \in {"Unset", "Ok", "Error"} /\ sp.start \in Words /\ sp.end \in Words
  BY <1>1 DEF SourceSpans
<1>3. sp.start \in Int /\ sp.end \in Int
  BY <1>2 DEF Words
<1>4. PoliciesOK(cfg)
  BY StudiesAssumption DEF DeliveryInv
<1> HIDE DEF sp
<1> SUFFICES ASSUME Validate(cfg), InRange(cfg, sp)
             PROVE  KeptBy(cfg, KindOf(sp)) <=> \E j \in DOMAIN cfg : EntryMeans(cfg[j], sp)
  BY DEF KeepsAsConfigured, sp
<1>5. ASSUME NEW j \in DOMAIN cfg
      PROVE  (\E p \in Range(PolicyOf(cfg[j])) : Matches(p, KindOf(sp))) <=> EntryMeans(cfg[j], sp)
  <2>1. cfg[j] \in Range(cfg)
    BY DEF Range
  <2>2. cfg[j].thresholdMS \in Int /\ FoldedApart(cfg[j])
    BY <1>4, <2>1 DEF PoliciesOK
  <2>3. Accepts(cfg[j])
    BY DEF Validate
  <2> QED
    BY <1>2, <1>3, <2>2, <2>3, EntryKeeps
<1>6. Range(BuildPolicies(cfg)) = UNION {Range(PolicyOf(cfg[j])) : j \in DOMAIN cfg}
  BY <1>4, PoliciesOfEntries DEF PoliciesOK
<1> QED
  BY <1>5, <1>6 DEF KeptBy

\* For configurations and spans of any length, times of any width and any case
\* folding: a configuration that validates keeps exactly the spans that its
\* entries describe in exact arithmetic, as long as the nanoseconds fit.
THEOREM PoliciesKeepAsConfigured == Spec => []PoliciesMeanWhatTheySay
<1>1. DeliveryInv => PoliciesMeanWhatTheySay
  <2> SUFFICES ASSUME DeliveryInv, NEW i \in DOMAIN td PROVE KeepsAsConfigured(cfg, td[i])
    BY DEF PoliciesMeanWhatTheySay
  <2>1. i \in 1..Len(td)
    BY LenProperties DEF DeliveryInv
  <2> QED
    BY <2>1, ConfigurationKeeps
<1> QED
  BY <1>1, DeliveriesAsRead, PTL

-----------------------------------------------------------------------------
(* Sequences laid one after the other, position by position.               *)

\* What FlattenSeq has laid after each of its sequences.
LEMMA FlattenPrefixes ==
  ASSUME NEW S, NEW ss \in Seq(Seq(S))
  PROVE  \E f : /\ f[0] = <<>> /\ FlattenSeq(ss) = f[Len(ss)]
                /\ \A i \in 1..Len(ss) : f[i] = f[i - 1] \o ss[i]
<1> DEFINE n == Len(ss)
<1>1. n \in Nat /\ \A i \in 1..n : ss[i] \in Seq(S)
  BY LenProperties, ElementOfSeq
<1>2. CASE n = 0
  <2>1. FlattenSeq(ss) = <<>> /\ 1..n = {}
    BY <1>1, <1>2, EmptySeq DEF FlattenSeq
  <2> DEFINE f == [i \in {0} |-> <<>>]
  <2>2. f[0] = <<>> /\ FlattenSeq(ss) = f[n]
    BY <1>2, <2>1
  <2> HIDE DEF f
  <2> QED
    BY <2>1, <2>2
<1>3. CASE n # 0
  <2>1. PICK g : /\ FlattenSeq(ss) = g[n] /\ g[1] = ss[1]
                 /\ \A i \in 1..n : i # 1 => g[i] = g[i - 1] \o ss[i]
    <3> HIDE DEF n
    <3>1. Len(ss) = n
      BY DEF n
    <3> QED
      BY <1>1, <1>3, <3>1, FlattenSteps
  <2> DEFINE f == [i \in 0..n |-> IF i = 0 THEN <<>> ELSE g[i]]
  <2> HIDE DEF n
  <2>2. f[0] = <<>> /\ f[n] = g[n] /\ f[1] = ss[1] /\ 1 \in 1..n
    BY <1>1, <1>3, <2>1
  <2>3. \A i \in 1..n : i # 1 => i - 1 \in 1..n /\ f[i] = g[i] /\ f[i - 1] = g[i - 1]
    BY <1>1
  <2>4. <<>> \o ss[1] = ss[1]
    BY <1>1, <2>2, ConcatEmptySeq
  <2> HIDE DEF f
  <2>5. \A i \in 1..n : f[i] = f[i - 1] \o ss[i]
    <3> SUFFICES ASSUME NEW i \in 1..n PROVE f[i] = f[i - 1] \o ss[i]
      OBVIOUS
    <3>1. CASE i = 1
      <4>1. i - 1 = 0
        BY <3>1
      <4> QED
        BY <2>2, <2>4, <3>1, <4>1
    <3>2. CASE i # 1
      BY <2>1, <2>3, <3>2
    <3> QED
      BY <3>1, <3>2
  <2> QED
    BY <2>1, <2>2, <2>5 DEF n
<1> QED
  BY <1>2, <1>3

\* A sequence with each element changed.
Mapped(s, g) == [k \in DOMAIN s |-> g[s[k]]]
Images(S, g) == {g[x] : x \in S}

LEMMA MappedProperties ==
  ASSUME NEW S, NEW s \in Seq(S), NEW g
  PROVE  Mapped(s, g) \in Seq(Images(S, g)) /\ Len(Mapped(s, g)) = Len(s)
<1>1. DOMAIN s = 1..Len(s) /\ Len(s) \in Nat /\ \A k \in 1..Len(s) : s[k] \in S
  BY LenProperties, ElementOfSeq
<1>2. \A k \in 1..Len(s) : g[s[k]] \in Images(S, g)
  BY <1>1 DEF Images
<1> QED
  BY <1>1, <1>2 DEF Mapped

LEMMA ConcatMapped ==
  ASSUME NEW S, NEW s \in Seq(S), NEW t \in Seq(S), NEW g
  PROVE  Mapped(s \o t, g) = Mapped(s, g) \o Mapped(t, g)
<1> DEFINE m == Len(s)
           n == Len(t)
           u == s \o t
           fs == Mapped(s, g)
           ft == Mapped(t, g)
           fu == Mapped(u, g)
           v == fs \o ft
           T == Images(S, g)
<1>1. m \in Nat /\ n \in Nat /\ DOMAIN s = 1..m /\ DOMAIN t = 1..n
  BY LenProperties
<1>2. /\ u \in Seq(S) /\ Len(u) = m + n
      /\ \A k \in 1..(m + n) : u[k] = IF k <= m THEN s[k] ELSE t[k - m]
  BY ConcatProperties
<1> HIDE DEF u
<1>3. fs \in Seq(T) /\ Len(fs) = m /\ ft \in Seq(T) /\ Len(ft) = n
  BY MappedProperties
<1>4. fu \in Seq(T) /\ Len(fu) = m + n
  BY <1>2, MappedProperties
<1>5. /\ \A k \in 1..m : fs[k] = g[s[k]]
      /\ \A k \in 1..n : ft[k] = g[t[k]]
      /\ \A k \in 1..(m + n) : fu[k] = g[u[k]]
  BY <1>1, <1>2, LenProperties DEF Mapped
<1> HIDE DEF m, n, fs, ft, fu, T
<1>6. /\ v \in Seq(T) /\ Len(v) = m + n
      /\ \A k \in 1..(m + n) : v[k] = IF k <= m THEN fs[k] ELSE ft[k - m]
  BY <1>3, ConcatProperties
<1> HIDE DEF v
<1>7. \A k \in 1..(m + n) : fu[k] = v[k]
  <2> SUFFICES ASSUME NEW k \in 1..(m + n) PROVE fu[k] = v[k]
    OBVIOUS
  <2>1. CASE k <= m
    <3>1. k \in 1..m
      BY <1>1, <2>1
    <3> QED
      BY <1>2, <1>5, <1>6, <2>1, <3>1
  <2>2. CASE ~(k <= m)
    <3>1. k - m \in 1..n
      BY <1>1, <2>2
    <3> QED
      BY <1>2, <1>5, <1>6, <2>2, <3>1
  <2> QED
    BY <2>1, <2>2
<1>8. fu = v
  BY <1>4, <1>6, <1>7, SeqEqual
<1> QED
  BY <1>8 DEF u, fs, ft, fu, v

\* To change every element and lay the sequences is to lay them and change
\* every element.
LEMMA FlattenMapped ==
  ASSUME NEW S, NEW ss \in Seq(Seq(S)), NEW g
  PROVE  FlattenSeq([i \in DOMAIN ss |-> Mapped(ss[i], g)]) = Mapped(FlattenSeq(ss), g)
<1> DEFINE n == Len(ss)
           tt == [i \in DOMAIN ss |-> Mapped(ss[i], g)]
           T == Images(S, g)
<1>1. n \in Nat /\ DOMAIN ss = 1..n /\ \A i \in 1..n : ss[i] \in Seq(S)
  BY LenProperties, ElementOfSeq
<1>2. \A i \in 1..n : tt[i] = Mapped(ss[i], g) /\ tt[i] \in Seq(T)
  BY <1>1, MappedProperties
<1>3. tt \in Seq(Seq(T)) /\ Len(tt) = n
  BY <1>1, <1>2
<1> HIDE DEF tt
<1>4. PICK f : /\ f[0] = <<>> /\ FlattenSeq(ss) = f[n]
               /\ \A i \in 1..n : f[i] = f[i - 1] \o ss[i]
  BY FlattenPrefixes
<1>5. PICK h : /\ h[0] = <<>> /\ FlattenSeq(tt) = h[n]
               /\ \A i \in 1..n : h[i] = h[i - 1] \o tt[i]
  <2>1. \E h : /\ h[0] = <<>> /\ FlattenSeq(tt) = h[Len(tt)]
               /\ \A i \in 1..Len(tt) : h[i] = h[i - 1] \o tt[i]
    <3> HIDE DEF n, T
    <3> QED
      BY <1>3, FlattenPrefixes
  <2> QED
    BY <1>3, <2>1
<1> HIDE DEF n
<1> DEFINE P == {k \in Nat : k <= n => f[k] \in Seq(S) /\ h[k] = Mapped(f[k], g)}
<1>6. 0 \in P
  <2>1. Mapped(<<>>, g) = <<>> /\ <<>> \in Seq(S)
    BY DEF Mapped
  <2> QED
    BY <1>4, <1>5, <2>1
<1>7. ASSUME NEW k \in P PROVE k + 1 \in P
  <2> SUFFICES ASSUME k + 1 <= n PROVE f[k + 1] \in Seq(S) /\ h[k + 1] = Mapped(f[k + 1], g)
    OBVIOUS
  <2>1. /\ k \in Nat /\ k + 1 \in 1..n /\ (k + 1) - 1 = k
        /\ f[k] \in Seq(S) /\ h[k] = Mapped(f[k], g)
    BY <1>1
  <2>2. f[k + 1] = f[k] \o ss[k + 1] /\ h[k + 1] = h[k] \o tt[k + 1]
    BY <1>4, <1>5, <2>1
  <2>3. f[k] \o ss[k + 1] \in Seq(S)
    BY <1>1, <2>1, ConcatProperties
  <2>4. Mapped(f[k] \o ss[k + 1], g) = Mapped(f[k], g) \o Mapped(ss[k + 1], g)
    <3> DEFINE s == f[k]
               t == ss[k + 1]
    <3>1. s \in Seq(S) /\ t \in Seq(S)
      BY <1>1, <2>1
    <3> HIDE DEF s, t, P
    <3>2. Mapped(s \o t, g) = Mapped(s, g) \o Mapped(t, g)
      BY <3>1, ConcatMapped
    <3> QED
      BY <3>2 DEF s, t
  <2> QED
    BY <1>2, <2>1, <2>2, <2>3, <2>4
<1>8. P = Nat
  <2> HIDE DEF P
  <2>1. P \in SUBSET Nat
    BY DEF P
  <2> QED
    BY <1>6, <1>7, <2>1, AllNumbers
<1>9. h[n] = Mapped(f[n], g)
  BY <1>1, <1>8
<1> QED
  BY <1>4, <1>5, <1>9 DEF tt

-----------------------------------------------------------------------------
(* What the exporter makes of what the sampler emits.                      *)

\* Every trace of a delivery has a first span.
LEMMA FirstExists ==
  ASSUME NEW s, NEW i \in Nat \ {0}
  PROVE  \E j \in 1..i : s[j].tid = s[i].tid /\ FirstOfTrace(s, j)
<1> DEFINE P == {k \in Nat : k + 1 <= i /\ (\E j \in 1..(k + 1) : s[j].tid = s[i].tid)
                   => \E j \in 1..i : s[j].tid = s[i].tid /\ FirstOfTrace(s, j)}
<1>1. 0 \in P
  <2>1. 1..(0 + 1) = {1} /\ 1 \in 1..i /\ 1..(1 - 1) = {}
    OBVIOUS
  <2>2. FirstOfTrace(s, 1)
    BY <2>1 DEF FirstOfTrace
  <2> QED
    BY <2>1, <2>2
<1>2. ASSUME NEW k \in P PROVE k + 1 \in P
  <2> DEFINE m == k + 1
             Goal == \E j \in 1..i : s[j].tid = s[i].tid /\ FirstOfTrace(s, j)
  <2>1. /\ m \in Nat /\ (m + 1) - 1 = m
        /\ \A j \in 1..(m + 1) : j \in 1..m \/ j = m + 1
    OBVIOUS
  <2>2. ASSUME m <= i, NEW j \in 1..m, s[j].tid = s[i].tid PROVE Goal
    BY <2>2
  <2> HIDE DEF m
  <2> SUFFICES ASSUME m + 1 <= i, NEW j \in 1..(m + 1), s[j].tid = s[i].tid PROVE Goal
    BY <2>1 DEF m
  <2>3. CASE \E l \in 1..m : s[l].tid = s[i].tid
    BY <2>1, <2>2, <2>3
  <2>4. CASE \A l \in 1..m : s[l].tid # s[i].tid
    <3>1. j = m + 1 /\ j \in 1..i
      BY <2>1, <2>4
    <3>2. FirstOfTrace(s, j)
      BY <2>1, <2>4, <3>1 DEF FirstOfTrace
    <3> QED
      BY <3>1, <3>2
  <2> QED
    BY <2>3, <2>4
<1>3. P = Nat
  <2> HIDE DEF P
  <2>1. P \in SUBSET Nat
    BY DEF P
  <2> QED
    BY <1>1, <1>2, <2>1, AllNumbers
<1>4. i - 1 \in Nat /\ (i - 1) + 1 = i /\ i \in 1..i
  OBVIOUS
<1>5. i - 1 \in P
  <2> HIDE DEF P
  <2> QED
    BY <1>3, <1>4
<1> QED
  BY <1>4, <1>5

\* One row per span, in the order of the spans.
LEMMA RowsOfSpans ==
  ASSUME NEW S, NEW blocks \in Snapshots(S)
  PROVE  LET out == SpansOf(blocks) IN
         ToRows(blocks) = [k \in DOMAIN out |-> RowOf(out[k])]
<1> DEFINE ss == [i \in DOMAIN blocks |-> blocks[i].spans]
           g == [sp \in S |-> RowOf(sp)]
           tt == [i \in DOMAIN ss |-> Mapped(ss[i], g)]
           out == SpansOf(blocks)
<1>1. DOMAIN blocks = 1..Len(blocks) /\ Len(blocks) \in Nat
  BY LenProperties DEF Snapshots
<1>2. \A i \in DOMAIN blocks : blocks[i].spans \in Seq(S)
  <2>1. \A i \in DOMAIN blocks : blocks[i] \in Blocks(S)
    BY <1>1, ElementOfSeq DEF Snapshots
  <2> QED
    BY <2>1 DEF Blocks
<1>3. ss \in Seq(Seq(S))
  BY <1>1, <1>2
<1>4. \A s \in Seq(S) : Mapped(s, g) = [j \in DOMAIN s |-> RowOf(s[j])]
  <2> SUFFICES ASSUME NEW s \in Seq(S) PROVE Mapped(s, g) = [j \in DOMAIN s |-> RowOf(s[j])]
    OBVIOUS
  <2>1. \A j \in DOMAIN s : s[j] \in S
    BY LenProperties, ElementOfSeq
  <2>2. \A j \in DOMAIN s : g[s[j]] = RowOf(s[j])
    BY <2>1
  <2> HIDE DEF g
  <2> QED
    BY <2>2 DEF Mapped
<1>5. ToRows(blocks) = FlattenSeq(tt)
  <2>1. tt = [i \in DOMAIN blocks |->
                [j \in DOMAIN blocks[i].spans |-> RowOf(blocks[i].spans[j])]]
    <3> HIDE DEF g
    <3> QED
      BY <1>2, <1>4
  <2> HIDE DEF tt
  <2> QED
    BY <2>1 DEF ToRows
<1>6. FlattenSeq(ss) = out
  BY DEF SpansOf
<1>7. out \in Seq(S)
  BY SpansOfSnapshot
<1> HIDE DEF ss, out, g
<1>8. FlattenSeq(tt) = Mapped(FlattenSeq(ss), g)
  BY <1>3, FlattenMapped
<1> HIDE DEF tt
<1>9. ToRows(blocks) = [k \in DOMAIN out |-> RowOf(out[k])]
  BY <1>4, <1>5, <1>6, <1>7, <1>8
<1> QED
  BY <1>9 DEF out

\* AttrMap has every key, with the value of its last pair.
LEMMA LastPairStays ==
  ASSUME NEW S, NEW pairs \in Seq(S)
  PROVE  /\ DOMAIN AttrMap(pairs) = {p[1] : p \in Range(pairs)}
         /\ \A j \in DOMAIN pairs :
              (\A l \in DOMAIN pairs : pairs[l][1] = pairs[j][1] => l <= j)
                => AttrMap(pairs)[pairs[j][1]] = pairs[j][2]
<1>1. DOMAIN AttrMap(pairs) = {p[1] : p \in Range(pairs)}
  BY DEF AttrMap
<1>2. DOMAIN pairs = 1..Len(pairs) /\ Len(pairs) \in Nat
  BY LenProperties
<1>3. ASSUME NEW j \in DOMAIN pairs,
             \A l \in DOMAIN pairs : pairs[l][1] = pairs[j][1] => l <= j
      PROVE  AttrMap(pairs)[pairs[j][1]] = pairs[j][2]
  <2> DEFINE key == pairs[j][1]
             I == {l \in 1..Len(pairs) : pairs[l][1] = key}
             last == SelectLastInSeq(pairs, LAMBDA p : p[1] = key)
  <2>1. key \in {p[1] : p \in Range(pairs)}
    BY DEF Range
  <2>2. AttrMap(pairs)[key] = pairs[last][2]
    BY <2>1 DEF AttrMap
  <2>3. last = IF I # {} THEN Max(I) ELSE 0
    BY Zenon DEF SelectLastInSeq
  <2>4. j \in I /\ I \in SUBSET (1..Len(pairs)) /\ \A l \in I : l <= j
    BY <1>2, <1>3
  <2> HIDE DEF I, last
  <2>5. Max(I) \in I /\ \A y \in I : y <= Max(I)
    BY <1>2, <2>4, MaxIsIn
  <2>6. Max(I) = j
    BY <1>2, <2>4, <2>5
  <2> QED
    BY <2>2, <2>3, <2>4, <2>6
<1> QED
  BY <1>1, <1>3


\* Without a cap, the snapshots of a delivery hold every span, once.
LEMMA EverySpanCarried ==
  ASSUME NEW S, NEW s \in Seq(S), NEW h, \A i \in 1..Len(s) : s[i].sid = i
  PROVE  LET u == ToEngineSpans(s, 0, h) IN
         /\ u \in Seq(Range(u)) /\ Packed(S, u) /\ CarriedBy(u) = 1..Len(s)
         /\ \A i \in 1..Len(s) : u[i].kind = KindOf(s[i])
<1> DEFINE n == Len(s)
           u == ToEngineSpans(s, 0, h)
<1>1. n \in Nat /\ DOMAIN s = 1..n
  BY LenProperties
<1>2. IDsDiffer(s) /\ Limits(s, 0, h)
  BY <1>1 DEF IDsDiffer, Limits
<1>3. /\ u \in Seq(Range(u)) /\ DOMAIN u = 1..n
      /\ \A i \in 1..n :
           /\ u[i].kind = KindOf(s[i]) /\ u[i].raw \in Snapshots(S) /\ Apart(S, u[i].raw)
           /\ BlockIDs(u[i].raw) = IF FirstOfTrace(s, i) THEN FittingIDs(s, 0, h, n, s[i].tid) ELSE {}
  BY <1>2, Conversion
<1>4. \A id : FittingIDs(s, 0, h, n, id) = {j \in 1..n : s[j].tid = id}
  <2>1. \A i : Fits(s, 0, h, i)
    BY DEF Fits, InCap
  <2> QED
    BY <1>1, <2>1 DEF FittingIDs
<1> HIDE DEF u, n
<1>5. \A x, y \in 1..n : x < y => BlockIDs(u[x].raw) \cap BlockIDs(u[y].raw) = {}
  <2> SUFFICES ASSUME NEW x \in 1..n, NEW y \in 1..n, x < y
               PROVE  BlockIDs(u[x].raw) \cap BlockIDs(u[y].raw) = {}
    OBVIOUS
  <2>1. FirstOfTrace(s, y) => s[x].tid # s[y].tid
    BY <1>1 DEF FirstOfTrace
  <2> QED
    BY <1>3, <1>4, <2>1
<1>6. Packed(S, u)
  BY <1>3, <1>5 DEF Packed
<1>7. ASSUME NEW i \in 1..n PROVE i \in CarriedBy(u)
  <2>1. PICK j \in 1..i : s[j].tid = s[i].tid /\ FirstOfTrace(s, j)
    BY <1>1, FirstExists
  <2>2. j \in 1..n
    BY <1>1
  <2>3. i \in BlockIDs(u[j].raw)
    BY <1>3, <1>4, <2>1, <2>2
  <2> QED
    BY <1>3, <2>2, <2>3 DEF CarriedBy
<1>8. CarriedBy(u) \subseteq 1..n
  BY <1>3, <1>4 DEF CarriedBy
<1> QED
  BY <1>3, <1>6, <1>7, <1>8 DEF u, n

\* A span has one row, that tells what the sampler judged it by.
LEMMA RowAsJudged ==
  ASSUME DeliveryInv, NEW i \in 1..Len(td)
  PROVE  LET row == RowOf(td[i]) IN
         /\ row.sid = td[i].sid /\ row.tid = td[i].tid
         /\ row.status = KindOf(td[i]).status /\ row.duration = KindOf(td[i]).duration
         /\ td[i].start <= MaxSigned => row.timestamp = td[i].start
         /\ DOMAIN row.attributes = {p[1] : p \in Range(td[i].attrs)}
         /\ \A j \in DOMAIN td[i].attrs :
              (\A l \in DOMAIN td[i].attrs : td[i].attrs[l][1] = td[i].attrs[j][1] => l <= j)
                => row.attributes[td[i].attrs[j][1]] = td[i].attrs[j][2]
<1> DEFINE sp == td[i]
           row == RowOf(sp)
<1>1. sp \in SourceSpans
  BY ElementOfSeq DEF DeliveryInv
<1>2. sp.start \in Words /\ sp.attrs \in {p.attrs : p \in Studies[study].payloads}
  BY <1>1 DEF SourceSpans
<1>3. sp.start \in Int /\ 0 <= sp.start
  BY <1>2, SignBitAssumption DEF Words, Modulus
<1>4. sp.attrs \in Seq(Range(sp.attrs))
  BY <1>2, StudiesAssumption DEF DeliveryInv, PayloadOK
<1> HIDE DEF sp
<1>5. /\ row.sid = sp.sid /\ row.tid = sp.tid /\ row.status = RowStatus[sp.status]
      /\ row.duration = RowDuration(sp) /\ row.timestamp = ToSigned(sp.start)
      /\ row.attributes = AttrMap(sp.attrs)
  BY DEF RowOf
<1>6. RowStatus[sp.status] = KindOf(sp).status
  BY DEF RowStatus, KindOf, StatusString
<1>7. RowDuration(sp) = KindOf(sp).duration
  BY DEF RowDuration, KindOf, DurationNS
<1>8. sp.start <= MaxSigned => ToSigned(sp.start) = sp.start
  BY <1>3, FittingWord
<1> HIDE DEF row
<1>9. /\ DOMAIN row.attributes = {p[1] : p \in Range(sp.attrs)}
      /\ \A j \in DOMAIN sp.attrs :
           (\A l \in DOMAIN sp.attrs : sp.attrs[l][1] = sp.attrs[j][1] => l <= j)
             => row.attributes[sp.attrs[j][1]] = sp.attrs[j][2]
  BY <1>4, <1>5, LastPairStays
<1>10. /\ row.sid = sp.sid /\ row.tid = sp.tid
       /\ row.status = KindOf(sp).status /\ row.duration = KindOf(sp).duration
       /\ sp.start <= MaxSigned => row.timestamp = sp.start
  BY <1>5, <1>6, <1>7, <1>8
<1> QED
  BY <1>9, <1>10 DEF row, sp

\* For deliveries of any length and words of any width: uncapped, the exporter
\* makes one row of every span that the sampler emits, with the status and the
\* duration the sampler judged it by.
THEOREM RowsTellWhatWasJudged == Spec => []StoredAsJudged
<1>1. ASSUME DeliveryInv PROVE StoredAsJudged
  <2> DEFINE n == Len(td)
             S == Range(td)
             u == ToEngineSpans(td, 0, held)
             blocks == FromEngineSpans(u)
             out == SpansOf(blocks)
             rows == ToRows(blocks)
  <2>1. /\ n \in Nat /\ DOMAIN td = 1..n /\ td \in Seq(S)
        /\ \A i \in 1..n : td[i].sid = i /\ td[i] \in S
    BY <1>1, LenProperties, SeqOfRange DEF DeliveryInv, Range
  <2>2. /\ u \in Seq(Range(u)) /\ Packed(S, u) /\ CarriedBy(u) = 1..n
        /\ \A i \in 1..n : u[i].kind = KindOf(td[i])
    BY <2>1, EverySpanCarried
  <2> HIDE DEF n, u
  <2>3. out \in Seq(S) /\ SpanIDsOf(out) = 1..n /\ Len(out) = n
    <3>1. /\ out \in Seq(S) /\ SpanIDsOf(out) = CarriedBy(u)
          /\ Len(out) = Cardinality(CarriedBy(u))
      BY <2>2, EmissionIDs
    <3>2. Cardinality(1..n) = n
      BY <2>1, FS_Interval
    <3> QED
      BY <2>2, <3>1, <3>2
  <2>4. blocks \in Snapshots(S)
    BY <2>2, EmissionIDs
  <2>5. rows = [k \in DOMAIN out |-> RowOf(out[k])]
    BY <2>4, RowsOfSpans
  <2> HIDE DEF blocks, out, rows
  <2>6. Len(rows) = n /\ DOMAIN out = 1..n
    BY <2>1, <2>3, <2>5, LenProperties
  <2>7. ASSUME NEW i \in 1..n PROVE RowOf(td[i]) \in Range(rows)
    <3>1. PICK k \in DOMAIN out : out[k].sid = i
      BY <2>3 DEF SpanIDsOf
    <3>2. out[k] \in S
      BY <2>3, <2>6, ElementOfSeq
    <3>3. out[k] = td[i]
      <4>1. PICK j \in 1..n : out[k] = td[j]
        BY <2>1, <3>2 DEF Range
      <4>2. j = i
        BY <2>1, <3>1, <4>1
      <4> QED
        BY <4>1, <4>2
    <3> QED
      BY <2>5, <3>3 DEF Range
  <2> QED
    BY <2>1, <2>2, <2>6, <2>7, <1>1, RowAsJudged DEF StoredAsJudged, u, blocks, rows, n
<1> QED
  BY <1>1, DeliveriesAsRead, PTL

-----------------------------------------------------------------------------
(* The spans of a snapshot, in their order.                                *)

\* One sequence more is laid at the end.
LEMMA FlattenAppend ==
  ASSUME NEW S, NEW ss \in Seq(Seq(S)), NEW t \in Seq(S)
  PROVE  FlattenSeq(Append(ss, t)) = FlattenSeq(ss) \o t
<1> DEFINE n == Len(ss)
           tt == Append(ss, t)
<1>1. n \in Nat /\ tt \in Seq(Seq(S)) /\ Len(tt) = n + 1 /\ tt[n + 1] = t
  BY LenProperties, AppendProperties
<1>2. \A i \in 1..n : tt[i] = ss[i]
  BY AppendProperties
<1>3. PICK f : /\ f[0] = <<>> /\ FlattenSeq(ss) = f[n]
               /\ \A i \in 1..n : f[i] = f[i - 1] \o ss[i]
  BY FlattenPrefixes
<1> HIDE DEF tt
<1>4. PICK h : /\ h[0] = <<>> /\ FlattenSeq(tt) = h[n + 1]
               /\ \A i \in 1..(n + 1) : h[i] = h[i - 1] \o tt[i]
  BY <1>1, FlattenPrefixes
<1> HIDE DEF n
<1> DEFINE P == {k \in Nat : k <= n => h[k] = f[k]}
<1>5. 0 \in P
  BY <1>3, <1>4
<1>6. ASSUME NEW k \in P PROVE k + 1 \in P
  <2> SUFFICES ASSUME k + 1 <= n PROVE h[k + 1] = f[k + 1]
    OBVIOUS
  <2>1. /\ k \in Nat /\ k + 1 \in 1..n /\ k + 1 \in 1..(n + 1) /\ (k + 1) - 1 = k
        /\ h[k] = f[k]
    BY <1>1
  <2> QED
    BY <1>2, <1>3, <1>4, <2>1
<1>7. P = Nat
  <2> HIDE DEF P
  <2>1. P \in SUBSET Nat
    BY DEF P
  <2> QED
    BY <1>5, <1>6, <2>1, AllNumbers
<1>8. h[n] = f[n] /\ n + 1 \in 1..(n + 1) /\ (n + 1) - 1 = n
  <2>1. n \in P
    BY <1>1, <1>7, Zenon
  <2> QED
    BY <1>1, <2>1
<1>9. h[n + 1] = h[n] \o tt[n + 1]
  BY <1>4, <1>8
<1> QED
  BY <1>1, <1>3, <1>4, <1>8, <1>9 DEF tt

\* A block at the end of a snapshot brings its spans.
LEMMA SpansOfAppended ==
  ASSUME NEW S, NEW snap \in Snapshots(S), NEW b \in Blocks(S)
  PROVE  SpansOf(Append(snap, b)) = SpansOf(snap) \o b.spans
<1> DEFINE n == Len(snap)
           new == Append(snap, b)
           ss == [x \in DOMAIN snap |-> snap[x].spans]
           tt == [x \in DOMAIN new |-> new[x].spans]
<1>1. n \in Nat /\ DOMAIN snap = 1..n /\ \A x \in 1..n : snap[x] \in Blocks(S)
  BY LenProperties, ElementOfSeq DEF Snapshots
<1>2. /\ new \in Seq(Blocks(S)) /\ Len(new) = n + 1 /\ new[n + 1] = b
      /\ \A x \in 1..n : new[x] = snap[x]
  BY AppendProperties DEF Snapshots
<1> HIDE DEF n, new
<1>3. DOMAIN new = 1..(n + 1)
  BY <1>2, LenProperties
<1>4. b.spans \in Seq(S) /\ \A x \in 1..n : snap[x].spans \in Seq(S)
  BY <1>1 DEF Blocks
<1>5. ss \in Seq(Seq(S)) /\ Len(ss) = n
  BY <1>1, <1>4
<1>6. tt \in Seq(Seq(S)) /\ Len(tt) = n + 1
  <2>1. \A x \in 1..(n + 1) : new[x].spans \in Seq(S)
    BY <1>1, <1>2, <1>4
  <2> QED
    BY <1>1, <1>3, <2>1
<1>7. (\A x \in 1..n : tt[x] = ss[x]) /\ tt[n + 1] = b.spans
  BY <1>1, <1>2, <1>3
<1>8. FlattenSeq(ss) = SpansOf(snap) /\ FlattenSeq(tt) = SpansOf(new)
  BY DEF SpansOf
<1> HIDE DEF ss, tt
<1>9. tt = Append(ss, b.spans)
  <2>1. /\ Append(ss, b.spans) \in Seq(Seq(S)) /\ Len(Append(ss, b.spans)) = n + 1
        /\ Append(ss, b.spans)[n + 1] = b.spans
        /\ \A x \in 1..n : Append(ss, b.spans)[x] = ss[x]
    BY <1>4, <1>5, AppendProperties
  <2>2. \A x \in 1..(n + 1) : tt[x] = Append(ss, b.spans)[x]
    <3>1. \A x \in 1..(n + 1) : x \in 1..n \/ x = n + 1
      BY <1>1
    <3> QED
      BY <1>7, <2>1, <3>1
  <2> QED
    BY <1>6, <2>1, <2>2, SeqEqual
<1> QED
  BY <1>4, <1>5, <1>8, <1>9, FlattenAppend DEF new

\* The sources of S are numbered, and one is before another in the nested loops.
Numbered(S) == \A sp \in S : sp.ri \in Nat /\ sp.si \in Nat
Before(b, c) == b.ri < c.ri \/ (b.ri = c.ri /\ b.si < c.si)

\* A snapshot has a block per source, in the order of the sources, with the
\* spans of that source.
Arranged(S, snap) ==
  /\ snap \in Snapshots(S)
  /\ \A x, y \in DOMAIN snap : x < y => Before(snap[x], snap[y])
  /\ \A x \in DOMAIN snap : \A sp \in Range(snap[x].spans) :
       sp.ri = snap[x].ri /\ sp.si = snap[x].si

\* A span of the last source or of a later one goes to the end of a snapshot.
LEMMA AppendArranged ==
  ASSUME NEW S, Numbered(S), NEW snap, Arranged(S, snap), NEW sp \in S,
         \A x \in DOMAIN snap : NotAfter(snap[x], sp)
  PROVE  LET new == AppendToBlock(snap, sp) IN
         /\ Arranged(S, new) /\ SpansOf(new) = Append(SpansOf(snap), sp)
         /\ \A x \in DOMAIN new : \/ new[x].ri = sp.ri /\ new[x].si = sp.si
                                  \/ \E y \in DOMAIN snap :
                                       new[x].ri = snap[y].ri /\ new[x].si = snap[y].si
<1> DEFINE n == Len(snap)
           new == AppendToBlock(snap, sp)
           Wanted == /\ Arranged(S, new) /\ SpansOf(new) = Append(SpansOf(snap), sp)
                     /\ \A x \in DOMAIN new : \/ new[x].ri = sp.ri /\ new[x].si = sp.si
                                              \/ \E y \in DOMAIN snap :
                                                   new[x].ri = snap[y].ri /\ new[x].si = snap[y].si
<1>1. /\ snap \in Snapshots(S) /\ n \in Nat /\ DOMAIN snap = 1..n
      /\ \A x \in 1..n : snap[x] \in Blocks(S)
  BY LenProperties, ElementOfSeq DEF Arranged, Snapshots
<1>2. /\ \A x \in 1..n : /\ snap[x].ri \in Nat /\ snap[x].si \in Nat
                         /\ snap[x].spans \in Seq(S)
      /\ sp.ri \in Nat /\ sp.si \in Nat
  BY <1>1 DEF Blocks, Numbered
<1>3. SpansOf(snap) \in Seq(S)
  BY <1>1, SpansOfSnapshot
<1>4. ASSUME \A at \in DOMAIN snap : ~(snap[at].ri = sp.ri /\ snap[at].si = sp.si),
             new = Append(snap, [ri |-> sp.ri, si |-> sp.si, spans |-> <<sp>>])
      PROVE  Wanted
  <2> DEFINE b == [ri |-> sp.ri, si |-> sp.si, spans |-> <<sp>>]
  <2>1. <<sp>> \in Seq(S) /\ Range(<<sp>>) = {sp}
    BY DEF Range
  <2>2. b \in Blocks(S) /\ b.ri = sp.ri /\ b.si = sp.si /\ b.spans = <<sp>>
    BY <2>1 DEF Blocks
  <2>3. new = Append(snap, b)
    BY <1>4
  <2> HIDE DEF b, new
  <2>4. /\ new \in Snapshots(S) /\ Len(new) = n + 1 /\ new[n + 1] = b
        /\ \A x \in 1..n : new[x] = snap[x]
    BY <1>1, <2>2, <2>3, AppendProperties DEF Snapshots
  <2>5. DOMAIN new = 1..(n + 1) /\ \A x \in 1..(n + 1) : x \in 1..n \/ x = n + 1
    BY <1>1, <2>4, LenProperties DEF Snapshots
  <2>6. SpansOf(new) = SpansOf(snap) \o <<sp>>
    BY <1>1, <2>2, <2>3, SpansOfAppended
  <2>7. SpansOf(snap) \o <<sp>> = Append(SpansOf(snap), sp)
    BY <1>3, AppendIsConcat
  <2>8. \A x \in 1..n : Before(snap[x], b)
    BY <1>1, <1>2, <1>4, <2>2 DEF NotAfter, Before
  <2>9. \A x, y \in DOMAIN new : x < y => Before(new[x], new[y])
    <3> SUFFICES ASSUME NEW x \in 1..(n + 1), NEW y \in 1..(n + 1), x < y
                 PROVE  Before(new[x], new[y])
      BY <2>5
    <3>1. x \in 1..n
      BY <1>1
    <3>2. CASE y \in 1..n
      BY <1>1, <2>4, <3>1, <3>2 DEF Arranged
    <3>3. CASE y = n + 1
      BY <2>4, <2>8, <3>1, <3>3
    <3> QED
      BY <2>5, <3>2, <3>3
  <2>10. \A x \in DOMAIN new : \A s \in Range(new[x].spans) :
           s.ri = new[x].ri /\ s.si = new[x].si
    <3>1. \A x \in 1..n : \A s \in Range(snap[x].spans) :
            s.ri = snap[x].ri /\ s.si = snap[x].si
      BY <1>1 DEF Arranged
    <3>2. \A s \in Range(b.spans) : s.ri = b.ri /\ s.si = b.si
      BY <2>1, <2>2
    <3> QED
      BY <2>4, <2>5, <3>1, <3>2
  <2>11. Arranged(S, new)
    BY <2>4, <2>9, <2>10 DEF Arranged
  <2>12. \A x \in DOMAIN new : \/ new[x].ri = sp.ri /\ new[x].si = sp.si
                               \/ \E y \in DOMAIN snap :
                                    new[x].ri = snap[y].ri /\ new[x].si = snap[y].si
    BY <1>1, <2>2, <2>4, <2>5
  <2> QED
    BY <2>6, <2>7, <2>11, <2>12
<1>5. ASSUME NEW at \in DOMAIN snap, snap[at].ri = sp.ri, snap[at].si = sp.si,
             new = [snap EXCEPT ![at].spans = Append(snap[at].spans, sp)]
      PROVE  Wanted
  <2> DEFINE front == SubSeq(snap, 1, n - 1)
             spans == snap[n].spans
             b == [ri |-> snap[n].ri, si |-> snap[n].si, spans |-> Append(spans, sp)]
  <2>1. at = n /\ n \in 1..n /\ n - 1 \in Nat
    <3>1. at \in 1..n
      BY <1>1
    <3>2. at < n => Before(snap[at], snap[n])
      BY <1>1, <3>1 DEF Arranged
    <3>3. NotAfter(snap[n], sp)
      BY <1>1, <3>1
    <3> QED
      BY <1>1, <1>2, <1>5, <3>1, <3>2, <3>3 DEF Before, NotAfter
  <2>2. spans \in Seq(S) /\ Append(spans, sp) \in Seq(S)
        /\ Range(Append(spans, sp)) = Range(spans) \cup {sp}
    BY <1>2, <2>1, AppendProperties, AppendLength
  <2>3. snap[n] = [ri |-> snap[n].ri, si |-> snap[n].si, spans |-> spans]
    BY <1>1, <2>1 DEF Blocks
  <2>4. b \in Blocks(S) /\ b.ri = sp.ri /\ b.si = sp.si /\ b.spans = Append(spans, sp)
    BY <1>1, <1>5, <2>1, <2>2 DEF Blocks
  <2>5. b.ri = snap[n].ri /\ b.si = snap[n].si
    BY <1>5, <2>1, <2>4
  <2>6. new = [snap EXCEPT ![n] = b]
    BY <1>1, <1>5, <2>1, <2>3
  <2> HIDE DEF b, new, spans
  <2>7. /\ DOMAIN new = 1..n /\ new[n] = b /\ new \in Snapshots(S) /\ Len(new) = n
        /\ \A x \in 1..n : x # n => new[x] = snap[x]
    BY <1>1, <2>1, <2>4, <2>6, ExceptSeq DEF Snapshots
  <2>8. \A x \in 1..n : new[x].ri = snap[x].ri /\ new[x].si = snap[x].si
    BY <2>5, <2>7
  <2>9. \A x, y \in DOMAIN new : x < y => Before(new[x], new[y])
    <3> SUFFICES ASSUME NEW x \in 1..n, NEW y \in 1..n, x < y PROVE Before(new[x], new[y])
      BY <2>7
    <3>1. Before(snap[x], snap[y])
      BY <1>1 DEF Arranged
    <3> QED
      BY <2>8, <3>1 DEF Before
  <2>10. \A x \in DOMAIN new : \A s \in Range(new[x].spans) :
           s.ri = new[x].ri /\ s.si = new[x].si
    <3>1. \A x \in 1..n : \A s \in Range(snap[x].spans) :
            s.ri = snap[x].ri /\ s.si = snap[x].si
      BY <1>1 DEF Arranged
    <3>2. \A s \in Range(b.spans) : s.ri = b.ri /\ s.si = b.si
      BY <2>1, <2>2, <2>4, <2>5, <3>1 DEF spans
    <3> QED
      BY <2>7, <3>1, <3>2
  <2>11. Arranged(S, new)
    BY <2>7, <2>9, <2>10 DEF Arranged
  <2>12. /\ front \in Snapshots(S) /\ snap = Append(front, snap[n]) /\ new = Append(front, b)
    <3>1. /\ front \in Seq(Blocks(S)) /\ Len(front) = n - 1
          /\ \A x \in 1..(n - 1) : front[x] = snap[x]
      BY <1>1, <2>1, SubSeqProperties DEF Snapshots
    <3> HIDE DEF front
    <3>2. ASSUME NEW e \in Blocks(S), NEW s \in Seq(Blocks(S)), Len(s) = n, s[n] = e,
                 \A x \in 1..(n - 1) : s[x] = snap[x]
          PROVE  s = Append(front, e)
      <4>1. /\ Append(front, e) \in Seq(Blocks(S)) /\ Len(Append(front, e)) = n
            /\ Append(front, e)[n] = e
            /\ \A x \in 1..(n - 1) : Append(front, e)[x] = front[x]
        BY <2>1, <3>1, AppendProperties
      <4>2. \A x \in 1..n : x \in 1..(n - 1) \/ x = n
        BY <2>1
      <4>3. \A x \in 1..n : s[x] = Append(front, e)[x]
        BY <3>1, <3>2, <4>1, <4>2
      <4> QED
        BY <3>2, <4>1, <4>3, SeqEqual
    <3>3. \A x \in 1..(n - 1) : x \in 1..n /\ x # n
      BY <2>1
    <3> QED
      BY <1>1, <2>1, <2>4, <2>7, <3>1, <3>2, <3>3 DEF Snapshots
  <2> HIDE DEF front
  <2>13. SpansOf(front) \in Seq(S)
    BY <2>12, SpansOfSnapshot
  <2>14. SpansOf(snap) = SpansOf(front) \o spans
    BY <1>1, <2>1, <2>12, SpansOfAppended DEF spans
  <2>15. SpansOf(new) = SpansOf(front) \o Append(spans, sp)
    BY <2>4, <2>12, SpansOfAppended
  <2>16. SpansOf(front) \o Append(spans, sp) = Append(SpansOf(front) \o spans, sp)
    <3>1. <<sp>> \in Seq(S) /\ SpansOf(front) \o spans \in Seq(S)
      BY <2>2, <2>13, ConcatProperties
    <3>2. Append(spans, sp) = spans \o <<sp>>
      BY <2>2, AppendIsConcat
    <3>3. Append(SpansOf(front) \o spans, sp) = (SpansOf(front) \o spans) \o <<sp>>
      BY <3>1, AppendIsConcat
    <3>4. SpansOf(front) \o (spans \o <<sp>>) = (SpansOf(front) \o spans) \o <<sp>>
      BY <2>2, <2>13, <3>1, ConcatAssociative, SMTT(30)
    <3> QED
      BY <3>2, <3>3, <3>4
  <2>17. SpansOf(new) = Append(SpansOf(snap), sp)
    BY <2>14, <2>15, <2>16
  <2>18. \A x \in DOMAIN new : \E y \in DOMAIN snap :
           new[x].ri = snap[y].ri /\ new[x].si = snap[y].si
    BY <1>1, <2>7, <2>8
  <2> QED
    BY <2>11, <2>17, <2>18
<1> HIDE DEF Wanted
<1>6. Wanted
  BY <1>1, <1>4, <1>5, AppendPlaces
<1> QED
  BY <1>6 DEF Wanted

\* The spans of a delivery come in the order of their sources.
Sorted(s) == \A i, j \in 1..Len(s) : i < j => NotAfter(s[i], s[j])

\* f holds, at k, the spans of trace id among the first k of a delivery.
Selects(f, s, id) ==
  /\ f[0] = <<>> /\ OfTrace(s, id) = f[Len(s)]
  /\ \A k \in 1..Len(s) : f[k] = IF s[k].tid = id THEN Append(f[k - 1], s[k]) ELSE f[k - 1]

\* The spans of a trace, one after the other.
LEMMA TraceSelected ==
  ASSUME NEW S, NEW s \in Seq(S), NEW id
  PROVE  \E f : /\ Selects(f, s, id)
                /\ \A k \in 0..Len(s) : f[k] \in Seq(S)
<1> DEFINE n == Len(s)
           ss == [i \in DOMAIN s |-> IF s[i].tid = id THEN <<s[i]>> ELSE <<>>]
<1>1. n \in Nat /\ DOMAIN s = 1..n /\ \A i \in 1..n : s[i] \in S
  BY LenProperties, ElementOfSeq
<1>2. /\ \A i \in 1..n : ss[i] = IF s[i].tid = id THEN <<s[i]>> ELSE <<>>
      /\ ss \in Seq(Seq(S)) /\ Len(ss) = n
  BY <1>1
<1>3. OfTrace(s, id) = FlattenSeq(ss)
  BY DEF OfTrace
<1> HIDE DEF ss, n
<1>4. PICK f : /\ f[0] = <<>> /\ FlattenSeq(ss) = f[n]
               /\ \A i \in 1..n : f[i] = f[i - 1] \o ss[i]
  <2>1. ss \in Seq(Seq(S))
    BY <1>2
  <2>2. \E f : /\ f[0] = <<>> /\ FlattenSeq(ss) = f[Len(ss)]
               /\ \A i \in 1..Len(ss) : f[i] = f[i - 1] \o ss[i]
    BY <2>1, FlattenPrefixes
  <2> QED
    BY <1>2, <2>2
<1>5. ASSUME NEW k \in Nat, k + 1 <= n, f[k] \in Seq(S)
      PROVE  /\ f[k + 1] = IF s[k + 1].tid = id THEN Append(f[k], s[k + 1]) ELSE f[k]
             /\ f[k + 1] \in Seq(S)
  <2>1. k + 1 \in 1..n /\ (k + 1) - 1 = k
    BY <1>1, <1>5
  <2>2. f[k + 1] = f[k] \o ss[k + 1]
    BY <1>4, <2>1
  <2>3. CASE s[k + 1].tid = id
    <3>1. ss[k + 1] = <<s[k + 1]>> /\ s[k + 1] \in S
      BY <1>1, <1>2, <2>1, <2>3
    <3>2. Append(f[k], s[k + 1]) = f[k] \o <<s[k + 1]>>
      BY <1>5, <3>1, AppendIsConcat
    <3>3. Append(f[k], s[k + 1]) \in Seq(S)
      BY <1>5, <3>1, AppendProperties
    <3> QED
      BY <2>2, <2>3, <3>1, <3>2, <3>3
  <2>4. CASE s[k + 1].tid # id
    <3>1. ss[k + 1] = <<>>
      BY <1>2, <2>1, <2>4
    <3>2. f[k] \o <<>> = f[k]
      BY <1>5, ConcatEmptySeq
    <3> QED
      BY <1>5, <2>2, <2>4, <3>1, <3>2
  <2> QED
    BY <2>3, <2>4
<1> DEFINE P == {k \in Nat : k <= n => f[k] \in Seq(S)}
<1>6. 0 \in P
  <2>1. f[0] \in Seq(S)
    BY <1>4, EmptySeq
  <2> QED
    BY <2>1
<1>7. ASSUME NEW k \in P PROVE k + 1 \in P
  <2>1. k \in Nat /\ (k + 1 <= n => k <= n)
    BY <1>1
  <2> QED
    BY <1>5, <2>1
<1>8. P = Nat
  <2> HIDE DEF P
  <2>1. P \in SUBSET Nat
    BY DEF P
  <2> QED
    BY <1>6, <1>7, <2>1, AllNumbers
<1>9. \A k \in 0..n : f[k] \in Seq(S)
  <2> SUFFICES ASSUME NEW k \in 0..n PROVE f[k] \in Seq(S)
    OBVIOUS
  <2>1. k \in Nat /\ k <= n
    BY <1>1
  <2>2. k \in P
    BY <1>8, <2>1, Zenon
  <2> QED
    BY <2>1, <2>2
<1>10. \A k \in 1..n : f[k] = IF s[k].tid = id THEN Append(f[k - 1], s[k]) ELSE f[k - 1]
  <2> SUFFICES ASSUME NEW k \in 1..n
               PROVE  f[k] = IF s[k].tid = id THEN Append(f[k - 1], s[k]) ELSE f[k - 1]
    OBVIOUS
  <2> DEFINE j == k - 1
  <2>1. j \in Nat /\ j + 1 = k /\ j + 1 <= n /\ j \in 0..n
    BY <1>1
  <2> HIDE DEF j
  <2>2. f[j + 1] = IF s[j + 1].tid = id THEN Append(f[j], s[j + 1]) ELSE f[j]
    BY <1>5, <1>9, <2>1
  <2> QED
    BY <2>1, <2>2 DEF j
<1>11. Selects(f, s, id)
  BY <1>3, <1>4, <1>10 DEF Selects, n
<1> QED
  BY <1>9, <1>11 DEF n

\* There are as many of them as were brought.
LEMMA SelectedAsBrought ==
  ASSUME NEW S, NEW s \in Seq(S), NEW id, NEW f, Selects(f, s, id),
         \A k \in 0..Len(s) : f[k] \in Seq(S)
  PROVE  \A k \in 0..Len(s) : Len(f[k]) = Brought(s, k, id)
<1> DEFINE n == Len(s)
           P == {k \in Nat : k <= n => Len(f[k]) = Brought(s, k, id)}
<1>1. n \in Nat /\ \A i \in 1..n : s[i] \in S
  BY LenProperties, ElementOfSeq
<1>2. 0 \in P
  <2>1. Len(f[0]) = 0
    BY DEF Selects
  <2> QED
    BY <2>1, BroughtGrows
<1>3. ASSUME NEW k \in P PROVE k + 1 \in P
  <2> SUFFICES ASSUME k + 1 <= n PROVE Len(f[k + 1]) = Brought(s, k + 1, id)
    OBVIOUS
  <2>1. /\ k \in Nat /\ k \in 0..n /\ k + 1 \in 1..n /\ (k + 1) - 1 = k
        /\ Len(f[k]) = Brought(s, k, id)
    BY <1>1
  <2>2. f[k + 1] = IF s[k + 1].tid = id THEN Append(f[k], s[k + 1]) ELSE f[k]
    BY <2>1 DEF Selects
  <2>3. f[k] \in Seq(S) /\ s[k + 1] \in S
    BY <1>1, <2>1
  <2> HIDE DEF n
  <2>4. Len(Append(f[k], s[k + 1])) = Len(f[k]) + 1
    BY <2>3, AppendProperties
  <2>5. /\ s[k + 1].tid = id => Brought(s, k + 1, id) = Brought(s, k, id) + 1
        /\ s[k + 1].tid # id => Brought(s, k + 1, id) = Brought(s, k, id)
    BY <2>1, BroughtGrows
  <2> QED
    BY <2>1, <2>2, <2>4, <2>5
<1>4. P = Nat
  <2> HIDE DEF P
  <2>1. P \in SUBSET Nat
    BY DEF P
  <2> QED
    BY <1>2, <1>3, <2>1, AllNumbers
<1> SUFFICES ASSUME NEW k \in 0..n PROVE Len(f[k]) = Brought(s, k, id)
  OBVIOUS
<1>5. k \in Nat /\ k <= n
  BY <1>1
<1>6. k \in P
  BY <1>4, <1>5, Zenon
<1> QED
  BY <1>5, <1>6

\* Under a cap, h is the number of spans of a trace that the engine holds.
Limit(maxSpans, h) == maxSpans \in Nat /\ (maxSpans > 0 => h \in Nat)

\* The spans of a trace that fit, of s.
Fitting(s, maxSpans, h) == SubSeq(s, 1, Room(maxSpans, h, Len(s)))

\* t has one element more than s.
Extends(t, s) == Len(t) = Len(s) + 1 /\ \A i \in 1..Len(s) : t[i] = s[i]

\* Of the spans of a trace those that fit are the first ones.
LEMMA FirstOnesFit ==
  ASSUME NEW S, NEW s \in Seq(S), NEW t \in Seq(S), Extends(t, s),
         NEW maxSpans, NEW h, Limit(maxSpans, h)
  PROVE  /\ InCap(maxSpans, h, Len(s)) =>
              Fitting(s, maxSpans, h) = s /\ Fitting(t, maxSpans, h) = t
         /\ ~InCap(maxSpans, h, Len(s)) => Fitting(t, maxSpans, h) = Fitting(s, maxSpans, h)
<1> DEFINE m == Len(s)
<1>1. /\ m \in Nat /\ Len(t) = m + 1 /\ \A i \in 1..m : t[i] = s[i]
      /\ maxSpans \in Nat /\ (maxSpans > 0 => h \in Nat)
  BY LenProperties DEF Extends, Limit
<1>2. SubSeq(s, 1, m) = s
  BY SubSeqFull
<1>3. SubSeq(t, 1, m + 1) = t
  BY <1>1, SubSeqFull
<1> HIDE DEF m
<1>4. CASE InCap(maxSpans, h, m)
  <2>1. Room(maxSpans, h, m) = m /\ Room(maxSpans, h, m + 1) = m + 1
    BY <1>1, <1>4 DEF InCap, Room, Least
  <2> QED
    BY <1>1, <1>2, <1>3, <1>4, <2>1 DEF m, Fitting
<1>5. CASE ~InCap(maxSpans, h, m)
  <2> DEFINE r == Room(maxSpans, h, m)
  <2>1. r \in 0..m /\ Room(maxSpans, h, m + 1) = r
    BY <1>1, <1>5 DEF InCap, Room, Least
  <2> HIDE DEF r
  <2>2. /\ SubSeq(s, 1, r) \in Seq(S) /\ Len(SubSeq(s, 1, r)) = r
        /\ \A i \in 1..r : SubSeq(s, 1, r)[i] = s[i]
    BY <1>1, <2>1, SubSeqProperties DEF m
  <2>3. /\ SubSeq(t, 1, r) \in Seq(S) /\ Len(SubSeq(t, 1, r)) = r
        /\ \A i \in 1..r : SubSeq(t, 1, r)[i] = t[i]
    BY <1>1, <2>1, SubSeqProperties
  <2>4. \A i \in 1..r : SubSeq(t, 1, r)[i] = SubSeq(s, 1, r)[i]
    BY <1>1, <2>1, <2>2, <2>3
  <2>5. SubSeq(t, 1, r) = SubSeq(s, 1, r)
    BY <2>2, <2>3, <2>4, SeqEqual
  <2> QED
    BY <1>1, <1>5, <2>1, <2>5 DEF m, r, Fitting
<1> QED
  BY <1>4, <1>5 DEF m

\* The snapshot of trace id after k spans, of which mine are of the trace.
Ordered(S, snap, mine, s, maxSpans, h, k) ==
  /\ Arranged(S, snap)
  /\ SpansOf(snap) = Fitting(mine, maxSpans, h)
  /\ \A x \in DOMAIN snap : \E j \in 1..k : snap[x].ri = s[j].ri /\ snap[x].si = s[j].si

\* A span of the trace goes to the end of its snapshot, if it fits.
LEMMA SpanOrdered ==
  ASSUME NEW S, Numbered(S), NEW s \in Seq(S), Sorted(s), NEW maxSpans \in Nat, NEW h,
         maxSpans > 0 => h \in Nat, NEW k \in Nat, k + 1 \in 1..Len(s),
         NEW mine \in Seq(S), NEW snap, Ordered(S, snap, mine, s, maxSpans, h, k)
  PROVE  Ordered(S, IF InCap(maxSpans, h, Len(mine)) THEN AppendToBlock(snap, s[k + 1]) ELSE snap,
                 Append(mine, s[k + 1]), s, maxSpans, h, k + 1)
<1> DEFINE sp == s[k + 1]
           m == Len(mine)
           longer == Append(mine, sp)
           new == AppendToBlock(snap, sp)
<1>1. sp \in S /\ m \in Nat /\ Len(longer) = m + 1
  BY LenProperties, ElementOfSeq, AppendProperties
<1>2. \A j \in 1..k : NotAfter(s[j], sp) /\ j \in 1..(k + 1)
  BY DEF Sorted
<1>3. \A x \in DOMAIN snap : NotAfter(snap[x], sp)
  BY <1>2 DEF Ordered, NotAfter
<1>4. /\ InCap(maxSpans, h, m) =>
           Fitting(mine, maxSpans, h) = mine /\ Fitting(longer, maxSpans, h) = longer
      /\ ~InCap(maxSpans, h, m) => Fitting(longer, maxSpans, h) = Fitting(mine, maxSpans, h)
  <2> HIDE DEF sp
  <2>1. longer \in Seq(S) /\ Extends(longer, mine) /\ Limit(maxSpans, h)
    BY <1>1, LenProperties, AppendProperties DEF Extends, Limit
  <2> HIDE DEF longer
  <2> QED
    BY <2>1, FirstOnesFit
<1>5. CASE InCap(maxSpans, h, m)
  <2>1. /\ Arranged(S, new) /\ SpansOf(new) = Append(SpansOf(snap), sp)
        /\ \A x \in DOMAIN new : \/ new[x].ri = sp.ri /\ new[x].si = sp.si
                                 \/ \E y \in DOMAIN snap :
                                      new[x].ri = snap[y].ri /\ new[x].si = snap[y].si
    <3>1. Arranged(S, snap)
      BY DEF Ordered
    <3> HIDE DEF sp
    <3> QED
      BY <1>1, <1>3, <3>1, AppendArranged
  <2> HIDE DEF new
  <2>2. \A x \in DOMAIN new : \E j \in 1..(k + 1) : new[x].ri = s[j].ri /\ new[x].si = s[j].si
    <3> SUFFICES ASSUME NEW x \in DOMAIN new
                 PROVE  \E j \in 1..(k + 1) : new[x].ri = s[j].ri /\ new[x].si = s[j].si
      OBVIOUS
    <3>1. CASE new[x].ri = sp.ri /\ new[x].si = sp.si
      <4>1. k + 1 \in 1..(k + 1)
        OBVIOUS
      <4> QED
        BY <3>1, <4>1
    <3>2. CASE \E y \in DOMAIN snap : new[x].ri = snap[y].ri /\ new[x].si = snap[y].si
      BY <1>2, <3>2 DEF Ordered
    <3> QED
      BY <2>1, <3>1, <3>2
  <2>3. SpansOf(snap) = mine
    BY <1>4, <1>5 DEF Ordered
  <2> HIDE DEF sp, m, longer
  <2>4. SpansOf(new) = Fitting(longer, maxSpans, h)
    BY <1>4, <1>5, <2>1, <2>3 DEF longer
  <2>5. Ordered(S, new, longer, s, maxSpans, h, k + 1)
    BY <2>1, <2>2, <2>4 DEF Ordered
  <2> QED
    BY <1>5, <2>5 DEF new, sp, m, longer
<1>6. CASE ~InCap(maxSpans, h, m)
  <2>1. \A x \in DOMAIN snap : \E j \in 1..(k + 1) : snap[x].ri = s[j].ri /\ snap[x].si = s[j].si
    BY <1>2 DEF Ordered
  <2> HIDE DEF sp, longer
  <2>2. SpansOf(snap) = Fitting(longer, maxSpans, h)
    BY <1>4, <1>6 DEF Ordered
  <2>3. Ordered(S, snap, longer, s, maxSpans, h, k + 1)
    BY <2>1, <2>2 DEF Ordered
  <2> QED
    BY <1>6, <2>3 DEF sp, m, longer
<1> QED
  BY <1>5, <1>6

\* What an iteration of the loop does to the snapshots.
LEMMA VisitSnaps ==
  ASSUME NEW S, NEW s \in Seq(S), NEW maxSpans, NEW inBuffer, Limits(s, maxSpans, inBuffer),
         NEW k \in Nat, k + 1 \in DOMAIN s, NEW acc, Loading(S, acc, s, maxSpans, inBuffer, k),
         NEW next, next = Visit(acc, s[k + 1], maxSpans, inBuffer), NEW id \in {s[i].tid : i \in DOMAIN s}
  PROVE  next.snap[id] = IF s[k + 1].tid = id /\ Fits(s, maxSpans, inBuffer, k + 1)
                         THEN AppendToBlock(acc.snap[id], s[k + 1]) ELSE acc.snap[id]
<1> DEFINE sp == s[k + 1]
           ids == {s[i].tid : i \in DOMAIN s}
           snap == acc.snap[sp.tid]
           fits == Fits(s, maxSpans, inBuffer, k + 1)
           new == AppendToBlock(snap, sp)
           out == Append(acc.out, [tid |-> sp.tid, sid |-> sp.sid, kind |-> KindOf(sp)])
           carriers == IF snap = <<>> THEN acc.carriers \cup {Len(out)} ELSE acc.carriers
<1>1. /\ sp.tid \in ids /\ id \in ids /\ LoadedTrace(S, snap, s, maxSpans, inBuffer, k, sp.tid)
      /\ acc.snap \in [ids -> Snapshots(S)]
      /\ acc = [out |-> acc.out, snap |-> acc.snap, carriers |-> acc.carriers]
  BY DEF Loading
<1>2. InCap(maxSpans, inBuffer[sp.tid], Len(SpansOf(snap))) <=> fits
  BY <1>1, FitsAsCopied
<1>3. CASE fits
  <2>1. next = [out |-> out, snap |-> [acc.snap EXCEPT ![sp.tid] = new], carriers |-> carriers]
    BY <1>2, <1>3 DEF Visit
  <2> HIDE DEF ids, sp, fits, out, carriers, new
  <2>2. next.snap = [acc.snap EXCEPT ![sp.tid] = new]
    BY <2>1
  <2>3. next.snap[id] = IF id = sp.tid THEN new ELSE acc.snap[id]
    BY <1>1, <2>2
  <2> QED
    BY <1>3, <2>3 DEF sp, fits, new
<1>4. CASE ~fits
  <2>1. next = [acc EXCEPT !.out = out]
    BY <1>2, <1>4 DEF Visit
  <2> HIDE DEF out
  <2>2. next.snap = acc.snap
    BY <1>1, <2>1
  <2> QED
    BY <1>4, <2>2
<1> QED
  BY <1>3, <1>4

\* Before a delivery, nothing is of the trace and nothing in its snapshot.
LEMMA NothingOrdered ==
  ASSUME NEW S, NEW s, NEW maxSpans, NEW h, Limit(maxSpans, h)
  PROVE  Ordered(S, <<>>, <<>>, s, maxSpans, h, 0)
<1>1. Arranged(S, <<>>)
  BY NothingLoaded DEF Arranged
<1>2. SpansOf(<<>>) = <<>>
  BY EmptySeq DEF SpansOf, FlattenSeq
<1>3. Fitting(<<>>, maxSpans, h) = <<>>
  <2>1. Room(maxSpans, h, 0) = 0
    BY DEF Room, Least, Limit
  <2>2. <<>> \in Seq(S) /\ Len(<<>>) = 0
    BY EmptySeq
  <2>3. SubSeq(<<>>, 1, Len(<<>>)) = <<>>
    BY <2>2, SubSeqFull
  <2> QED
    BY <2>1, <2>2, <2>3 DEF Fitting
<1>4. \A x : x \notin DOMAIN <<>>
  BY EmptySeq
<1> QED
  BY <1>1, <1>2, <1>3, <1>4, Zenon DEF Ordered

\* A span of another trace leaves a snapshot as it was.
LEMMA OtherSpanOrdered ==
  ASSUME NEW S, NEW s, NEW maxSpans, NEW h, NEW k \in Nat, NEW mine, NEW snap,
         Ordered(S, snap, mine, s, maxSpans, h, k)
  PROVE  Ordered(S, snap, mine, s, maxSpans, h, k + 1)
<1>1. \A j \in 1..k : j \in 1..(k + 1)
  OBVIOUS
<1> QED
  BY <1>1 DEF Ordered

\* The loop ends with the first spans of each trace in its snapshot, in order.
LEMMA SnapshotOrdered ==
  ASSUME NEW S, Numbered(S), NEW s \in Seq(S), Sorted(s), NEW maxSpans, NEW inBuffer,
         Limits(s, maxSpans, inBuffer), NEW a, Visits(a, s, maxSpans, inBuffer),
         \A k \in 0..Len(s) : Loading(S, a[k], s, maxSpans, inBuffer, k),
         NEW id \in {s[i].tid : i \in DOMAIN s}
  PROVE  /\ Arranged(S, a[Len(s)].snap[id])
         /\ SpansOf(a[Len(s)].snap[id]) = Fitting(OfTrace(s, id), maxSpans, inBuffer[id])
<1> DEFINE n == Len(s)
           h == inBuffer[id]
<1>1. n \in Nat /\ DOMAIN s = 1..n /\ Limit(maxSpans, h)
  BY LenProperties DEF Limits, Limit
<1>2. PICK f : Selects(f, s, id) /\ \A k \in 0..n : f[k] \in Seq(S)
  BY TraceSelected
<1>3. \A k \in 0..n : Len(f[k]) = Brought(s, k, id)
  BY <1>2, SelectedAsBrought
<1> DEFINE Holds(k) == Ordered(S, a[k].snap[id], f[k], s, maxSpans, h, k)
           P == {k \in Nat : k <= n => Holds(k)}
<1>4. 0 \in P
  <2>1. a[0].snap[id] = <<>> /\ f[0] = <<>>
    BY <1>2 DEF Visits, NoneVisited, Selects
  <2>2. Ordered(S, <<>>, <<>>, s, maxSpans, h, 0)
    BY <1>1, NothingOrdered
  <2> QED
    BY <2>1, <2>2
<1>5. ASSUME NEW k \in P PROVE k + 1 \in P
  <2> SUFFICES ASSUME k + 1 <= n PROVE Holds(k + 1)
    OBVIOUS
  <2> DEFINE sp == s[k + 1]
             snap == a[k].snap
             next == a[k + 1].snap
  <2>1. /\ k \in Nat /\ k \in 0..n /\ k + 1 \in 1..n /\ (k + 1) - 1 = k
        /\ Ordered(S, snap[id], f[k], s, maxSpans, h, k)
    BY <1>1
  <2>2. next[id] = IF sp.tid = id /\ Fits(s, maxSpans, inBuffer, k + 1)
                   THEN AppendToBlock(snap[id], sp) ELSE snap[id]
    <3> DEFINE acc == a[k]
               then == a[k + 1]
    <3>1. then = Visit(acc, s[k + 1], maxSpans, inBuffer)
      BY <2>1 DEF Visits
    <3>2. Loading(S, acc, s, maxSpans, inBuffer, k) /\ k + 1 \in DOMAIN s
      BY <1>1, <2>1
    <3> HIDE DEF acc, then
    <3>3. then.snap[id] = IF s[k + 1].tid = id /\ Fits(s, maxSpans, inBuffer, k + 1)
                          THEN AppendToBlock(acc.snap[id], s[k + 1]) ELSE acc.snap[id]
      BY <2>1, <3>1, <3>2, VisitSnaps
    <3> QED
      BY <3>3 DEF acc, then
  <2>3. f[k + 1] = IF sp.tid = id THEN Append(f[k], sp) ELSE f[k]
    BY <1>2, <2>1 DEF Selects
  <2>4. CASE sp.tid = id
    <3>1. Fits(s, maxSpans, inBuffer, k + 1) <=> InCap(maxSpans, h, Len(f[k]))
      BY <1>3, <2>1, <2>4 DEF Fits
    <3>2. f[k] \in Seq(S)
      BY <1>2, <2>1
    <3>3. Ordered(S, IF InCap(maxSpans, h, Len(f[k])) THEN AppendToBlock(snap[id], sp) ELSE snap[id],
                     Append(f[k], sp), s, maxSpans, h, k + 1)
      BY <1>1, <2>1, <3>2, SpanOrdered DEF Limit
    <3>4. next[id] = IF InCap(maxSpans, h, Len(f[k])) THEN AppendToBlock(snap[id], sp) ELSE snap[id]
      BY <2>2, <2>4, <3>1
    <3>5. f[k + 1] = Append(f[k], sp)
      BY <2>3, <2>4
    <3> QED
      BY <3>3, <3>4, <3>5
  <2>5. CASE sp.tid # id
    <3>1. next[id] = snap[id] /\ f[k + 1] = f[k]
      BY <2>2, <2>3, <2>5
    <3>2. Ordered(S, snap[id], f[k], s, maxSpans, h, k + 1)
      BY <2>1, OtherSpanOrdered
    <3> QED
      BY <3>1, <3>2
  <2> QED
    BY <2>4, <2>5
<1>6. P = Nat
  <2> HIDE DEF P
  <2>1. P \in SUBSET Nat
    BY DEF P
  <2> QED
    BY <1>4, <1>5, <2>1, AllNumbers
<1>7. Holds(n)
  <2> HIDE DEF P
  <2>1. n \in P
    BY <1>1, <1>6, Zenon
  <2> QED
    BY <1>1, <2>1 DEF P
<1>8. OfTrace(s, id) = f[n]
  BY <1>2 DEF Selects
<1> QED
  BY <1>7, <1>8 DEF Ordered

\* An engine span more brings the snapshot it carries.
LEMMA EmittedAppended ==
  ASSUME NEW B, NEW U, \A x \in U : x.raw \in Seq(B), NEW v \in Seq(U), NEW x \in U
  PROVE  FromEngineSpans(Append(v, x)) = FromEngineSpans(v) \o x.raw
<1> DEFINE n == Len(v)
           new == Append(v, x)
           ss == [i \in DOMAIN v |-> v[i].raw]
           tt == [i \in DOMAIN new |-> new[i].raw]
<1>1. n \in Nat /\ DOMAIN v = 1..n /\ \A i \in 1..n : v[i] \in U
  BY LenProperties, ElementOfSeq
<1>2. new \in Seq(U) /\ Len(new) = n + 1 /\ new[n + 1] = x /\ \A i \in 1..n : new[i] = v[i]
  BY AppendProperties
<1> HIDE DEF n, new
<1>3. DOMAIN new = 1..(n + 1)
  BY <1>2, LenProperties
<1>4. x.raw \in Seq(B) /\ \A i \in 1..n : v[i].raw \in Seq(B)
  BY <1>1
<1>5. ss \in Seq(Seq(B)) /\ Len(ss) = n
  BY <1>1, <1>4
<1>6. tt \in Seq(Seq(B)) /\ Len(tt) = n + 1
  <2>1. \A i \in 1..(n + 1) : new[i].raw \in Seq(B)
    BY <1>1, <1>2, <1>4
  <2> QED
    BY <1>1, <1>3, <2>1
<1>7. (\A i \in 1..n : tt[i] = ss[i]) /\ tt[n + 1] = x.raw
  BY <1>1, <1>2, <1>3
<1>8. FlattenSeq(ss) = FromEngineSpans(v) /\ FlattenSeq(tt) = FromEngineSpans(new)
  BY DEF FromEngineSpans
<1> HIDE DEF ss, tt
<1>9. tt = Append(ss, x.raw)
  <2>1. /\ Append(ss, x.raw) \in Seq(Seq(B)) /\ Len(Append(ss, x.raw)) = n + 1
        /\ Append(ss, x.raw)[n + 1] = x.raw
        /\ \A i \in 1..n : Append(ss, x.raw)[i] = ss[i]
    BY <1>4, <1>5, AppendProperties
  <2>2. \A i \in 1..(n + 1) : tt[i] = Append(ss, x.raw)[i]
    <3>1. \A i \in 1..(n + 1) : i \in 1..n \/ i = n + 1
      BY <1>1
    <3> QED
      BY <1>7, <2>1, <3>1
  <2> QED
    BY <1>6, <2>1, <2>2, SeqEqual
<1> QED
  BY <1>4, <1>5, <1>8, <1>9, FlattenAppend DEF new

\* Of the engine spans of a trace only the one at c may carry a snapshot.
LEMMA OneCarries ==
  ASSUME NEW B, NEW U, \A x \in U : x.raw \in Seq(B), NEW u \in Seq(U), NEW id,
         NEW c \in 1..Len(u), u[c].tid = id,
         \A i \in 1..Len(u) : u[i].tid = id /\ i # c => u[i].raw = <<>>
  PROVE  CarriedFor(u, id) = u[c].raw
<1> DEFINE n == Len(u)
<1>1. n \in Nat /\ DOMAIN u = 1..n /\ \A i \in 1..n : u[i] \in U
  BY LenProperties, ElementOfSeq
<1>2. PICK f : Selects(f, u, id) /\ \A k \in 0..n : f[k] \in Seq(U)
  BY TraceSelected
<1> DEFINE raw == u[c].raw
           Emitted(k) == FromEngineSpans(f[k]) = IF k < c THEN <<>> ELSE raw
           P == {k \in Nat : k <= n => Emitted(k)}
<1>3. raw \in Seq(B) /\ <<>> \o raw = raw /\ raw \o <<>> = raw /\ <<>> \o <<>> = <<>>
  BY <1>1, EmptySeq, ConcatEmptySeq
<1> HIDE DEF raw
<1>4. \A v \in Seq(U), y \in U : FromEngineSpans(Append(v, y)) = FromEngineSpans(v) \o y.raw
  BY EmittedAppended
<1>5. 0 \in P
  <2>1. FromEngineSpans(<<>>) = <<>>
    BY EmptySeq DEF FromEngineSpans, FlattenSeq
  <2>2. f[0] = <<>> /\ 0 < c
    BY <1>2 DEF Selects
  <2> QED
    BY <2>1, <2>2
<1>6. ASSUME NEW k \in P PROVE k + 1 \in P
  <2> SUFFICES ASSUME k + 1 <= n PROVE Emitted(k + 1)
    OBVIOUS
  <2> DEFINE x == u[k + 1]
  <2>1. /\ k \in Nat /\ k \in 0..n /\ k + 1 \in 1..n /\ (k + 1) - 1 = k /\ Emitted(k)
    BY <1>1
  <2>2. f[k + 1] = IF x.tid = id THEN Append(f[k], x) ELSE f[k]
    BY <1>2, <2>1 DEF Selects
  <2>3. f[k] \in Seq(U) /\ x \in U
    BY <1>1, <1>2, <2>1
  <2>4. k + 1 = c => x.tid = id /\ x.raw = raw
    BY DEF raw
  <2>5. x.tid = id /\ k + 1 # c => x.raw = <<>>
    BY <2>1
  <2> HIDE DEF x, n, P
  <2>6. FromEngineSpans(Append(f[k], x)) = FromEngineSpans(f[k]) \o x.raw
    BY <1>4, <2>3
  <2>7. CASE k + 1 = c
    <3>1. FromEngineSpans(f[k]) = <<>> /\ f[k + 1] = Append(f[k], x) /\ x.raw = raw
      BY <2>1, <2>2, <2>4, <2>7
    <3>2. ~(k + 1 < c)
      BY <2>1, <2>7
    <3> QED
      BY <1>3, <2>6, <3>1, <3>2
  <2>8. CASE k + 1 # c
    <3>1. (k + 1 < c <=> k < c)
      BY <2>1, <2>8
    <3>2. FromEngineSpans(f[k]) = IF k < c THEN <<>> ELSE raw
      BY <2>1
    <3>3. FromEngineSpans(f[k]) \o <<>> = FromEngineSpans(f[k])
      BY <1>3, <3>2
    <3>4. FromEngineSpans(f[k + 1]) = FromEngineSpans(f[k])
      BY <2>2, <2>5, <2>6, <2>8, <3>3
    <3> QED
      BY <3>1, <3>2, <3>4
  <2> QED
    BY <2>7, <2>8
<1>7. P = Nat
  <2> HIDE DEF P
  <2>1. P \in SUBSET Nat
    BY DEF P
  <2> QED
    BY <1>5, <1>6, <2>1, AllNumbers
<1>8. Emitted(n)
  <2> HIDE DEF P
  <2>1. n \in P
    BY <1>1, <1>7, Zenon
  <2> QED
    BY <1>1, <2>1 DEF P
<1>9. OfTrace(u, id) = f[n] /\ ~(n < c)
  BY <1>1, <1>2 DEF Selects
<1> QED
  BY <1>8, <1>9 DEF CarriedFor, raw

\* The order of blocks makes their sources differ, and each span is under its own.
LEMMA ArrangedBlocks ==
  ASSUME NEW S, Numbered(S), NEW blocks, Arranged(S, blocks)
  PROVE  /\ \A b \in Range(blocks), sp \in UNION {Range(x.spans) : x \in Range(blocks)} :
              sp \in Range(b.spans) <=> sp.ri = b.ri /\ sp.si = b.si
         /\ IsInjective([i \in DOMAIN blocks |-> <<blocks[i].ri, blocks[i].si>>])
<1>1. DOMAIN blocks = 1..Len(blocks) /\ Len(blocks) \in Nat
  BY LenProperties DEF Arranged, Snapshots
<1>2. \A x \in DOMAIN blocks : blocks[x].ri \in Nat /\ blocks[x].si \in Nat
  <2>1. \A x \in DOMAIN blocks : blocks[x] \in Blocks(S)
    BY <1>1, ElementOfSeq DEF Arranged, Snapshots
  <2> QED
    BY <2>1 DEF Blocks, Numbered
<1>3. ASSUME NEW x \in DOMAIN blocks, NEW y \in DOMAIN blocks,
             blocks[x].ri = blocks[y].ri, blocks[x].si = blocks[y].si
      PROVE  x = y
  <2>1. ~Before(blocks[x], blocks[y]) /\ ~Before(blocks[y], blocks[x])
    BY <1>2, <1>3 DEF Before
  <2>2. ~(x < y) /\ ~(y < x)
    BY <1>3, <2>1 DEF Arranged
  <2> QED
    BY <1>1, <2>2
<1>4. ASSUME NEW b \in Range(blocks), NEW c \in Range(blocks), NEW sp \in Range(c.spans)
      PROVE  sp \in Range(b.spans) <=> sp.ri = b.ri /\ sp.si = b.si
  <2>1. PICK x \in DOMAIN blocks : b = blocks[x]
    BY DEF Range
  <2>2. PICK y \in DOMAIN blocks : c = blocks[y]
    BY DEF Range
  <2>3. sp.ri = c.ri /\ sp.si = c.si
    BY <2>2 DEF Arranged
  <2>4. sp \in Range(b.spans) => sp.ri = b.ri /\ sp.si = b.si
    BY <2>1 DEF Arranged
  <2>5. sp.ri = b.ri /\ sp.si = b.si => x = y
    BY <1>3, <2>1, <2>2, <2>3
  <2> QED
    BY <2>1, <2>2, <2>4, <2>5
<1>5. \A b \in Range(blocks), sp \in UNION {Range(x.spans) : x \in Range(blocks)} :
        sp \in Range(b.spans) <=> sp.ri = b.ri /\ sp.si = b.si
  BY <1>4
<1> DEFINE source == [i \in DOMAIN blocks |-> <<blocks[i].ri, blocks[i].si>>]
<1>6. \A x, y \in DOMAIN source : source[x] = source[y] => x = y
  BY <1>3
<1>7. IsInjective(source)
  BY <1>6 DEF IsInjective
<1> QED
  BY <1>5, <1>7

\* Something of a trace fits just when the first span does.
LEMMA RoomForFirst ==
  ASSUME NEW maxSpans, NEW h, Limit(maxSpans, h), NEW m \in Nat \ {0}
  PROVE  Room(maxSpans, h, m) > 0 <=> InCap(maxSpans, h, 0)
  BY DEF Room, Least, InCap, Limit

\* The engine spans of a trace that carry something.
Carriers(spans, id) == {i \in DOMAIN spans : spans[i].tid = id /\ spans[i].raw # NoRaw}

\* The engine spans of one trace of a delivery: the first may carry a snapshot.
LEMMA TraceCarried ==
  ASSUME NEW S, Numbered(S), NEW s \in Seq(S), IDsDiffer(s), Sorted(s), NEW maxSpans, NEW inBuffer,
         Limits(s, maxSpans, inBuffer), NEW id \in {s[i].tid : i \in DOMAIN s},
         NEW u, u = ToEngineSpans(s, maxSpans, inBuffer)
  PROVE  /\ Arranged(S, CarriedFor(u, id))
         /\ SpansOf(CarriedFor(u, id)) = Fitting(OfTrace(s, id), maxSpans, inBuffer[id])
         /\ Cardinality(Carriers(u, id))
              = IF Room(maxSpans, inBuffer[id], Len(OfTrace(s, id))) > 0 THEN 1 ELSE 0
<1> DEFINE n == Len(s)
           h == inBuffer[id]
           mine == OfTrace(s, id)
<1>1. PICK a : /\ Visits(a, s, maxSpans, inBuffer) /\ u = Loaded(a[n])
               /\ \A k \in 0..n : Loading(S, a[k], s, maxSpans, inBuffer, k)
  BY LoopLoads
<1>2. /\ n \in Nat /\ DOMAIN s = 1..n /\ Limit(maxSpans, h)
      /\ Loading(S, a[n], s, maxSpans, inBuffer, n)
  BY <1>1, LenProperties DEF Limits, Limit
<1> DEFINE end == a[n]
           snap == end.snap[id]
<1>3. Arranged(S, snap) /\ SpansOf(snap) = Fitting(mine, maxSpans, h)
  BY <1>1, SnapshotOrdered
<1>4. PICK c \in 1..n : s[c].tid = id /\ FirstOfTrace(s, c)
  <2>1. PICK i \in 1..n : s[i].tid = id
    BY <1>2
  <2>2. PICK j \in 1..i : s[j].tid = s[i].tid /\ FirstOfTrace(s, j)
    BY <2>1, FirstExists
  <2>3. j \in 1..n
    BY <1>2, <2>1
  <2> QED
    BY <2>1, <2>2, <2>3
<1> HIDE DEF n
<1>5. /\ u \in Seq(Range(u)) /\ DOMAIN u = 1..n /\ Len(u) = n
      /\ \A i \in 1..n : u[i].tid = s[i].tid /\ u[i].raw \in Snapshots(S)
  <2>1. /\ u \in Seq(Range(u)) /\ DOMAIN u = 1..n
        /\ \A i \in 1..n : u[i].tid = s[i].tid /\ u[i].raw \in Snapshots(S)
    BY Conversion DEF n
  <2> QED
    BY <1>2, <2>1, LenProperties
<1> DEFINE fits == Fits(s, maxSpans, inBuffer, c)
<1>6. \A i \in 1..n : s[i].tid = id =>
        u[i].raw = IF i = c /\ fits THEN snap ELSE <<>>
  <2>1. /\ DOMAIN end.out = 1..n
        /\ \A i \in 1..n : end.out[i].tid = s[i].tid
        /\ end.carriers = {i \in 1..n : FirstOfTrace(s, i) /\ Fits(s, maxSpans, inBuffer, i)}
    BY <1>2, LenProperties DEF Loading
  <2>2. \A i \in 1..n : u[i].raw = IF i \in end.carriers THEN end.snap[s[i].tid] ELSE <<>>
    BY <1>1, <2>1 DEF Loaded, NoRaw
  <2>3. \A i \in 1..n : s[i].tid = id /\ FirstOfTrace(s, i) => i = c
    BY <1>2, <1>4 DEF FirstOfTrace
  <2> HIDE DEF end
  <2> QED
    BY <1>4, <2>1, <2>2, <2>3
<1>7. LoadedTrace(S, snap, s, maxSpans, inBuffer, n, id)
  BY <1>2 DEF Loading
<1> HIDE DEF snap
<1>8. fits => snap # <<>>
  BY <1>4, <1>7 DEF LoadedTrace
<1>9. ~fits => snap = <<>>
  <2>1. ~fits => FittingIDs(s, maxSpans, inBuffer, n, id) = {}
    BY <1>2, <1>4, FirstFits
  <2>2. FittingIDs(s, maxSpans, inBuffer, n, id) = {} =>
          \A i \in 1..n : ~(s[i].tid = id /\ Fits(s, maxSpans, inBuffer, i))
    BY DEF FittingIDs
  <2> QED
    BY <1>7, <2>1, <2>2 DEF LoadedTrace
<1>10. u[c].raw = snap
  BY <1>4, <1>6, <1>9
<1>11. CarriedFor(u, id) = snap
  <2>1. \A x \in Range(u) : x.raw \in Seq(Blocks(S))
    BY <1>5 DEF Range, Snapshots
  <2>2. c \in 1..Len(u) /\ u[c].tid = id
    BY <1>4, <1>5
  <2>3. \A i \in 1..Len(u) : u[i].tid = id /\ i # c => u[i].raw = <<>>
    BY <1>5, <1>6
  <2>4. CarriedFor(u, id) = u[c].raw
    <3> DEFINE U == Range(u)
               B == Blocks(S)
    <3>1. u \in Seq(U) /\ \A x \in U : x.raw \in Seq(B)
      BY <1>5, <2>1
    <3> HIDE DEF U, B
    <3> QED
      BY <2>2, <2>3, <3>1, OneCarries, ZenonT(60)
  <2> QED
    BY <1>10, <2>4
<1>12. fits <=> Room(maxSpans, h, Len(mine)) > 0
  <2>1. Brought(s, c - 1, id) = 0
    <3>1. c - 1 \in Nat
      BY <1>2
    <3> QED
      BY <1>4, <3>1, BroughtGrows DEF FirstOfTrace
  <2>2. Len(mine) \in Nat \ {0}
    <3>1. PICK f : Selects(f, s, id) /\ \A k \in 0..n : f[k] \in Seq(S)
      BY TraceSelected DEF n
    <3>2. Len(mine) = Brought(s, n, id)
      <4>1. \A k \in 0..n : Len(f[k]) = Brought(s, k, id)
        BY <3>1, SelectedAsBrought DEF n
      <4>2. mine = f[n] /\ n \in 0..n
        BY <1>2, <3>1 DEF Selects, n
      <4> QED
        BY <4>1, <4>2
    <3> QED
      BY <1>2, <1>4, <3>2, BroughtGrows
  <2>3. fits <=> InCap(maxSpans, h, 0)
    BY <1>4, <2>1 DEF Fits
  <2> HIDE DEF mine
  <2> QED
    BY <1>2, <2>2, <2>3, RoomForFirst
<1>13. Carriers(u, id) = IF fits THEN {c} ELSE {}
  BY <1>4, <1>5, <1>6, <1>8 DEF Carriers, NoRaw
<1>14. Cardinality({c}) = 1 /\ Cardinality({}) = 0
  BY FS_Singleton, FS_EmptySet
<1> HIDE DEF mine, fits
<1> QED
  BY <1>3, <1>11, <1>12, <1>13, <1>14 DEF mine, snap

\* For deliveries of any length, any cap and any number of spans the engine holds:
\* each snapshot is the first spans of its trace that fit, each under its source.
THEOREM SnapshotsHoldFirstSpans == Spec => []SnapshotsAreFirstSpans
<1>1. ASSUME DeliveryInv PROVE SnapshotsAreFirstSpans
  <2> DEFINE S == SourceSpans
             u == ToEngineSpans(td, cap, held)
             ids == {td[i].tid : i \in DOMAIN td}
  <2>1. /\ td \in Seq(S) /\ DOMAIN td = 1..Len(td) /\ Len(td) \in Nat
        /\ \A i \in 1..Len(td) : td[i].sid = i
    BY <1>1, LenProperties DEF DeliveryInv
  <2>2. Numbered(S) /\ IDsDiffer(td) /\ Sorted(td)
    BY <1>1, <2>1 DEF Numbered, SourceSpans, IDsDiffer, Sorted, DeliveryInv
  <2>3. Limits(td, cap, held)
    <3>1. cap \in Nat
      BY <1>1, StudiesAssumption DEF DeliveryInv
    <3>2. \A i \in DOMAIN td : td[i].tid \in Studies[study].ids
      <4>1. \A i \in DOMAIN td : td[i] \in SourceSpans
        BY <2>1, ElementOfSeq
      <4> QED
        BY <4>1 DEF SourceSpans
    <3> QED
      BY <1>1, <3>1, <3>2 DEF DeliveryInv, Limits
  <2> HIDE DEF S
  <2>4. /\ u \in Seq(Range(u)) /\ DOMAIN u = 1..Len(td)
        /\ \A i \in 1..Len(td) : u[i].tid = td[i].tid /\ u[i].sid = td[i].sid
    BY <2>1, <2>2, <2>3, Conversion
  <2> HIDE DEF u
  <2>5. Len(u) = Len(td)
    BY <2>1, <2>4, LenProperties
  <2>6. ASSUME NEW id \in ids
        PROVE  LET mine == OfTrace(td, id)
                   room == Room(cap, held[id], Len(mine))
                   blocks == CarriedFor(u, id)
               IN /\ SpansOf(blocks) = SubSeq(mine, 1, room)
                  /\ \A b \in Range(blocks), sp \in UNION {Range(x.spans) : x \in Range(blocks)} :
                       sp \in Range(b.spans) <=> sp.ri = b.ri /\ sp.si = b.si
                  /\ IsInjective([i \in DOMAIN blocks |-> <<blocks[i].ri, blocks[i].si>>])
                  /\ Cardinality({i \in DOMAIN u : u[i].tid = id /\ u[i].raw # NoRaw})
                       = (IF room > 0 THEN 1 ELSE 0)
    <3>1. u = ToEngineSpans(td, cap, held)
      BY DEF u
    <3>2. /\ Arranged(S, CarriedFor(u, id))
          /\ SpansOf(CarriedFor(u, id)) = Fitting(OfTrace(td, id), cap, held[id])
          /\ Cardinality(Carriers(u, id))
               = IF Room(cap, held[id], Len(OfTrace(td, id))) > 0 THEN 1 ELSE 0
      BY <2>1, <2>2, <2>3, <2>6, <3>1, TraceCarried
    <3> DEFINE carried == CarriedFor(u, id)
    <3>3. /\ \A b \in Range(carried), sp \in UNION {Range(x.spans) : x \in Range(carried)} :
               sp \in Range(b.spans) <=> sp.ri = b.ri /\ sp.si = b.si
          /\ IsInjective([i \in DOMAIN carried |-> <<carried[i].ri, carried[i].si>>])
      <4> HIDE DEF carried
      <4>1. Arranged(S, carried)
        BY <3>2 DEF carried
      <4> QED
        BY <2>2, <4>1, ArrangedBlocks
    <3> QED
      BY <3>2, <3>3 DEF Carriers, Fitting
  <2> QED
    BY <2>1, <2>4, <2>5, <2>6 DEF SnapshotsAreFirstSpans, SnapshotOfFirstSpans, u
<1> QED
  BY <1>1, DeliveriesAsRead, PTL
=============================================================================
