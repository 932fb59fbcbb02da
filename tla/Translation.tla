---------------------------- MODULE Translation ----------------------------
(***************************************************************************)
(* Deliveries of pdata, and what both components make of them: td grows by *)
(* one span at a time, in the resource and scope of the last one, in a new *)
(* scope or in a new resource.  Its span ids are its positions.  A study   *)
(* fixes what varies: where spans are placed under a cap, or the numbers   *)
(* of a single span.                                                       *)
(***************************************************************************)
EXTENDS SpanTranslation, RowTranslation

CONSTANTS
  Studies   \* by name: trace ids, payloads (status, start, end, attributes),
            \* policy lists, values of MaxSpansPerTrace, bound on a delivery's spans

\* Payloads and lists of policies are what the code's types can hold.
PayloadOK(p) ==
  /\ p.status \in {"Unset", "Ok", "Error"} /\ p.start \in Words /\ p.end \in Words
  /\ p.attrs \in Seq(Range(p.attrs))

\* Whatever the case, EqualFold tells a non-empty string from the empty one.
FoldedApart(pc) == pc.keep # "" => ~EqualFold("", pc.keep)

PoliciesOK(list) ==
  /\ list \in Seq(Range(list))
  /\ \A pc \in Range(list) : pc.thresholdMS \in Int /\ FoldedApart(pc)

ASSUME StudiesAssumption ==
  \A name \in DOMAIN Studies :
    /\ Studies[name].caps \subseteq Nat
    /\ \A p \in Studies[name].payloads : PayloadOK(p)
    /\ \A list \in Studies[name].configs : PoliciesOK(list)

VARIABLES td, held, cap, cfg, study

LastSource == IF td = <<>> THEN [ri |-> 1, si |-> 1] ELSE [ri |-> Last(td).ri, si |-> Last(td).si]

Sources ==
  {LastSource, [LastSource EXCEPT !.si = @ + 1], [ri |-> LastSource.ri + 1, si |-> 1]}

Init ==
  /\ study \in DOMAIN Studies
  /\ td = <<>> /\ cap \in Studies[study].caps /\ cfg \in Studies[study].configs
  /\ held \in [Studies[study].ids -> 0..cap]

Next ==
  /\ Len(td) < Studies[study].bound
  /\ \E id \in Studies[study].ids, source \in Sources, p \in Studies[study].payloads :
       td' = Append(td, [tid |-> id, sid |-> Len(td) + 1, ri |-> source.ri, si |-> source.si,
                         status |-> p.status, start |-> p.start, end |-> p.end,
                         attrs |-> p.attrs])
  /\ UNCHANGED <<held, cap, cfg, study>>

Spec == Init /\ [][Next]_<<td, held, cap, cfg, study>>

-----------------------------------------------------------------------------
\* Whatever the delivery, the cap and the spans the engine holds already, each
\* snapshot is the first spans that fit (toEngineSpans, fromEngineSpans).
SnapshotsAreFirstSpans == SnapshotOfFirstSpans(td, cap, held)

\* A validated configuration keeps the spans it describes (config.go's Validate
\* with buildPolicies and the policies' Evaluate).
PoliciesMeanWhatTheySay == \A i \in DOMAIN td : KeepsAsConfigured(cfg, td[i])

\* Every span of a delivery that passes both components uncapped becomes one
\* row, under its own ids, with the status and the duration the sampler judged
\* it by, although each component has its own copy of these conversions, with
\* the start time as long as it fits, and with the last value of each attribute.
StoredAsJudged ==
  LET spans == ToEngineSpans(td, 0, held)
      rows == ToRows(FromEngineSpans(spans))
  IN /\ Len(rows) = Len(td)
     /\ \A i \in DOMAIN td : \E row \in Range(rows) :
          /\ row.sid = td[i].sid /\ row.tid = td[i].tid
          /\ row.status = spans[i].kind.status /\ row.duration = spans[i].kind.duration
          /\ td[i].start <= MaxSigned => row.timestamp = td[i].start
          /\ DOMAIN row.attributes = {p[1] : p \in Range(td[i].attrs)}
          /\ \A j \in DOMAIN td[i].attrs :
               (\A l \in DOMAIN td[i].attrs : td[i].attrs[l][1] = td[i].attrs[j][1] => l <= j)
                 => row.attributes[td[i].attrs[j][1]] = td[i].attrs[j][2]
=============================================================================
