--------------------------- MODULE SpanTranslation ---------------------------
(***************************************************************************)
(* What components/astrienasampler computes: the engine spans and the      *)
(* snapshots it makes of a delivery of pdata (toEngineSpans), the pdata it *)
(* makes of sampled spans (fromEngineSpans), and the policies it makes of  *)
(* a configuration.                                                        *)
(*                                                                         *)
(* A delivery is the sequence of its spans in the order of the nested      *)
(* loops over resources, scopes and spans; each span names the indices ri  *)
(* and si of its resource and scope.  pdata that is built, a snapshot or   *)
(* what goes to the next consumer, is a sequence of blocks: a resource     *)
(* with the one scope and the spans that were appended to it.              *)
(***************************************************************************)
EXTENDS Words, SequencesExt

CONSTANTS
  MsInNs,    \* time.Millisecond
  Lower(_)   \* strings.ToLower, for EqualFold

ASSUME MsInNsAssumption == MsInNs \in Nat \ {0}

NoRaw == <<>>   \* Raw == nil

-----------------------------------------------------------------------------
(* The fields the policies look at.                                        *)

StatusString == [Unset |-> "", Ok |-> "OK", Error |-> "ERROR"]

DurationNS(sp) == IF sp.end < sp.start THEN 0 ELSE ToSigned(sp.end - sp.start)

KindOf(sp) == [status |-> StatusString[sp.status], duration |-> DurationNS(sp)]

-----------------------------------------------------------------------------
(* toEngineSpans.                                                          *)

\* Mutant: a trace has one block per resource, whatever the scope.
AppendToResource(snap, sp) ==
  LET at == SelectInSeq(snap, LAMBDA b : b.ri = sp.ri)
  IN IF at = 0 THEN Append(snap, [ri |-> sp.ri, si |-> sp.si, spans |-> <<sp>>])
     ELSE [snap EXCEPT ![at].spans = Append(@, sp)]

\* The source resource and scope are copied once, then spans are appended.
AppendToBlock(snap, sp) ==
  LET at == SelectInSeq(snap, LAMBDA b : b.ri = sp.ri /\ b.si = sp.si)
  IN IF at = 0 THEN Append(snap, [ri |-> sp.ri, si |-> sp.si, spans |-> <<sp>>])
     ELSE [snap EXCEPT ![at].spans = Append(@, sp)]

SpansOf(blocks) == FlattenSeq([i \in DOMAIN blocks |-> blocks[i].spans])
SpanIDsOf(spans) == {spans[i].sid : i \in DOMAIN spans}

\* Mutant: the cap itself still counts as room.
InCapLate(maxSpans, held, copied) == maxSpans <= 0 \/ held + copied <= maxSpans
InCap(maxSpans, held, copied) == maxSpans <= 0 \/ held + copied < maxSpans

\* One iteration of the innermost loop.  acc.snap is snapByTrace with its
\* scopeByGroup, acc.carriers the positions whose Raw is the trace's snapshot.
Visit(acc, sp, maxSpans, held) ==
  LET out == Append(acc.out, [tid |-> sp.tid, sid |-> sp.sid, kind |-> KindOf(sp)])
      snap == acc.snap[sp.tid]
  IN IF InCap(maxSpans, held[sp.tid], Len(SpansOf(snap)))
     THEN [out |-> out,
           snap |-> [acc.snap EXCEPT ![sp.tid] = AppendToBlock(@, sp)],
           carriers |-> IF snap = <<>> THEN acc.carriers \cup {Len(out)} ELSE acc.carriers]
     ELSE [acc EXCEPT !.out = out]

\* held is defined for every trace id; ids that are not buffered have 0.
ToEngineSpans(td, maxSpans, held) ==
  LET ids == {td[i].tid : i \in DOMAIN td}
      none == [out |-> <<>>, snap |-> [id \in ids |-> <<>>], carriers |-> {}]
      end == FoldLeft(LAMBDA acc, sp : Visit(acc, sp, maxSpans, held), none, td)
  IN [i \in DOMAIN end.out |->
        [tid |-> end.out[i].tid, sid |-> end.out[i].sid, kind |-> end.out[i].kind,
         raw |-> IF i \in end.carriers THEN end.snap[end.out[i].tid] ELSE NoRaw]]

UniqueTraceIDs(td) ==
  FoldLeft(LAMBDA ids, sp : IF sp.tid \in Range(ids) THEN ids ELSE Append(ids, sp.tid), <<>>, td)

-----------------------------------------------------------------------------
\* fromEngineSpans: the snapshots that the spans carry, one after the other.
FromEngineSpans(spans) == FlattenSeq([i \in DOMAIN spans |-> spans[i].raw])

-----------------------------------------------------------------------------
(* Configuration and policies.                                             *)

EqualFold(s, t) == Lower(s) = Lower(t)

\* Mutant: a status_code policy may leave keep empty.
AcceptsEmptyKeep(pc) ==
  pc.type = "status_code" \/ (pc.type = "latency" /\ pc.thresholdMS > 0)

Accepts(pc) ==
  \/ pc.type = "status_code" /\ pc.keep # ""
  \/ pc.type = "latency" /\ pc.thresholdMS > 0

Validate(cfg) == \A i \in DOMAIN cfg : Accepts(cfg[i])

\* A type that buildPolicies does not know makes no policy.
PolicyOf(pc) ==
  CASE pc.type = "status_code" -> <<[name |-> "status_code", keep |-> pc.keep]>>
    [] pc.type = "latency" ->
         <<[name |-> "latency", thresholdNS |-> ToSigned(pc.thresholdMS * MsInNs)]>>
    [] OTHER -> <<>>

BuildPolicies(cfg) == FlattenSeq([i \in DOMAIN cfg |-> PolicyOf(cfg[i])])

\* One span makes StatusCodePolicy or LatencyPolicy answer Sampled.
Matches(p, kind) ==
  \/ p.name = "status_code" /\ EqualFold(kind.status, p.keep)
  \/ p.name = "latency" /\ kind.duration >= p.thresholdNS

KeptBy(cfg, kind) == \E p \in Range(BuildPolicies(cfg)) : Matches(p, kind)

-----------------------------------------------------------------------------
(* What the translation is for.                                            *)

Least(m, n) == IF m <= n THEN m ELSE n
OfTrace(td, id) ==
  FlattenSeq([i \in DOMAIN td |-> IF td[i].tid = id THEN <<td[i]>> ELSE <<>>])
CarriedFor(spans, id) == FromEngineSpans(OfTrace(spans, id))

\* How many of so many spans fit beside those that the engine holds.
Room(maxSpans, heldSpans, spans) ==
  IF maxSpans <= 0 THEN spans ELSE Least(spans, maxSpans - Least(heldSpans, maxSpans))

\* The snapshot of each trace of a delivery holds the spans that fit under the
\* cap, the first ones and in order, each under its own resource and scope, of
\* which it has one copy; it travels in one engine span, and every span of the
\* delivery becomes one engine span, in or out of the cap (toEngineSpans).
SnapshotOfFirstSpans(td, maxSpans, held) ==
  LET spans == ToEngineSpans(td, maxSpans, held)
  IN /\ Len(spans) = Len(td)
     /\ \A i \in DOMAIN td : spans[i].tid = td[i].tid /\ spans[i].sid = td[i].sid
     /\ \A id \in {td[i].tid : i \in DOMAIN td} :
          LET mine == OfTrace(td, id)
              room == Room(maxSpans, held[id], Len(mine))
              blocks == CarriedFor(spans, id)
          IN /\ SpansOf(blocks) = SubSeq(mine, 1, room)
             /\ \A b \in Range(blocks), sp \in UNION {Range(x.spans) : x \in Range(blocks)} :
                  sp \in Range(b.spans) <=> sp.ri = b.ri /\ sp.si = b.si
             /\ IsInjective([i \in DOMAIN blocks |-> <<blocks[i].ri, blocks[i].si>>])
             /\ Cardinality({i \in DOMAIN spans : spans[i].tid = id /\ spans[i].raw # NoRaw})
                  = (IF room > 0 THEN 1 ELSE 0)

\* What a policy entry says of a span, in exact arithmetic: its status is the
\* one named, or it lasted at least that many milliseconds.
EntryMeans(pc, sp) ==
  \/ /\ pc.type = "status_code" /\ sp.status # "Unset"
     /\ EqualFold(pc.keep, StatusString[sp.status])
  \/ /\ pc.type = "latency"
     /\ sp.end >= sp.start /\ sp.end - sp.start >= pc.thresholdMS * MsInNs

\* The nanoseconds of a threshold and of a span fit in an int64.
InRange(cfg, sp) ==
  /\ sp.end - sp.start <= MaxSigned
  /\ \A i \in DOMAIN cfg : cfg[i].thresholdMS * MsInNs <= MaxSigned

\* A configuration that validates keeps exactly the spans its entries describe
\* (Validate, buildPolicies, statusString, durationNS and Evaluate together).
KeepsAsConfigured(cfg, sp) ==
  Validate(cfg) /\ InRange(cfg, sp)
    => (KeptBy(cfg, KindOf(sp)) <=> \E i \in DOMAIN cfg : EntryMeans(cfg[i], sp))
=============================================================================
