--------------------------- MODULE RowTranslation ---------------------------
(***************************************************************************)
(* What components/clickhouseexporter/exporter.go computes: one row per    *)
(* span.  statusString and durationNS are its own copies of the sampler's. *)
(* A pdata map is a sequence of pairs and may repeat a key.                *)
(***************************************************************************)
EXTENDS Words, SequencesExt

RowStatus == [Unset |-> "", Ok |-> "OK", Error |-> "ERROR"]

\* Mutant: the exporter's copy has lost the guard.
UnguardedRowDuration(sp) == ToSigned(sp.end - sp.start)
RowDuration(sp) == IF sp.end < sp.start THEN 0 ELSE ToSigned(sp.end - sp.start)

\* A later pair overwrites an earlier one with its key.
AttrMap(pairs) ==
  [k \in {p[1] : p \in Range(pairs)} |-> pairs[SelectLastInSeq(pairs, LAMBDA p : p[1] = k)][2]]

RowOf(sp) ==
  [timestamp |-> ToSigned(sp.start), tid |-> sp.tid, sid |-> sp.sid,
   status |-> RowStatus[sp.status], duration |-> RowDuration(sp),
   attributes |-> AttrMap(sp.attrs)]

ToRows(blocks) ==
  FlattenSeq([i \in DOMAIN blocks |->
                [j \in DOMAIN blocks[i].spans |-> RowOf(blocks[i].spans[j])]])
=============================================================================
