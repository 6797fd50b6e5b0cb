----------------------------- MODULE MetadataInv -----------------------------
(***************************************************************************)
(* The inductive invariant of Metadata: the tails are those of the blocks   *)
(* drawn so far, and the row is what write_file gave, whoever wrote it last. *)
(***************************************************************************)
EXTENDS Metadata

\* The words that write_file makes of block indexes.
TailsOf(indexes) == { TailSe(i) : i \in indexes }

Metas ==
  [n : 0 .. IntMax, se : Nat,
   tailFk : {TailFk, Garbage}, tailSk : {TailSk, Garbage},
   tailsSe : Seq(TailsOf(0 .. IntMax)),
   tailSgx : {TailSgx, <<Garbage>>, <<>>}]

DrawnInv ==
  /\ given \in Metas
  /\ chosen \subseteq 0 .. given.n - 1
  /\ given.tailsSe \in Seq(TailsOf(chosen))
  /\ Len(given.tailsSe) = Cardinality(chosen)
  /\ TailsOf(chosen) \subseteq { given.tailsSe[k] : k \in DOMAIN given.tailsSe }
  /\ pc = "start" => given = NoMeta /\ chosen = {}
  /\ pc # "start" => given.tailSgx = IF given.se = 0 THEN <<Garbage>> ELSE TailSgx
  /\ pc = "choose" => Cardinality(chosen) <= given.se
  /\ pc \in {"insert", "done"} => Cardinality(chosen) = given.se

RowInv ==
  /\ pc # "done" => /\ row = NoMeta
                    /\ ~ holding /\ ~ readDone /\ ~ overflowed
  /\ pc = "done" => row = RowOf(given)
  /\ holding => held = MetaOf(row) /\ rekeys < MaxReKeys

IInv ==
  /\ TypeOK
  /\ DrawnInv
  /\ RowInv
  /\ ReaderFindsBlocks
  /\ BoundsKept
  /\ StreamRoundTrip

=============================================================================
