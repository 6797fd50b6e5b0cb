------------------------------ MODULE Metadata ------------------------------
(***************************************************************************)
(* The metadata of one file, from write_file through table meta to the     *)
(* workers that read and write it back and to read_file                    *)
(* (client/client.cpp, client/serialization.cpp, cass.cpp of client and    *)
(* server), with the arrays it passes through.                             *)
(*                                                                         *)
(* Memory is counted in words of 32 bytes.  A word is known by what it     *)
(* holds; that of an index carries the bytes that are encrypted under SK.  *)
(* A byte has Base values, and an integer four of them.                    *)
(***************************************************************************)
EXTENDS Integers, Sequences, FiniteSets

CONSTANTS
  Base,        \* values of a byte; 256 in the code
  BlockCounts, \* blocks a file may have
  SeCounts,    \* values of SE_BLOCKS_COUNT
  TailsSeLen,  \* entries of the tails_se of a reader or worker; 32
  SgxWords,    \* words of tail_sgx; 256 bytes are 8
  MaxReKeys    \* bound: times the row is read and written back

\* What each of the four bytes of an integer counts.
Weight == <<Base * Base * Base, Base * Base, Base, 1>>

IntMax == (Base * Weight[1]) \div 2 - 1

ASSUME MetadataAssumption ==
  /\ Base \in Nat \ {0} /\ Base % 2 = 0
  /\ BlockCounts \subseteq 0 .. IntMax
  /\ SeCounts \subseteq Nat
  /\ TailsSeLen \in Nat /\ SgxWords \in Nat \ {0} /\ MaxReKeys \in Nat

-----------------------------------------------------------------------------
(* Integers as bytes, the most significant first.                          *)

Byte == 0 .. Base - 1

long_to_byte_array(n) == [i \in 1 .. 4 |-> (n \div Weight[i]) % Base]

Unsigned(b) ==
  b[1] * Weight[1] + b[2] * Weight[2] + b[3] * Weight[3] + b[4]

\* The sum is one of ints: the first byte carries the sign into the long.
byte_array_to_long_swapped(b) == Unsigned(<<b[1], b[3], b[2], b[4]>>)
byte_array_to_long(b) ==
  IF b[1] < Base \div 2 THEN Unsigned(b) ELSE Unsigned(b) - Base * Weight[1]

pack32(n) == long_to_byte_array(n)
unpack32(b) == Unsigned(b)

-----------------------------------------------------------------------------
(* Words.                                                                  *)

Garbage == [of |-> "garbage"]
TailFk == [of |-> "fk"]
TailSk == [of |-> "sk"]
Iv == [of |-> "iv"]
TailSgx == [k \in 1 .. SgxWords |-> [of |-> "sgx", word |-> k]]
TailSe(index) == [of |-> "se", bytes |-> long_to_byte_array(index)]

NoMeta == [n |-> 0, se |-> 0, tailFk |-> Garbage, tailSk |-> Garbage,
           tailsSe |-> <<>>, tailSgx |-> <<>>]

\* insert_meta: of tail_sgx, 32 bytes are bound.  The buffer for the tails has a
\* word for every block of the file; the row is modelled with those that are
\* filled, since the others are what malloc gave and no reader comes to them.
RowOf(meta) == [meta EXCEPT !.tailSgx = SubSeq(meta.tailSgx, 1, 1)]

InsertOverflows(meta) == meta.se > meta.n

\* get_meta: as many tails as se_blocks_count says go to an array of fixed size.
MetaOfFirstTail(r) == [r EXCEPT !.tailsSe = [k \in 1 .. r.se |-> r.tailsSe[1]]]
MetaOf(r) == [r EXCEPT !.tailsSe = SubSeq(r.tailsSe, 1, r.se)]
GetOverflowsByBlocks(r) == r.n > TailsSeLen
GetOverflows(r) == r.se > TailsSeLen

-----------------------------------------------------------------------------
(* The stream that a storage service gets instead of a row.                *)

serialize_metadata_to_stream(meta) ==
  pack32(meta.n) \o pack32(meta.se) \o <<meta.tailFk, meta.tailSk>>
    \o SubSeq(meta.tailsSe, 1, meta.se) \o meta.tailSgx \o <<Iv>>

TailsAt(stream) == 11
SgxAtFixed(stream) == TailsAt(stream) + 1
SgxAt(stream) == TailsAt(stream) + unpack32(SubSeq(stream, 5, 8))

deserialize_metadata_stream(stream) ==
  [n |-> unpack32(SubSeq(stream, 1, 4)), se |-> unpack32(SubSeq(stream, 5, 8)),
   tailFk |-> stream[9], tailSk |-> stream[10],
   tailsSe |-> SubSeq(stream, TailsAt(stream), SgxAt(stream) - 1),
   tailSgx |-> SubSeq(stream, SgxAt(stream), SgxAt(stream) + SgxWords - 1)]

-----------------------------------------------------------------------------
VARIABLES
  pc,         \* of write_file: "start", "choose", "insert", "done" or "dead"
  given,      \* what write_file passes to insert_meta
  chosen,     \* super_encrypted_blocks_index
  row,        \* the row of table meta
  held,       \* what a worker has read
  holding,    \* a worker is between get_meta and insert_meta
  rekeys,     \* rows written back so far
  found,      \* block indexes that read_file has decrypted
  readDone,   \* read_file has been through the indexes
  overflowed  \* an array of tails was left: anything may follow

writeVars == <<pc, given, chosen>>
workerVars == <<held, holding, rekeys>>
readVars == <<found, readDone>>
vars == <<writeVars, row, workerVars, readVars, overflowed>>

Init ==
  /\ pc = "start" /\ given = NoMeta /\ chosen = {}
  /\ row = NoMeta
  /\ held = NoMeta /\ holding = FALSE /\ rekeys = 0
  /\ found = {} /\ readDone = FALSE
  /\ overflowed = FALSE

\* With SE_BLOCKS_COUNT = 0 the call goes to write_file_aes, which passes empty
\* string literals where insert_meta takes 32 bytes.  Otherwise rand() %
\* number_of_blocks traps on an empty file.
StartWrite ==
  /\ pc = "start"
  /\ \E n \in BlockCounts, s \in SeCounts :
       /\ given' = IF s = 0
                   THEN [NoMeta EXCEPT !.n = n, !.tailSgx = <<Garbage>>]
                   ELSE [n |-> n, se |-> s, tailFk |-> TailFk, tailSk |-> TailSk,
                         tailsSe |-> <<>>, tailSgx |-> TailSgx]
       /\ pc' = IF s = 0 THEN "insert" ELSE IF n = 0 THEN "dead" ELSE "choose"
  /\ UNCHANGED <<chosen, row, workerVars, readVars, overflowed>>

\* One turn of the loop over SE_BLOCKS_COUNT: random blocks are drawn until one
\* is not taken, for ever if all of them are.
MoreToChoose == Cardinality(chosen) < given.se

FreeBlocksOneMore == (0 .. given.n) \ chosen
FreeBlocksButLast == (0 .. given.n - 2) \ chosen
FreeBlocks == (0 .. given.n - 1) \ chosen

ChooseBlock ==
  /\ pc = "choose"
  /\ MoreToChoose
  /\ \E index \in FreeBlocks :
       /\ chosen' = chosen \cup {index}
       /\ given' = [given EXCEPT !.tailsSe = Append(@, TailSe(index))]
  /\ UNCHANGED <<pc, row, workerVars, readVars, overflowed>>

AllChosen ==
  /\ pc = "choose"
  /\ ~ MoreToChoose
  /\ pc' = "insert"
  /\ UNCHANGED <<given, chosen, row, workerVars, readVars, overflowed>>

InsertMeta ==
  /\ pc = "insert"
  /\ pc' = "done"
  /\ row' = RowOf(given)
  /\ overflowed' = (overflowed \/ InsertOverflows(given))
  /\ UNCHANGED <<given, chosen, workerVars, readVars>>

\* re_key of a worker, before and after the ecall.  The enclave takes 256 bytes
\* for tail_sgx, of which the row has kept 32; but it uses nothing of the SK and
\* the indexes it gets out of that, and changes no metadata.
WorkerGetMeta ==
  /\ pc = "done" /\ ~ overflowed
  /\ ~ holding /\ rekeys < MaxReKeys
  /\ held' = MetaOf(row)
  /\ holding' = TRUE
  /\ overflowed' = GetOverflows(row)
  /\ UNCHANGED <<writeVars, row, rekeys, readVars>>

WorkerInsertMeta ==
  /\ holding /\ ~ overflowed
  /\ row' = RowOf(held)
  /\ holding' = FALSE
  /\ rekeys' = rekeys + 1
  /\ overflowed' = InsertOverflows(held)
  /\ UNCHANGED <<writeVars, held, readVars>>

deserialize_metadata_file == MetaOf(row)

\* read_file as far as the metadata goes: the tails, decrypted under SK, give
\* the blocks to decrypt twice.
ReadIndexes ==
  /\ pc = "done" /\ ~ overflowed
  /\ ~ readDone
  /\ LET got == deserialize_metadata_file IN
       found' = { byte_array_to_long(got.tailsSe[k].bytes) : k \in 1 .. got.se }
  /\ readDone' = TRUE
  /\ overflowed' = GetOverflows(row)
  /\ UNCHANGED <<writeVars, row, workerVars>>

Next ==
  \/ StartWrite \/ ChooseBlock \/ AllChosen \/ InsertMeta
  \/ WorkerGetMeta \/ WorkerInsertMeta
  \/ ReadIndexes

\* write_file goes on; rand() hits every block in the end.
Fairness == WF_vars(ChooseBlock) /\ WF_vars(AllChosen) /\ WF_vars(InsertMeta)

Spec == Init /\ [][Next]_vars /\ Fairness

-----------------------------------------------------------------------------
TypeOK ==
  /\ pc \in {"start", "choose", "insert", "done", "dead"}
  /\ chosen \subseteq 0 .. given.n - 1
  /\ rekeys \in 0 .. MaxReKeys
  /\ \A k \in DOMAIN given.tailsSe : given.tailsSe[k].bytes \in [1 .. 4 -> Byte]
  /\ holding \in BOOLEAN /\ readDone \in BOOLEAN /\ overflowed \in BOOLEAN

\* A reader finds the super-encrypted blocks, for every number of blocks an int
\* can hold, and however often workers have written the metadata back from
\* their own copies (client.cpp 398-415, App rekey.cpp 65-96).
ReaderFindsBlocks == readDone /\ ~ overflowed => found = chosen

\* Reading and writing back loses nothing of what a reader needs: a row that a
\* worker wrote is the row that write_file wrote.
WriteBackChangesNothing == [][rekeys' # rekeys => row' = row]_vars

\* No array is left as long as the caller asks for no more super-encrypted
\* blocks than tails_se has entries, whatever se_blocks_count fills a buffer of
\* blocks_count words with (client cass.cpp 19-24, 86-91).
BoundsKept == overflowed => row.se > TailsSeLen

\* What goes into a stream comes out of it (serialization.cpp 53-144).
StreamRoundTrip ==
  pc = "insert" /\ given.se > 0 =>
    deserialize_metadata_stream(serialize_metadata_to_stream(given)) = given

\* The search for blocks to super-encrypt ends for every file that has enough
\* of them (client.cpp 119-141).
SearchEnds ==
  pc = "choose" /\ given.se <= given.n ~> pc = "done"

=============================================================================
