----------------------------- MODULE ChunkPlan ------------------------------
(***************************************************************************)
(* How a file is cut into chunks and how the two sides tell each other     *)
(* which of them have arrived (chunk.rs): the plan both compute, the words *)
(* of a ResumeMap, the bytes of the bitmap it is sent as, the rows it is   *)
(* rebuilt from, the progress shown, and the test of a chunk's header      *)
(* (transfer.rs, incoming.rs).                                             *)
(*                                                                         *)
(* A word, and a byte, is the set of its one bits.  The widths are         *)
(* constants: 64, 8 and 2^32 - 1 in the code.                              *)
(***************************************************************************)
EXTENDS Integers, FiniteSets, FiniteSetsExt, Sequences

CONSTANTS
    WordBits,   \* bits of a word of ResumeMap
    ByteBits,   \* bits of a byte of the bitmap
    MaxCount,   \* u32::MAX, which no chunk count may exceed
    MaxChunk,   \* DEFAULT_CHUNK_SIZE
    MaxSize     \* bound: file sizes

ASSUME ChunkPlanAssumption ==
    /\ {WordBits, ByteBits, MaxChunk} \subseteq Nat \ {0}
    /\ {MaxCount, MaxSize} \subseteq Nat

VARIABLES
    plan,       \* ChunkPlan: file_size, chunk_size, chunk_count
    map,        \* ResumeMap of the receiver: words and completed_count
    rows,       \* completed_chunks: every index whose row is stored
    asked,      \* ResumeMap the sender builds from the bitmap it is sent
    shown       \* completed_bytes of the two sides: after a resume

vars == <<plan, map, rows, asked, shown>>

-----------------------------------------------------------------------------
(* ChunkPlan.                                                              *)

Least(m, n) == IF m < n THEN m ELSE n

DivCeil(n, d) == (n + d - 1) \div d

(* ChunkPlan::new refuses an empty chunk and too many of them.             *)
Fits(size, chunk) == chunk # 0 /\ DivCeil(size, chunk) <= MaxCount

NewPlan(size, chunk) == [size |-> size, chunk |-> chunk, count |-> DivCeil(size, chunk)]

Indices(p) == 0..(p.count - 1)

(* Mutant: every chunk is a whole one. *)
WholeSpec(p, index) ==
    [index |-> index, offset |-> index * p.chunk, length |-> p.chunk]

(* chunk.                                                                  *)
ChunkSpec(p, index) ==
    [index  |-> index,
     offset |-> index * p.chunk,
     length |-> Least(p.size - index * p.chunk, p.chunk)]

(* ResumeMap.                                                              *)
NewMap(count) == [words |-> [w \in 0..(DivCeil(count, WordBits) - 1) |-> {}], completed |-> 0]

Contains(m, count, index) == index < count /\ index % WordBits \in m.words[index \div WordBits]

(* Mutant: the mask of a byte in the words. *)
MarkByByte(m, index) ==
    IF index % ByteBits \in m.words[index \div WordBits] THEN m
    ELSE [words     |-> [m.words EXCEPT ![index \div WordBits] = @ \cup {index % ByteBits}],
          completed |-> m.completed + 1]

(* mark_complete of an index in range.                                     *)
Marked(m, index) ==
    IF index % WordBits \in m.words[index \div WordBits] THEN m
    ELSE [words     |-> [m.words EXCEPT ![index \div WordBits] = @ \cup {index % WordBits}],
          completed |-> m.completed + 1]

MarkedAll(m, S) == FoldSet(LAMBDA index, acc : Marked(acc, index), m, S)

IsComplete(m, count) == m.completed = count

(* to_bitmap_bytes.                                                        *)
Bitmap(m, count) ==
    [b \in 0..(DivCeil(count, ByteBits) - 1) |->
        {k \in 0..(ByteBits - 1) : Contains(m, count, b * ByteBits + k)}]

(* Mutant: every bit of the last byte is taken for a chunk. *)
FromWholeBytes(bytes, count) ==
    MarkedAll(NewMap(Cardinality(DOMAIN bytes) * ByteBits),
              {i \in 0..(Cardinality(DOMAIN bytes) * ByteBits - 1) :
                  i % ByteBits \in bytes[i \div ByteBits]})

(* from_bitmap_bytes: bits beyond the last chunk are not looked at.  Both  *)
(* ends count chunks by the same plan, so that its test of the number of   *)
(* bytes refuses no bitmap of this program.                                *)
FromBitmap(bytes, count) ==
    MarkedAll(NewMap(count), {i \in 0..(count - 1) : i % ByteBits \in bytes[i \div ByteBits]})

(* missing_chunks, and the bytes they and the others have.                 *)
Missing(m, p) == {i \in Indices(p) : ~Contains(m, p.count, i)}

Bytes(p, S) == MapThenSumSet(LAMBDA i : ChunkSpec(p, i).length, S)

CompletedBytes(m, p) == Bytes(p, {i \in Indices(p) : Contains(m, p.count, i)})

(* Mutant: only the end of a chunk is compared with the file. *)
AcceptsInside(p, h) ==
    h.length # 0 /\ h.length <= MaxChunk /\ h.offset + h.length <= p.size /\ h.index < p.count

(* validate_header, and handle_incoming_data's comparison with the plan.   *)
Accepts(p, h) ==
    /\ h.length # 0 /\ h.length <= MaxChunk
    /\ h.offset + h.length <= p.size
    /\ h.index < p.count
    /\ ChunkSpec(p, h.index).offset = h.offset /\ ChunkSpec(p, h.index).length = h.length

-----------------------------------------------------------------------------
(* A file that is received, with the calls made on its map.                *)

(* Rows of another plan may be there: they outlive a file that has changed *)
(* its size under the same item id.                                        *)
Init ==
    /\ \E size \in 0..MaxSize, chunk \in 1..MaxChunk :
          Fits(size, chunk) /\ plan = NewPlan(size, chunk)
    /\ rows \in SUBSET {plan.count}
    /\ map = NewMap(plan.count) /\ asked = map
    /\ shown = [sender |-> 0, receiver |-> 0]

(* A chunk arrives, perhaps again: handle_incoming_data.  Its row is stored*)
(* with its mark; a row that cannot be stored ends the channel, which is   *)
(* RowFails of IncomingTransfer.                                           *)
Arrive(index) ==
    /\ index \in Indices(plan)
    /\ map' = Marked(map, index)
    /\ rows' = rows \cup {index}
    /\ UNCHANGED <<plan, asked, shown>>

(* prepare_incoming of the next attempt: the map comes from the rows.      *)
Rebuild ==
    /\ map' = MarkedAll(NewMap(plan.count), rows \cap Indices(plan))
    /\ UNCHANGED <<plan, rows, asked, shown>>

(* resume_envelope and build_chunk_jobs, with whatever the sender of the   *)
(* bitmap leaves in the bits beyond the last chunk.                        *)
Resume(stray) ==
    LET bytes == Bitmap(map, plan.count)
        last == DivCeil(plan.count, ByteBits) - 1
        sent == IF last < 0 THEN bytes ELSE [bytes EXCEPT ![last] = @ \cup stray]
    IN  /\ stray \subseteq {k \in 0..(ByteBits - 1) : last * ByteBits + k >= plan.count}
        /\ asked' = FromBitmap(sent, plan.count)
        /\ shown' = [sender   |-> plan.size - Bytes(plan, Missing(asked', plan)),
                     receiver |-> CompletedBytes(map, plan)]
        /\ UNCHANGED <<plan, map, rows>>

Next ==
    \/ \E index \in Indices(plan) : Arrive(index)
    \/ Rebuild
    \/ \E stray \in SUBSET (0..(ByteBits - 1)) : Resume(stray)

Spec == Init /\ [][Next]_vars

-----------------------------------------------------------------------------
(* Properties.                                                             *)

(* The chunks of a plan are laid end to end: every byte of the file is in  *)
(* exactly one, none is empty, none longer than a chunk may be, and an     *)
(* empty file has none.                                                    *)
Tiles ==
    /\ \A b \in 0..(plan.size - 1) :
          Cardinality({i \in Indices(plan) :
             LET s == ChunkSpec(plan, i) IN s.offset <= b /\ b < s.offset + s.length}) = 1
    /\ \A i \in Indices(plan) :
          ChunkSpec(plan, i).length \in 1..plan.chunk
          /\ ChunkSpec(plan, i).offset + ChunkSpec(plan, i).length <= plan.size

(* Words, masks and the counter mean the set of chunks that have arrived,  *)
(* over repetitions, a rebuild and rows of another plan: a file is taken   *)
(* for complete when nothing of it is missing.                             *)
MapMeansSet ==
    /\ \A i \in 0..(plan.count + WordBits) :
          Contains(map, plan.count, i) => i \in rows \cap Indices(plan)
    /\ map.completed = Cardinality({i \in Indices(plan) : Contains(map, plan.count, i)})
    /\ IsComplete(map, plan.count) <=> Missing(map, plan) = {}

(* The sender asks for exactly the chunks the receiver lacks, whatever is  *)
(* in the bits nobody uses; and the progress it computes of what is        *)
(* missing is the progress the receiver computes of what is there.         *)
ResumeExact ==
    [][\A stray \in SUBSET (0..(ByteBits - 1)) :
          Resume(stray) => asked' = map /\ shown'.sender = shown'.receiver]_vars

(* A header is accepted when it is the plan's own, and only then: no chunk *)
(* is written across the limits of another.                                *)
HeaderExact ==
    \A h \in [index : 0..(plan.count + 1), offset : 0..(plan.size + 1), length : 0..(MaxChunk + 1)] :
        Accepts(plan, h) <=> h.index < plan.count /\ h = ChunkSpec(plan, h.index)
=============================================================================
