-------------------------------- MODULE Chunking --------------------------------
(***************************************************************************)
(* How a document is cut into the chunks that are embedded, what the       *)
(* embeddings provider makes of them, and how many of the chunks that a    *)
(* search returns go into a prompt.                                        *)
(*   lib/knowledge/chunking.ts, lib/embeddings/ollama-provider.ts,         *)
(*   lib/knowledge/retrieval.ts, brand-context.ts                          *)
(*                                                                         *)
(* A paragraph is a sequence of characters, each blank or not, that        *)
(* neither starts nor ends with a blank; a chunk is the set of positions   *)
(* it is made of.  An exchange with the provider is that of OllamaProvider, *)
(* with the vectors of its body, each the number of its components.  A row *)
(* of knowledge_chunks has a key, a brand, the distance of its vector from *)
(* the query's, a length, and whether its document is READY.               *)
(***************************************************************************)
EXTENDS Integers, FiniteSets, SequencesExt

CONSTANTS
  Paragraphs,  \* paragraphs that are tried
  Sizes,       \* pairs of a chunk size and an overlap that are tried
  Vectors,     \* lengths of embeddings and of chunks that are tried
  Exchanges    \* exchanges with the provider that are tried

Blank == "blank"
IsParagraph(p) == p # <<>> /\ p[1] # Blank /\ p[Len(p)] # Blank

(* validateOptions                                                           *)
AreOptions(size, overlap) == size > 0 /\ overlap \in 0..size - 1

(* Where the chunk that starts at a position ends: after size characters, or *)
(* before the last blank among them when it lies in their second half.       *)
ChunkEnd(p, size, start) ==
  LET target == IF start + size > Len(p) THEN Len(p) + 1 ELSE start + size
      boundary == Max({start - 1} \cup {i \in start..target - 1 : p[i] = Blank})
  IN IF target <= Len(p) /\ boundary - start > size \div 2 THEN boundary ELSE target

(* Where the chunks start                                                    *)
Starts(p, size, overlap) ==
  LET next(start) ==
        LET end == ChunkEnd(p, size, start)
        IN IF end > Len(p) THEN {} ELSE {Max({start + 1, end - overlap})}
      from[n \in 0..Len(p)] == IF n = 0 THEN {1} ELSE UNION {next(s) : s \in from[n - 1]}
  IN UNION {from[n] : n \in 0..Len(p)}

(* splitParagraph; blanks at the ends of a chunk go.                         *)
Trimmed(p, positions) ==
  LET letters == {i \in positions : p[i] # Blank}
  IN IF letters = {} THEN {} ELSE Min(letters)..Max(letters)

Chunks(p, size, overlap) ==
  LET starts == Starts(p, size, overlap)
      start(i) == CHOOSE s \in starts : Cardinality({t \in starts : t <= s}) = i
      chunks == [i \in 1..Cardinality(starts) |->
                  Trimmed(p, start(i)..ChunkEnd(p, size, start(i)) - 1)]
  IN SelectSeq(chunks, LAMBDA c : c # {})

-------------------------------------------------------------------------------
(* request and assertModelAvailable                                          *)
Exchanged(exchange) ==
  CASE exchange.net = "abort" -> "REQUEST_TIMEOUT"
    [] exchange.net = "lost" -> "PROVIDER_UNAVAILABLE"
    [] OTHER -> "ok"

ModelAvailable(tags) ==
  CASE Exchanged(tags) # "ok" -> Exchanged(tags)
    [] Exchanged(tags) = "ok" /\ tags.status # 200 -> "PROVIDER_UNAVAILABLE"
    [] OTHER -> IF tags.body = "garbled" THEN "MALFORMED_RESPONSE"
                ELSE IF tags.body = "missing" THEN "MODEL_UNAVAILABLE" ELSE "ok"

(* parseVectors; a flat vector counts as a sequence of one.                  *)
Parsed(vectors, count, dimension) ==
  IF Len(vectors) # count THEN "MALFORMED_RESPONSE"
  ELSE IF ToSet(vectors) \subseteq {dimension} THEN "ok" ELSE "DIMENSION_MISMATCH"

(* embedDocuments; texts are the positions of the chunks, blank when empty.  *)
Embedded(texts, tags, answer, dimension) ==
  CASE texts = <<>> \/ {} \in ToSet(texts) -> "INVALID_REQUEST"
    [] OTHER ->
         IF ModelAvailable(tags) # "ok" THEN ModelAvailable(tags)
         ELSE IF Exchanged(answer) # "ok" THEN Exchanged(answer)
         ELSE IF answer.status = 404 THEN "MODEL_UNAVAILABLE"
         ELSE IF answer.status # 200 THEN "EMBEDDING_FAILED"
         ELSE IF answer.body = "garbled" THEN "MALFORMED_RESPONSE"
         ELSE Parsed(answer.vectors, Len(texts), dimension)

(* retrieveKnowledgeForBrand, for a query that is blank or not: what comes   *)
(* of asking for its vector, and the rows that are returned for it.          *)
Queried(query, k, tags, answer, dimension) ==
  CASE query = {} -> "INVALID_KNOWLEDGE_QUERY"
    [] query # {} /\ k \notin 1..20 -> "INVALID_KNOWLEDGE_TOP_K"
    [] OTHER -> Embedded(<<query>>, tags, answer, dimension)

IsNearer(r, s) == r.distance < s.distance \/ (r.distance = s.distance /\ r.key < s.key)

Retrieved(rows, brand, k) ==
  LET own == {r \in rows : r.brand = brand /\ r.ready}
      rank(r) == Cardinality({s \in own : IsNearer(s, r)}) + 1
  IN [i \in 1..Min({k, Cardinality(own)}) |-> CHOOSE r \in own : rank(r) = i]

(* boundKnowledge: of the chunks that a search returns, best first, those    *)
(* that still fit.                                                           *)
Fitting(lengths, limit) ==
  FoldLeftDomain(
    LAMBDA kept, i :
      IF FoldFunctionOnSet(+, lengths[i], lengths, kept) > limit THEN kept ELSE kept \cup {i},
    {}, lengths)

-------------------------------------------------------------------------------
Words(p) ==
  {w \in {i..j : i, j \in DOMAIN p} \ {{}} :
     /\ \A i \in w : p[i] # Blank
     /\ \A i \in {Min(w) - 1, Max(w) + 1} \cap DOMAIN p : p[i] = Blank}

(* The chunks of a paragraph lose none of its words, break none that is not  *)
(* longer than the overlap, and none is too long for the model.              *)
ASSUME ChunksKeepTheWords ==
  \A p \in Paragraphs, o \in Sizes : IsParagraph(p) /\ AreOptions(o[1], o[2]) =>
    LET chunks == ToSet(Chunks(p, o[1], o[2]))
    IN /\ \A c \in chunks : Cardinality(c) <= o[1]
       /\ \A i \in DOMAIN p : p[i] # Blank => i \in UNION chunks
       /\ \A w \in Words(p) : Cardinality(w) <= o[2] => \E c \in chunks : w \subseteq c

(* While no more than half of a chunk overlaps the one before, each ends     *)
(* behind it: no text is embedded twice for nothing.                         *)
ASSUME ChunksAdvance ==
  \A p \in Paragraphs, o \in Sizes : IsParagraph(p) /\ o[1] > 0 /\ o[2] \in 0..o[1] \div 2 =>
    \A s, t \in Starts(p, o[1], o[2]) : s < t => ChunkEnd(p, o[1], s) < ChunkEnd(p, o[1], t)

(* The provider never refuses the chunks of a document for being blank, and  *)
(* each chunk stored has a vector of its own, of the length of the column.   *)
ASSUME ChunksAreEmbedded ==
  LET texts == {Chunks(p, o[1], o[2]) :
                  p \in {q \in Paragraphs : IsParagraph(q)}, o \in {q \in Sizes : AreOptions(q[1], q[2])}}
  IN \A t \in texts, tags \in Exchanges, answer \in Exchanges, dimension \in Vectors :
       LET outcome == Embedded(t, tags, answer, dimension)
       IN /\ outcome # "INVALID_REQUEST"
          /\ outcome = "ok" => answer.vectors = [i \in DOMAIN t |-> dimension]

(* A search that passes its own checks is not refused by the provider's, and *)
(* has one vector to search with, of the length of the column.               *)
ASSUME QueriesAreEmbedded ==
  \A query \in {{}, {1}}, k \in {0, 1, 20, 21}, tags \in Exchanges, answer \in Exchanges,
     dimension \in Vectors :
    LET outcome == Queried(query, k, tags, answer, dimension)
    IN /\ outcome # "INVALID_REQUEST"
       /\ outcome = "ok" => answer.vectors = <<dimension>>

ChunkRows == [brand : 1..2, ready : BOOLEAN, distance : 1..2, length : Vectors]
ChunkTables == {{[key |-> i] @@ f[i] : i \in DOMAIN f} : f \in [1..3 -> ChunkRows]}

(* The knowledge that goes into a prompt keeps to its limit and to READY     *)
(* documents of the brand; a row left out of it does not fit any more, or k  *)
(* rows precede it; and the nearest row short enough is always part of it.   *)
ASSUME ContextIsNearest ==
  \A rows \in ChunkTables, k \in 1..2, limit \in Vectors :
    LET found == Retrieved(rows, 1, k)
        lengths == [i \in DOMAIN found |-> found[i].length]
        kept == {found[i] : i \in Fitting(lengths, limit)}
        total == MapThenSumSet(LAMBDA r : r.length, kept)
        own == {r \in rows : r.brand = 1 /\ r.ready}
    IN /\ total <= limit /\ kept \subseteq own
       /\ \A r \in own \ kept :
            \/ Cardinality({s \in own : IsNearer(s, r)}) >= k
            \/ total + r.length > limit
       /\ \A r \in ToSet(found) :
            r.length <= limit /\ r \notin kept
              => \E s \in kept : IsNearer(s, r) /\ s.length > 0
===============================================================================
