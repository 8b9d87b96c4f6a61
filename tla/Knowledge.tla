------------------------------- MODULE Knowledge -------------------------------
(***************************************************************************)
(* The knowledge documents of a brand, their index, and the requests that  *)
(* edit and index them.                                                    *)
(*   lib/knowledge/service.ts, indexing.ts, lib/brands/service.ts          *)
(*                                                                         *)
(* A document's chunks are made of its content and its metadata, and stand *)
(* for them here.  sourceType and sourceName, which are compared as the    *)
(* content is, and the title are left out.                                 *)
(***************************************************************************)
EXTENDS Authorization, FiniteSetsExt

CONSTANTS
  Documents,       \* document ids, each used once
  Contents,        \* texts a document may have
  Metadata,        \* metadata it may have
  Size,            \* Size[x]: the length of text x
  DocumentLimit,   \* limits.knowledgeDocuments
  CharacterLimit,  \* limits.knowledgeCharacters
  Editors,         \* requests in progress
  Absent           \* a field that a patch does not have, or no content hash

ASSUME KnowledgeAssumption ==
  /\ Size \in [Contents -> Nat \ {0}] /\ Absent \notin Contents \cup Metadata
  /\ DocumentLimit \in Nat \ {0} /\ CharacterLimit \in Nat \ {0}

VARIABLES
  brand,     \* the brand row: "none", "there" or "deleted"
  document,  \* document[d]: the knowledge_documents row
  chunks,    \* chunks[d]: what the chunks stored for d are made of
  edit       \* edit[e]: where request e is, and what it has read of the row

knowledgeVars == <<brand, document, chunks, edit>>

NoChunks == [content |-> Absent, metadata |-> Absent]
Document(status, content, metadata, hash) ==
  [status |-> status, content |-> content, metadata |-> metadata, hash |-> hash]
NoDocument == Document("none", Absent, Absent, Absent)
Gone == Document("deleted", Absent, Absent, Absent)
NoEdit == [pc |-> "idle"]

Exists(d) == document[d].status \notin {"none", "deleted"}

KnowledgeInit ==
  /\ brand = "none"
  /\ document = [d \in Documents |-> NoDocument]
  /\ chunks = [d \in Documents |-> NoChunks]
  /\ edit = [e \in Editors |-> NoEdit]

Forget(e) == edit' = [edit EXCEPT ![e] = NoEdit]
Set(d, row) == document' = [document EXCEPT ![d] = row]

-------------------------------------------------------------------------------
CreateBrand ==
  /\ brand = "none" /\ SomebodyMay("brand.write")
  /\ brand' = "there"
  /\ UNCHANGED <<document, chunks, edit>>

(* Documents and chunks go with their brand, and with the workspace.         *)
Cascade(status) ==
  /\ brand' = status
  /\ document' = [d \in Documents |-> IF Exists(d) THEN Gone ELSE document[d]]
  /\ chunks' = [d \in Documents |-> NoChunks]

DeleteBrand ==
  /\ brand = "there" /\ SomebodyMay("brand.delete")
  /\ Cascade("deleted")
  /\ UNCHANGED edit

(* A request: the row has been read, and the permission checked.  content    *)
(* and metadata are the ones to store, or those of a patch.                  *)
Begin(e, pc, d, content, metadata, seen) ==
  /\ edit[e] = NoEdit /\ brand = "there"
  /\ edit' = [edit EXCEPT ![e] =
       [pc |-> pc, document |-> d, content |-> content, metadata |-> metadata, seen |-> seen]]
  /\ UNCHANGED <<brand, document, chunks>>

BeginCreate(e, d, content, metadata) ==
  /\ SomebodyMay("brand.write") /\ document[d] = NoDocument
  /\ Begin(e, "creating", d, content, metadata, NoDocument)

(* Of the row it has read, an update goes by the content alone.              *)
BeginUpdate(e, d, content, metadata) ==
  /\ SomebodyMay("brand.write") /\ Exists(d)
  /\ Begin(e, "updating", d, content, metadata, [NoDocument EXCEPT !.content = document[d].content])

(* A READY document with the hash of its content is answered as it is.       *)
BeginIndex(e, d) ==
  /\ SomebodyMay("brand.write") /\ Exists(d)
  /\ ~(document[d].status = "READY" /\ document[d].hash = document[d].content)
  /\ Begin(e, "indexing", d, Absent, Absent, document[d])

DeleteDocument(d) ==
  /\ SomebodyMay("brand.delete") /\ Exists(d)
  /\ Set(d, Gone) /\ chunks' = [chunks EXCEPT ![d] = NoChunks]
  /\ UNCHANGED <<brand, edit>>

-------------------------------------------------------------------------------
Stored == {d \in Documents : Exists(d)}
TotalSize == MapThenSumSet(LAMBDA d : Size[document[d].content], Stored)

(* assertKnowledgeCapacity, in the transaction that holds the workspace row. *)
HasCapacity(delta, adding) ==
  /\ adding => Cardinality(Stored) < DocumentLimit
  /\ TotalSize + delta <= CharacterLimit

Create(e) ==
  /\ edit[e].pc = "creating"
  /\ LET d == edit[e].document
     IN IF brand = "there" /\ document[d] = NoDocument /\ HasCapacity(Size[edit[e].content], TRUE)
        THEN Set(d, Document("PENDING", edit[e].content, edit[e].metadata, Absent))
        ELSE UNCHANGED document
  /\ Forget(e) /\ UNCHANGED <<brand, chunks>>

(* indexedFieldsChanged compares with the row as it was read.                *)
ChangesIndex(e) ==
  \/ edit[e].content \notin {Absent, edit[e].seen.content}
  \/ edit[e].metadata # Absent

NextContent(e) == IF edit[e].content = Absent THEN edit[e].seen.content ELSE edit[e].content

Update(e) ==
  /\ edit[e].pc = "updating"
  /\ LET d == edit[e].document
         row == document[d]
         written == [row EXCEPT
           !.content = IF edit[e].content = Absent THEN @ ELSE edit[e].content,
           !.metadata = IF edit[e].metadata = Absent THEN @ ELSE edit[e].metadata]
     IN IF Exists(d)
           /\ HasCapacity(Size[NextContent(e)] - Size[edit[e].seen.content], FALSE)
        THEN Set(d, IF ChangesIndex(e)
                    THEN [written EXCEPT !.hash = Absent, !.status = "PENDING"] ELSE written)
        ELSE UNCHANGED document
  /\ Forget(e) /\ UNCHANGED <<brand, chunks>>

-------------------------------------------------------------------------------
(* Mutated form of IsVersion: the update asks for the id and the status.     *)
IsStatus(row, seen, status) == row.status = status

(* documentVersionCondition                                                  *)
IsVersion(row, seen, status) ==
  /\ row.status = status
  /\ row.content = seen.content /\ row.metadata = seen.metadata /\ row.hash = seen.hash

StartIndexing(e) ==
  /\ edit[e].pc = "indexing"
  /\ LET d == edit[e].document
     IN IF IsVersion(document[d], edit[e].seen, edit[e].seen.status)
        THEN /\ Set(d, [document[d] EXCEPT !.status = "PROCESSING"])
             /\ edit' = [edit EXCEPT ![e].pc = "embedding"]
        ELSE UNCHANGED document /\ Forget(e)
  /\ UNCHANGED <<brand, chunks>>

(* The transaction that stores the chunks; nothing is stored when the        *)
(* document has changed, and it may fail.                                    *)
StoreChunks(e) ==
  /\ edit[e].pc = "embedding"
  /\ LET d == edit[e].document
         seen == edit[e].seen
     IN /\ IsVersion(document[d], seen, "PROCESSING")
        /\ Set(d, [document[d] EXCEPT !.status = "READY", !.hash = seen.content])
        /\ chunks' = [chunks EXCEPT ![d] =
             [content |-> seen.content, metadata |-> seen.metadata]]
  /\ Forget(e) /\ UNCHANGED brand

(* The embeddings, or the transaction, have failed.                          *)
FailIndexing(e) ==
  /\ edit[e].pc = "embedding"
  /\ LET d == edit[e].document
     IN IF IsVersion(document[d], edit[e].seen, "PROCESSING")
        THEN Set(d, [document[d] EXCEPT !.status = "FAILED"])
        ELSE UNCHANGED document
  /\ Forget(e) /\ UNCHANGED <<brand, chunks>>

(* The process ends, or a statement fails, between two statements.           *)
Drop(e) ==
  /\ edit[e] # NoEdit /\ Forget(e)
  /\ UNCHANGED <<brand, document, chunks>>

KnowledgeStep ==
  \/ CreateBrand \/ DeleteBrand
  \/ \E d \in Documents : DeleteDocument(d)
  \/ \E e \in Editors, d \in Documents :
       \/ \E x \in Contents, m \in Metadata : BeginCreate(e, d, x, m)
       \/ \E x \in Contents \cup {Absent}, m \in Metadata \cup {Absent} :
            <<x, m>> # <<Absent, Absent>> /\ BeginUpdate(e, d, x, m)
       \/ BeginIndex(e, d)
  \/ \E e \in Editors :
       Create(e) \/ Update(e) \/ StartIndexing(e) \/ StoreChunks(e) \/ FailIndexing(e) \/ Drop(e)

-------------------------------------------------------------------------------
(* What a search may return of a document is what the document says now.     *)
IsIndexed(d) ==
  LET row == document[d]
  IN row.status = "READY" =>
       row.hash = row.content /\ chunks[d] = [content |-> row.content, metadata |-> row.metadata]

(* Indexers of one document run side by side, and edits, deletions and       *)
(* crashes fall between their steps: no step leaves a document READY with an *)
(* index of something else, except an update that decided on the content it  *)
(* had read, which another update has replaced since.                        *)
IndexGoesStaleUnseen ==
  [][\A d \in Documents :
       IsIndexed(d) /\ ~IsIndexed(d)' =>
         \E e \in Editors :
           /\ edit[e].pc = "updating" /\ edit'[e] = NoEdit
           /\ edit[e].seen.content # document[d].content]_knowledgeVars
===============================================================================
