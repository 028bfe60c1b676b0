---------------------------- MODULE MCRetriever ----------------------------
(* The parts of the retrieval library, which share nothing, so that a behaviour *)
(* is of one of them.  Two retrievers of one collection, three documents of two *)
(* dimensions; every text of up to three sentences of up to two words, of four  *)
(* lengths; every context of up to three documents, of four lengths.            *)
EXTENDS Retriever, Passages, SequencesExt

CONSTANTS d1, d2, d3, WordLengths, DocLengths

VARIABLE part     \* which of them the behaviour is of

MCDim == [d \in Docs |-> IF d = d3 THEN 2 ELSE 1]

\* The text of a sequence of sentences, each the sequence of its words' lengths.
TextOf(sentences) ==
    LET step(t, n) == Append(t, t[Len(t)] + n + 1)
        next(h, s) == Append(h, h[Len(h)] + Len(s))
    IN  [starts |-> FoldLeft(step, <<0>>, FlattenSeq(sentences)),
         heads  |-> FoldLeft(next, <<1>>, sentences)]

Sentences == UNION {[1 .. n -> WordLengths] : n \in 1 .. 2}
MCTexts   == {TextOf(s) : s \in UNION {[1 .. n -> Sentences] : n \in 0 .. 3}}

MCContexts == UNION {[1 .. n -> [length : DocLengths, dict : BOOLEAN]] : n \in 0 .. 3}

Up == [r \in Retrievers |-> TRUE]

rag == <<retriever, chunker, augmenter, part>>

RagInit ==
    /\ RetrieverInit
    /\ \/ part = "store" /\ text = TextOf(<<>>) /\ context = <<>>
       \/ part = "chunk" /\ context = <<>> /\ use = Up
       \/ part = "augment" /\ text = TextOf(<<>>) /\ use = Up
    /\ ChunkerInit
    /\ AugmenterInit

RagNext ==
    /\ part' = part
    /\ \/ part = "store"   /\ RetrieverNext /\ UNCHANGED <<chunker, augmenter>>
       \/ part = "chunk"   /\ ChunkerNext /\ UNCHANGED <<retriever, augmenter>>
       \/ part = "augment" /\ AugmenterNext /\ UNCHANGED <<retriever, chunker>>

RagSpec == RagInit /\ [][RagNext]_rag
=============================================================================
